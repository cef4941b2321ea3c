SPECIFICATION MCSpec
CONSTANTS
  Users = {u1, u2}
  Requests = {r1, r2}
  Names = {n1}
  Mails = {n1}
  Subjects = {s1}
  Principals = {p1}
  boss = boss
  RoleChoices <- MCRoleChoices
  IdpRoles = {boss}
  RoleMappings <- MCRoleMappings
  AdminUsers = {}
  DefaultRoles = {"viewer"}
  LinkByEmail = TRUE
  ScopeChoices <- MCScopeChoices
  MaxFails = 1
  MaxTokens = 1
  NoOne = NoOne
  Writers = {w1, w2}
  Sweepers = {d1}
  Exporters = {e1}
  Batch = 1
  Page = 1
  SubMicros = {0, 1}
  Window = 1
  Skew = 1
  MaxExports = 1
  MaxPos = 4
  MaxTime = 2
  Operators = {r1, r2}
  Replicas = {w1, w2}
  local = local
  cloud = cloud
  preset = preset
  Providers = {local, cloud}
  Presets <- MCPresets
  PresetUrl = preset
  Urls = {preset, moved}
  Repairs = {"TEXT_NUM_CTX_FLOOR"}
  TooSmall <- MCTooSmall
  Floor = 1
  Sizes = {0, 2}
  MaxWrites = 2
  MaxBoots = 1
  NoReplica = NoReplica
  NoUrl = NoUrl
SYMMETRY MCSymmetry
INVARIANTS
  AccountsConsistent
  SettingsConsistent
  AuditedAccounts
  ChainVerifies
  ExportComplete
PROPERTIES
  AdminRemains
  SubjectKeepsAccount
  SavesKeepTheRest
  RetentionKeepsRecent
CHECK_DEADLOCK FALSE
