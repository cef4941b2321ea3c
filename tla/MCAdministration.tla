--------------------------- MODULE MCAdministration ---------------------------
(***************************************************************************)
(* The administrative side for the model checker: accounts, the audit log    *)
(* and the settings.  They share no state, so a behaviour lets one of them    *)
(* run and keeps the others at their start, and the states add up instead of *)
(* multiplying.  The settings run twice: with keys entered, and with replicas *)
(* that start.                                                             *)
(***************************************************************************)
EXTENDS Accounts, AuditChain, Settings, TLC

CONSTANTS boss,    \* the OIDC role that maps to administrator
          local, cloud, preset  \* AI providers, and the URL they come with

VARIABLE focus

MCRoleChoices == {{"viewer"}}
MCRoleMappings == boss :> "admin"
MCScopeChoices == {{"runs:read", "audit:read", "batches:write"}}
MCPresets == local :> TRUE @@ cloud :> FALSE
MCTooSmall == [r \in Repairs |-> {0}]
MCSymmetry == Permutations(Users) \cup Permutations(Requests) \cup Permutations(Writers)

MCInit ==
  /\ focus \in {"accounts", "audit", "keys", "repairs"}
  /\ AccountsInit /\ AuditInit /\ SettingsInit
  /\ \A r \in trail : r.ns = IF focus = "audit" THEN 1 ELSE 0
  /\ focus # "accounts" => Existing = {}
  /\ \A r \in Repairs : stored.num_ctx[r] = 0

\* Failed passwords of one account at a time, while there is no API token.
AccountsFocus ==
  /\ AccountsNext
  /\ \A u, v \in Users : users'[u].fails > 0 /\ users'[v].fails > 0 => u = v
  /\ \A u \in Users : users'[u].fails > 0 => tokens' = {}

\* Only the cloud provider moves or has a key.
SettingsFocus ==
  /\ SettingsNext
  /\ focus = "keys" => UNCHANGED replica
  /\ \A o \in Operators :
       /\ operator'[o].asked \subseteq
            IF focus = "keys" THEN {"uses", "providers"} ELSE {"paused", "num_ctx"}
       /\ operator'[o].want.providers[local].is # "off"
       /\ operator'[o].want.providers[local].url = preset
       /\ operator'[o].entered \subseteq IF "uses" \in operator'[o].asked THEN {} ELSE {cloud}

MCNext ==
  /\ UNCHANGED focus
  /\ \/ focus = "accounts" /\ AccountsFocus /\ UNCHANGED <<auditVars, settingsVars>>
     \/ focus = "audit" /\ AuditNext /\ UNCHANGED <<accountVars, settingsVars>>
     \/ focus \in {"keys", "repairs"} /\ SettingsFocus /\ UNCHANGED <<accountVars, auditVars>>

MCSpec == MCInit /\ [][MCNext]_<<focus, accountVars, auditVars, settingsVars>>
===============================================================================
