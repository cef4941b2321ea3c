-------------------------------- MODULE Accounts --------------------------------
(***************************************************************************)
(* Who may act: the users table with its identity namespace, sign-in by     *)
(* password, by OIDC and by the Paperless bridge, the administration of     *)
(* accounts under the enabled-administrator lock, sessions and API tokens.  *)
(*                                                                         *)
(* One request is one handler; a transaction that locks and reads before it *)
(* writes is two actions.  A name is a normalized identity, a username or   *)
(* an e-mail address.  "session" says the account has an unrevoked session. *)
(***************************************************************************)
EXTENDS Integers, FiniteSets

CONSTANTS Users,         \* rows the users table may come to hold
          Requests,      \* concurrent API requests
          Names,         \* usernames people bring
          Mails,         \* e-mail addresses people bring
          Subjects,      \* subjects of the OIDC provider
          Principals,    \* Paperless users behind the login bridge
          RoleChoices,   \* role sets an administrator assigns
          IdpRoles,      \* role names the OIDC provider asserts
          RoleMappings,  \* ARCHIVIST_OIDC_ROLE_MAPPINGS: a function
          AdminUsers,    \* ARCHIVIST_OIDC_ADMIN_USERS: names and subjects
          DefaultRoles,  \* ARCHIVIST_OIDC_DEFAULT_ROLES
          LinkByEmail,   \* oidc_allow_email_link
          ScopeChoices,  \* scope sets a token is created with
          MaxFails,      \* failures that lock an account (10)
          MaxTokens,     \* bound: API tokens at once
          NoOne

Roles == {"viewer", "reviewer", "operator", "admin", "auditor"}

ASSUME AccountsAssumption ==
  /\ MaxFails \in Nat \ {0} /\ MaxTokens \in Nat /\ LinkByEmail \in BOOLEAN
  /\ RoleChoices \subseteq SUBSET Roles /\ DefaultRoles \in (SUBSET Roles) \ {{}}
  /\ DOMAIN RoleMappings \subseteq IdpRoles
  /\ \A i \in DOMAIN RoleMappings : RoleMappings[i] \in Roles
  /\ NoOne \notin Users \cup Requests \cup Names \cup Mails \cup Subjects \cup Principals
  \* A subject comes with its provider; suffixes are tried until a name is free.
  /\ Subjects \cap Principals = {}
  /\ (Names \cup Mails) \cap (Subjects \cup Principals) = {}

-----------------------------------------------------------------------------
(* The permission matrix and the scopes of API tokens.                      *)

Permissions ==
  {"ReadDashboard", "ReadRuns", "WriteRuns", "ReadInventory", "WriteBatches", "UseChat",
   "ReadReviews", "WriteReviews", "ReadSettings", "WriteSettings", "ManageUsers", "ReadAudit"}

PermissionsOf(role) ==
  CASE role = "admin"    -> Permissions
    [] role = "viewer"   -> {"ReadDashboard", "ReadRuns", "ReadInventory"}
    [] role = "reviewer" -> {"ReadDashboard", "ReadRuns", "ReadInventory", "ReadReviews",
                             "WriteReviews", "UseChat"}
    [] role = "operator" -> {"ReadDashboard", "ReadRuns", "ReadInventory", "WriteBatches",
                             "WriteRuns", "UseChat"}
    [] role = "auditor"  -> {"ReadAudit", "ReadDashboard", "ReadRuns"}

RolesAllow(roles, permission) == \E role \in roles : permission \in PermissionsOf(role)

\* token_scope_for_permission: the permissions a scope stands for.
ScopeMeans ==
  [scope \in {"runs:read", "runs:write", "inventory:read", "batches:write", "reviews:read",
              "reviews:write", "settings:read", "audit:read"} |->
     CASE scope = "runs:read"      -> {"ReadDashboard", "ReadRuns"}
       [] scope = "runs:write"     -> {"WriteRuns"}
       [] scope = "inventory:read" -> {"ReadInventory"}
       [] scope = "batches:write"  -> {"WriteBatches"}
       [] scope = "reviews:read"   -> {"ReadReviews"}
       [] scope = "reviews:write"  -> {"WriteReviews"}
       [] scope = "settings:read"  -> {"ReadSettings"}
       [] scope = "audit:read"     -> {"ReadAudit"}]

TokenScopes == DOMAIN ScopeMeans

EffectiveScopes(scopes, creatorRoles) ==
  {s \in scopes \cap TokenScopes : \E p \in ScopeMeans[s] : RolesAllow(creatorRoles, p)}

-----------------------------------------------------------------------------
VARIABLES users,    \* Users -> the row
          audited,  \* Users -> roles and "enabled" as the newest audit event states them
          tokens,   \* unrevoked API tokens: [by, scopes]
          adminLock, \* who holds the enabled-administrator advisory lock
          request   \* Requests -> what the handler has read so far

accountVars == <<users, audited, tokens, adminLock, request>>

External == Subjects \cup Principals
Identities == Names \cup Mails \cup External   \* a taken name is suffixed with the subject's hash

NoUser == [exists |-> FALSE, enabled |-> FALSE, roles |-> {}, username |-> NoOne,
           email |-> NoOne, subject |-> NoOne, fails |-> 0, locked |-> FALSE,
           session |-> FALSE]
Row(name, mail, subj, roles) ==
  [exists |-> TRUE, enabled |-> TRUE, roles |-> roles, username |-> name, email |-> mail,
   subject |-> subj, fails |-> 0, locked |-> FALSE, session |-> FALSE]

Token == [by : Users, scopes : ScopeChoices]

Idle == [pc |-> "idle", user |-> NoOne, subject |-> NoOne, name |-> NoOne, email |-> NoOne,
         roles |-> {}, enabled |-> TRUE, refused |-> FALSE, token |-> NoOne]

Existing == {u \in Users : users[u].exists}
Free == Users \ Existing
Claims(u) == {users[u].username, users[u].email} \ {NoOne}
Owners(name) == {u \in Existing : name \in Claims(u)}
HeldBy(subj) == {u \in Existing : users[u].subject = subj}
EnabledAdmins == {u \in Existing : users[u].enabled /\ "admin" \in users[u].roles}
LastAdmin(u) == u \in EnabledAdmins /\ EnabledAdmins = {u}

\* authenticate and authorize_route: an unrevoked session of an enabled account.
Acting(permission) ==
  {u \in Existing : users[u].enabled /\ users[u].session
                      /\ RolesAllow(users[u].roles, permission)}

Told(u, roles, enabled) == audited' = [audited EXCEPT ![u] = [roles |-> roles, enabled |-> enabled]]

\* A sign-in that has its account, before and after that account is found enabled.
Resolve(r, u) == request' = [request EXCEPT ![r] = [Idle EXCEPT !.pc = "resolved", !.user = u]]
Welcome(r, u) == request' = [request EXCEPT ![r] = [Idle EXCEPT !.pc = "welcome", !.user = u]]

AccountsTypeOK ==
  /\ users \in [Users -> [exists : BOOLEAN, enabled : BOOLEAN, roles : SUBSET Roles,
                          username : Identities \cup {NoOne}, email : Mails \cup {NoOne},
                          subject : External \cup {NoOne}, fails : 0..MaxFails,
                          locked : BOOLEAN, session : BOOLEAN]]
  /\ audited \in [Users -> [roles : SUBSET Roles, enabled : BOOLEAN]]
  /\ tokens \subseteq Token
  /\ adminLock \in Requests \cup {NoOne}
  /\ request \in [Requests ->
       [pc : {"idle", "enable", "roles", "oidc", "bridge", "resolved", "failing", "welcome",
              "issue", "rotate"},
        user : Users \cup {NoOne}, subject : External \cup {NoOne},
        name : Identities \cup {NoOne}, email : Mails \cup {NoOne}, roles : SUBSET Roles,
        enabled : BOOLEAN, refused : BOOLEAN, token : Token \cup {NoOne}]]

BootstrapRoles == {"admin", "operator", "reviewer", "auditor"}

\* A fresh deployment: ensure_bootstrap_admin made the first account before the
\* server listens, or the deployment starts empty and provisions by OIDC.
AccountsInit ==
  /\ \/ users = [u \in Users |-> NoUser]
     \/ \E u \in Users, n \in Names :
          users = [v \in Users |-> IF v = u THEN Row(n, NoOne, NoOne, BootstrapRoles)
                                            ELSE NoUser]
  /\ audited = [u \in Users |-> [roles |-> users[u].roles, enabled |-> users[u].enabled]]
  /\ tokens = {} /\ adminLock = NoOne
  /\ request = [r \in Requests |-> Idle]

-----------------------------------------------------------------------------
(* Administration.  set_user_enabled and set_user_roles take the advisory    *)
(* lock, read, and either write or record a refusal, in one transaction.    *)

\* Mutation: the transaction does not take the advisory lock.
LocksNothing(r) == request[r] = Idle /\ adminLock' = r

Locks(r) == adminLock = NoOne /\ request[r] = Idle /\ adminLock' = r

BeginEnable(r, u, enabled) ==
  /\ Locks(r) /\ Acting("ManageUsers") # {} /\ u \in Existing
  /\ request' = [request EXCEPT ![r] =
       [Idle EXCEPT !.pc = "enable", !.user = u, !.enabled = enabled,
                    !.refused = users[u].enabled /\ ~enabled /\ LastAdmin(u)]]
  /\ UNCHANGED <<users, audited, tokens>>

BeginRoles(r, u, roles) ==
  /\ Locks(r) /\ Acting("ManageUsers") # {} /\ u \in Existing
  /\ request' = [request EXCEPT ![r] =
       [Idle EXCEPT !.pc = "roles", !.user = u, !.roles = roles,
                    !.refused = "admin" \notin roles /\ LastAdmin(u)]]
  /\ UNCHANGED <<users, audited, tokens>>

CommitEnable(r) ==
  LET q == request[r] IN
  /\ q.pc = "enable"
  /\ IF q.refused THEN UNCHANGED <<users, audited>>
     ELSE /\ users' = [users EXCEPT ![q.user].enabled = q.enabled,
                                    ![q.user].session = @ /\ q.enabled]
          /\ Told(q.user, audited[q.user].roles, q.enabled)
  /\ request' = [request EXCEPT ![r] = Idle] /\ adminLock' = NoOne /\ UNCHANGED tokens

CommitRoles(r) ==
  LET q == request[r] IN
  /\ q.pc = "roles"
  /\ IF q.refused THEN UNCHANGED <<users, audited>>
     ELSE /\ users' = [users EXCEPT ![q.user].roles = q.roles]
          /\ Told(q.user, q.roles, audited[q.user].enabled)
  /\ request' = [request EXCEPT ![r] = Idle] /\ adminLock' = NoOne /\ UNCHANGED tokens

\* One transaction without the lock; a name that is taken fails it.
CreateUser(u, name, mail, roles) ==
  /\ Acting("ManageUsers") # {} /\ u \in Free
  /\ Owners(name) = {} /\ (mail = NoOne \/ Owners(mail) = {})
  /\ users' = [users EXCEPT ![u] = Row(name, mail, NoOne, roles)]
  /\ Told(u, roles, TRUE)
  /\ UNCHANGED <<tokens, adminLock, request>>

\* update_user_password_hash, by the account itself or by an administrator:
\* it also ends the lockout, the sessions and the tokens the account created.
ChangePassword(u) ==
  /\ u \in Existing /\ (u \in Acting("ReadDashboard") \/ Acting("ManageUsers") # {})
  /\ users' = [users EXCEPT ![u].fails = 0, ![u].locked = FALSE, ![u].session = FALSE]
  /\ tokens' = {t \in tokens : t.by # u}
  /\ UNCHANGED <<audited, adminLock, request>>

-----------------------------------------------------------------------------
(* OIDC.  The claims are what the verified ID token and userinfo carry: a    *)
(* preferred username, a verified e-mail address, a roles claim, or none.   *)

OidcClaims ==
  {c \in [subject : Subjects, preferred : Names \cup {NoOne}, email : Mails \cup {NoOne},
          hasRoles : BOOLEAN, asserted : SUBSET IdpRoles] : c.hasRoles \/ c.asserted = {}}

OidcName(c) == IF c.preferred # NoOne THEN c.preferred
               ELSE IF c.email # NoOne THEN c.email ELSE c.subject

Degraded(c) == c.preferred = NoOne /\ c.email = NoOne

Allowlisted(c) == {c.subject, OidcName(c), c.email} \cap AdminUsers # {}

MappedRoles(c) == {RoleMappings[i] : i \in c.asserted \cap DOMAIN RoleMappings}

Authoritative(c) == Allowlisted(c) \/ c.hasRoles

OidcRoles(c) ==
  LET granted == (IF Allowlisted(c) THEN BootstrapRoles ELSE {}) \cup MappedRoles(c)
  IN  IF granted = {} THEN DefaultRoles ELSE granted

PreserveRoles(c) == ~Authoritative(c) /\ Degraded(c) /\ "admin" \notin OidcRoles(c)

\* Mutation: an account of another identity is a candidate too.
AnyCandidates(c) ==
  {u \in Existing : \/ "admin" \in OidcRoles(c) /\ users[u].username = OidcName(c)
                    \/ LinkByEmail /\ c.email # NoOne /\ users[u].email = c.email}

\* Local accounts the subject may be linked to: the name only for an administrator.
LinkCandidates(c) ==
  {u \in Existing : /\ users[u].subject = NoOne
                    /\ \/ "admin" \in OidcRoles(c) /\ users[u].username = OidcName(c)
                       \/ LinkByEmail /\ c.email # NoOne /\ users[u].email = c.email}

OidcTarget(c) == HeldBy(c.subject) \cup (IF HeldBy(c.subject) = {} THEN LinkCandidates(c) ELSE {})

\* The roles the account is to have: merged on the first link, the provider's
\* afterwards, and never without the last enabled administrator.
ResolvedRoles(c, u) ==
  LET old == users[u].roles
      new == IF users[u].subject = NoOne THEN old \cup OidcRoles(c)
             ELSE IF PreserveRoles(c) THEN old ELSE OidcRoles(c)
      full == IF new = {} THEN {"viewer"} ELSE new
  IN  IF LastAdmin(u) THEN full \cup {"admin"} ELSE full

\* upsert_oidc_user up to its first write; two candidates are an error.
BeginOidc(r, c) ==
  /\ Locks(r) /\ Cardinality(OidcTarget(c)) =< 1
  /\ \/ OidcTarget(c) = {}
        /\ request' = [request EXCEPT ![r] =
             [Idle EXCEPT !.pc = "oidc", !.subject = c.subject, !.name = OidcName(c),
                          !.email = c.email, !.roles = OidcRoles(c)]]
     \/ \E u \in OidcTarget(c) :
          request' = [request EXCEPT ![r] =
             [Idle EXCEPT !.pc = "oidc", !.user = u, !.subject = c.subject,
                          !.name = OidcName(c), !.email = c.email,
                          !.roles = ResolvedRoles(c, u)]]
  /\ UNCHANGED <<users, audited, tokens>>

\* The name, or the name suffixed with the subject's hash when it is taken.
FreeName(q) == IF Owners(q.name) = {} THEN q.name ELSE q.subject

\* Savepoints retry a name that a concurrent writer took and drop such an e-mail.
ProvisionOidc(r, u) ==
  LET q == request[r] IN
  /\ q.pc = "oidc" /\ q.user = NoOne /\ u \in Free
  /\ users' = [users EXCEPT ![u] =
       Row(FreeName(q), IF q.email # NoOne /\ Owners(q.email) = {} THEN q.email ELSE NoOne,
           q.subject, q.roles)]
  /\ Told(u, q.roles, TRUE)
  /\ Resolve(r, u) /\ adminLock' = NoOne /\ UNCHANGED tokens

\* Mutation: the role refresh of a returning account leaves no event.
RolesEventOnLink(q) ==
  IF users[q.user].subject = NoOne
  THEN Told(q.user, q.roles, audited[q.user].enabled) ELSE UNCHANGED audited

RolesEvent(q) ==
  IF users[q.user].subject = NoOne \/ users[q.user].roles # q.roles
  THEN Told(q.user, q.roles, audited[q.user].enabled) ELSE UNCHANGED audited

RefreshOidc(r) ==
  LET q == request[r] IN
  /\ q.pc = "oidc" /\ q.user # NoOne
  /\ users' = [users EXCEPT ![q.user].subject = q.subject, ![q.user].roles = q.roles,
       ![q.user].email = IF q.email # NoOne /\ Owners(q.email) \subseteq {q.user}
                         THEN q.email ELSE @]
  /\ RolesEvent(q)
  /\ Resolve(r, q.user) /\ adminLock' = NoOne /\ UNCHANGED tokens

-----------------------------------------------------------------------------
(* The Paperless login bridge: looked up outside any lock, then looked up    *)
(* again under the principal's advisory lock before a viewer is inserted.   *)

BridgeSignIn(r, p, name) ==
  /\ request[r] = Idle
  /\ \/ \E u \in HeldBy(p) : users[u].enabled /\ Welcome(r, u)
     \/ /\ HeldBy(p) = {}
        /\ request' = [request EXCEPT ![r] =
             [Idle EXCEPT !.pc = "bridge", !.subject = p, !.name = name]]
  /\ UNCHANGED <<users, audited, tokens, adminLock>>

BridgeExists(r) ==
  /\ request[r].pc = "bridge" /\ \E u \in HeldBy(request[r].subject) : Resolve(r, u)
  /\ UNCHANGED <<users, audited, tokens, adminLock>>

\* Mutation: no second look-up under the principal's lock.
BridgeCreatesUnchecked(r, u) ==
  LET q == request[r] IN
  /\ q.pc = "bridge" /\ u \in Free
  /\ users' = [users EXCEPT ![u] = Row(FreeName(q), NoOne, q.subject, {"viewer"})]
  /\ Told(u, {"viewer"}, TRUE)
  /\ Resolve(r, u) /\ UNCHANGED <<tokens, adminLock>>

BridgeCreates(r, u) ==
  LET q == request[r] IN
  /\ q.pc = "bridge" /\ HeldBy(q.subject) = {} /\ u \in Free
  /\ users' = [users EXCEPT ![u] = Row(FreeName(q), NoOne, q.subject, {"viewer"})]
  /\ Told(u, {"viewer"}, TRUE)
  /\ Resolve(r, u) /\ UNCHANGED <<tokens, adminLock>>

-----------------------------------------------------------------------------
(* Signing in: the row read first decides, success or failure is recorded in *)
(* a transaction of its own, and the session is a third.                    *)

\* A locked account is turned away without counting; an unknown name too.
LoginReads(r, u, passwordOk) ==
  /\ request[r] = Idle /\ u \in Existing /\ ~users[u].locked
  /\ IF users[u].enabled /\ passwordOk THEN Welcome(r, u)
     ELSE request' = [request EXCEPT ![r] = [Idle EXCEPT !.pc = "failing", !.user = u]]
  /\ UNCHANGED <<users, audited, tokens, adminLock>>

\* The account a provisioning sign-in reads back after its commit.
Admit(r) ==
  LET q == request[r] IN
  /\ q.pc = "resolved"
  /\ IF users[q.user].enabled THEN Welcome(r, q.user)
     ELSE request' = [request EXCEPT ![r] = Idle]
  /\ UNCHANGED <<users, audited, tokens, adminLock>>

RecordFailure(r) ==
  LET u == request[r].user
      n == IF users[u].fails < MaxFails THEN users[u].fails + 1 ELSE MaxFails
  IN
  /\ request[r].pc = "failing"
  /\ users' = IF n = MaxFails THEN [users EXCEPT ![u].fails = n, ![u].locked = TRUE]
              ELSE [users EXCEPT ![u].fails = n]
  /\ request' = [request EXCEPT ![r] = Idle]
  /\ UNCHANGED <<audited, tokens, adminLock>>

RecordSuccess(r) ==
  LET q == request[r] IN
  /\ q.pc = "welcome"
  /\ users' = [users EXCEPT ![q.user].fails = 0, ![q.user].locked = FALSE]
  /\ request' = [request EXCEPT ![r].pc = "issue"]
  /\ UNCHANGED <<audited, tokens, adminLock>>

IssueSession(r) ==
  LET q == request[r] IN
  /\ q.pc = "issue"
  /\ users' = [users EXCEPT ![q.user].session = TRUE]
  /\ request' = [request EXCEPT ![r] = Idle]
  /\ UNCHANGED <<audited, tokens, adminLock>>

\* The connection or the process fails: an open transaction rolls back.
Disconnect(r) ==
  /\ request[r] # Idle /\ request' = [request EXCEPT ![r] = Idle]
  /\ adminLock' = IF adminLock = r THEN NoOne ELSE adminLock
  /\ UNCHANGED <<users, audited, tokens>>

LockExpires(u) ==
  /\ users[u].locked /\ users' = [users EXCEPT ![u].locked = FALSE]
  /\ UNCHANGED <<audited, tokens, adminLock, request>>

EndSession(u) ==
  /\ users[u].session /\ users' = [users EXCEPT ![u].session = FALSE]
  /\ UNCHANGED <<audited, tokens, adminLock, request>>

Logout(u) == u \in Acting("ReadDashboard") /\ EndSession(u)
RevokeSession(u) == Acting("ManageUsers") # {} /\ EndSession(u)
SessionExpires(u) == EndSession(u)

-----------------------------------------------------------------------------
(* API tokens act for their creator.                                        *)

CreateToken(u, scopes) ==
  /\ u \in Acting("ManageUsers") /\ scopes # {} /\ scopes \subseteq TokenScopes
  /\ Cardinality(tokens) < MaxTokens
  /\ tokens' = tokens \cup {[by |-> u, scopes |-> scopes]}
  /\ UNCHANGED <<users, audited, adminLock, request>>

\* rotate_api_token reads the token without a row lock ...
ReadToken(r, u, t) ==
  /\ request[r] = Idle /\ u \in Acting("ManageUsers") /\ t \in tokens
  /\ request' = [request EXCEPT ![r] = [Idle EXCEPT !.pc = "rotate", !.user = u, !.token = t]]
  /\ UNCHANGED <<users, audited, tokens, adminLock>>

\* ... and puts a successor in its place, also when it has been revoked or
\* rotated meanwhile.
RotateToken(r) ==
  LET q == request[r] IN
  /\ q.pc = "rotate"
  /\ tokens' = (tokens \ {q.token}) \cup {[by |-> q.user, scopes |-> q.token.scopes]}
  /\ request' = [request EXCEPT ![r] = Idle]
  /\ UNCHANGED <<users, audited, adminLock>>

RevokeToken(t) ==
  /\ Acting("ManageUsers") # {} /\ t \in tokens /\ tokens' = tokens \ {t}
  /\ UNCHANGED <<users, audited, adminLock, request>>

\* find_api_token and authorize: what a bearer of the token may do now.
TokenAllows(t, permission) ==
  /\ users[t.by].enabled
  /\ \E s \in EffectiveScopes(t.scopes, users[t.by].roles) : permission \in ScopeMeans[s]

-----------------------------------------------------------------------------
Administration ==
  \/ \E r \in Requests : CommitEnable(r) \/ CommitRoles(r)
  \/ \E r \in Requests, u \in Users :
        \/ \E e \in BOOLEAN : BeginEnable(r, u, e)
        \/ \E roles \in RoleChoices : BeginRoles(r, u, roles)
  \/ \E u \in Users :
        \/ ChangePassword(u)
        \/ \E n \in Names, mail \in Mails \cup {NoOne}, roles \in RoleChoices :
              CreateUser(u, n, mail, roles)

SignIn ==
  \/ \E r \in Requests : RefreshOidc(r) \/ BridgeExists(r) \/ Admit(r) \/ RecordFailure(r)
                           \/ RecordSuccess(r) \/ IssueSession(r) \/ Disconnect(r)
  \/ \E r \in Requests, u \in Users :
        \/ ProvisionOidc(r, u) \/ BridgeCreates(r, u)
        \/ \E ok \in BOOLEAN : LoginReads(r, u, ok)
  \/ \E r \in Requests : \/ \E c \in OidcClaims : BeginOidc(r, c)
                          \/ \E p \in Principals, n \in Names : BridgeSignIn(r, p, n)
  \/ \E u \in Users : LockExpires(u) \/ Logout(u) \/ RevokeSession(u) \/ SessionExpires(u)

Tokens ==
  \/ \E t \in tokens :
        RevokeToken(t) \/ \E r \in Requests, u \in Users : ReadToken(r, u, t)
  \/ \E r \in Requests : RotateToken(r)
  \/ \E u \in Users, scopes \in ScopeChoices : CreateToken(u, scopes)

AccountsNext == Administration \/ SignIn \/ Tokens

AccountsSpec == AccountsInit /\ [][AccountsNext]_accountVars

-----------------------------------------------------------------------------
\* #392: a token grants nothing its creator's current roles do not, so that a
\* demotion narrows every token at once.
TokenWithinCreator ==
  \A t \in tokens, p \in Permissions : TokenAllows(t, p) => RolesAllow(users[t.by].roles, p)

\* Types; one name has one owner and one external subject one account (the
\* namespace and the two sign-in paths that provision concurrently); a lock is
\* only ever the consequence of the full count of failures; and no token grants
\* what its creator has lost.
AccountsConsistent ==
  /\ AccountsTypeOK
  /\ \A u, v \in Existing : u # v =>
       /\ Claims(u) \cap Claims(v) = {}
       /\ users[u].subject = NoOne \/ users[u].subject # users[v].subject
  /\ \A u \in Users : users[u].locked => users[u].fails = MaxFails
  /\ TokenWithinCreator

\* #299: once some enabled account is an administrator, no demotion, disabling
\* or OIDC role refresh, in whatever order they interleave, leaves none.
AdminRemains == [][EnabledAdmins # {} => EnabledAdmins' # {}]_accountVars

\* #307: what the newest audit event says of an account's roles and state is
\* what the account has, whichever path wrote it.
AuditedAccounts ==
  \A u \in Users : audited[u] = [roles |-> users[u].roles, enabled |-> users[u].enabled]

\* An account keeps the external subject it was created for or linked to: a
\* second provider identity never takes it over.
SubjectKeepsAccount ==
  [][\A u \in Existing : users[u].subject # NoOne => users'[u].subject = users[u].subject]_accountVars

=============================================================================
