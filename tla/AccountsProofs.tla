---------------------------- MODULE AccountsProofs ----------------------------
(***************************************************************************)
(* What Accounts promises, for any number of users, requests, names and    *)
(* providers, and any mapping of roles.                                    *)
(*                                                                         *)
(* A request that holds the enabled-administrator lock relies on what it   *)
(* has read until it commits (Reading); everything else that writes        *)
(* accounts meanwhile only adds rows or leaves roles and subjects alone.   *)
(***************************************************************************)
EXTENDS Accounts, TLAPS

(* The places of a request: with the lock, and with a user it has found. *)
LockedPlaces == {"enable", "roles", "oidc"}
UserPlaces   == {"enable", "roles", "resolved", "failing", "welcome", "issue", "rotate"}
Places       == LockedPlaces \cup UserPlaces \cup {"idle", "bridge"}

Account ==
  [exists : BOOLEAN, enabled : BOOLEAN, roles : SUBSET Roles,
   username : Identities \cup {NoOne}, email : Mails \cup {NoOne},
   subject : External \cup {NoOne}, fails : 0..MaxFails,
   locked : BOOLEAN, session : BOOLEAN]
Event == [roles : SUBSET Roles, enabled : BOOLEAN]
RequestState ==
  [pc : Places, user : Users \cup {NoOne}, subject : External \cup {NoOne},
   name : Identities \cup {NoOne}, email : Mails \cup {NoOne}, roles : SUBSET Roles,
   enabled : BOOLEAN, refused : BOOLEAN, token : Token \cup {NoOne}]

Typed ==
  /\ users \in [Users -> Account]
  /\ audited \in [Users -> Event]
  /\ tokens \subseteq Token
  /\ adminLock \in Requests \cup {NoOne}
  /\ request \in [Requests -> RequestState]

(* One owner per name and one account per subject; a suffixed name belongs *)
(* to the subject it was made from.                                        *)
Distinct ==
  /\ \A u, v \in Existing : u # v =>
       /\ Claims(u) \cap Claims(v) = {}
       /\ users[u].subject = NoOne \/ users[u].subject # users[v].subject
  /\ \A u \in Existing : users[u].username \in External => users[u].username = users[u].subject

LockedOut == \A u \in Users : users[u].locked => users[u].fails = MaxFails

(* What a request under the lock has read is so until it commits. *)
Reading(r) ==
  LET q == request[r] IN
  /\ q.pc = "enable" /\ ~q.refused => q.enabled \/ ~users[q.user].enabled \/ ~LastAdmin(q.user)
  /\ q.pc = "roles" /\ ~q.refused => "admin" \in q.roles \/ ~LastAdmin(q.user)
  /\ q.pc = "oidc" =>
       /\ q.subject \in Subjects /\ q.name \in Names \cup Mails \cup {q.subject}
       /\ q.user = NoOne => HeldBy(q.subject) = {}
       /\ q.user # NoOne =>
            /\ q.user \in Existing /\ HeldBy(q.subject) \subseteq {q.user}
            /\ users[q.user].subject \in {NoOne, q.subject}
            /\ LastAdmin(q.user) => "admin" \in q.roles

Placed(r) ==
  LET q == request[r] IN
  /\ q.pc \in UserPlaces => q.user \in Existing
  /\ q.pc = "bridge" => q.subject \in Principals /\ q.name \in Names
  /\ q.pc = "rotate" => q.token \in Token
  /\ q.pc \in LockedPlaces => adminLock = r

IInv ==
  /\ Typed /\ Distinct /\ LockedOut /\ AuditedAccounts
  /\ \A r \in Requests : Placed(r) /\ Reading(r)

USE DEF LockedPlaces, UserPlaces, Places

-----------------------------------------------------------------------------
(* Rows and roles.                                                         *)

LEMMA RowTyped ==
  ASSUME NEW n \in Identities \cup {NoOne}, NEW m \in Mails \cup {NoOne},
         NEW s \in External \cup {NoOne}, NEW roles \in SUBSET Roles
  PROVE  Row(n, m, s, roles) \in Account
  BY AccountsAssumption DEF Account, Row

LEMMA OidcRolesTyped ==
  ASSUME NEW c \in OidcClaims
  PROVE  OidcRoles(c) \in SUBSET Roles
  <1>1. MappedRoles(c) \subseteq Roles
    BY AccountsAssumption DEF MappedRoles
  <1>2. BootstrapRoles \subseteq Roles
    BY DEF BootstrapRoles, Roles
  <1> QED BY <1>1, <1>2, AccountsAssumption DEF OidcRoles

LEMMA ResolvedRolesTyped ==
  ASSUME Typed, NEW c \in OidcClaims, NEW u \in Users
  PROVE  ResolvedRoles(c, u) \in SUBSET Roles
  <1>1. users[u].roles \in SUBSET Roles
    BY DEF Typed, Account
  <1> QED BY <1>1, OidcRolesTyped DEF ResolvedRoles, Roles

LEMMA ResolvedKeepsAdmin ==
  ASSUME NEW c, NEW u, LastAdmin(u)
  PROVE  "admin" \in ResolvedRoles(c, u)
  BY DEF ResolvedRoles

LEMMA InitIInv == AccountsInit => IInv
  <1> SUFFICES ASSUME AccountsInit PROVE IInv
    OBVIOUS
  <1>0. NoUser \in Account
    BY AccountsAssumption DEF NoUser, Account
  <1>1. users \in [Users -> Account]
    <2>1. CASE users = [u \in Users |-> NoUser]
      BY <2>1, <1>0
    <2>2. CASE \E u \in Users, n \in Names :
                 users = [v \in Users |-> IF v = u THEN Row(n, NoOne, NoOne, BootstrapRoles) ELSE NoUser]
      <3>1. \A n \in Names : Row(n, NoOne, NoOne, BootstrapRoles) \in Account
        BY RowTyped DEF Identities, BootstrapRoles, Roles
      <3> QED BY <2>2, <3>1, <1>0
    <2> QED BY <2>1, <2>2 DEF AccountsInit
  <1>2. Idle \in RequestState
    BY DEF Idle, RequestState
  <1>3. Typed
    BY <1>1, <1>2 DEF AccountsInit, Typed, Event, Account
  <1>4. \A r \in Requests : request[r].pc = "idle"
    BY DEF AccountsInit, Idle
  <1>5. LockedOut /\ Distinct
    <2>1. CASE users = [u \in Users |-> NoUser]
      BY <2>1 DEF LockedOut, Distinct, Existing, NoUser
    <2>2. CASE \E u \in Users, n \in Names :
                 users = [v \in Users |-> IF v = u THEN Row(n, NoOne, NoOne, BootstrapRoles) ELSE NoUser]
      BY <2>2, AccountsAssumption DEF Row, LockedOut, Distinct, Existing, NoUser, External
    <2> QED BY <2>1, <2>2 DEF AccountsInit
  <1> QED BY <1>3, <1>4, <1>5 DEF IInv, AccountsInit, AuditedAccounts, Placed, Reading

-----------------------------------------------------------------------------
(* What a step may do to the rows.  Grows: the accounts there are keep what *)
(* an administrator's request relies on.  Fresh: nobody links a subject.    *)

Grows ==
  \A u \in Existing :
    /\ u \in Existing'
    /\ users'[u].enabled = users[u].enabled /\ users'[u].roles = users[u].roles
    /\ users'[u].subject = users[u].subject
Fresh == \A u \in Existing' : users'[u].subject \in Subjects => u \in Existing

SameIdentity(u) ==
  /\ users'[u].exists = users[u].exists /\ users'[u].username = users[u].username
  /\ users'[u].email = users[u].email /\ users'[u].subject = users[u].subject

SameStanding(u) == users'[u].enabled = users[u].enabled /\ users'[u].roles = users[u].roles

LEMMA SameExisting ==
  ASSUME \A u \in Users : SameIdentity(u)
  PROVE  Existing' = Existing
  BY DEF SameIdentity, Existing

LEMMA SameDistinct ==
  ASSUME Distinct, \A u \in Users : SameIdentity(u)
  PROVE  Distinct'
  <1>1. Existing' = Existing
    BY SameExisting
  <1>2. \A u \in Existing : /\ Claims(u)' = Claims(u) /\ users'[u].subject = users[u].subject
                            /\ users'[u].username = users[u].username
    BY DEF SameIdentity, Existing, Claims
  <1> QED BY <1>1, <1>2 DEF Distinct

LEMMA SameGrows ==
  ASSUME \A u \in Users : SameIdentity(u) /\ SameStanding(u)
  PROVE  Grows /\ Fresh
  BY SameExisting DEF SameIdentity, SameStanding, Existing, Grows, Fresh

LEMMA SameAudited ==
  ASSUME AuditedAccounts, UNCHANGED audited, \A u \in Users : SameStanding(u)
  PROVE  AuditedAccounts'
  BY DEF AuditedAccounts, SameStanding

LEMMA UsersUnchanged ==
  ASSUME UNCHANGED users
  PROVE  \A u \in Users : SameIdentity(u) /\ SameStanding(u)
  BY DEF SameIdentity, SameStanding

(* The last administrator only becomes one by what needs the lock. *)
LEMMA GrowsAdmins ==
  ASSUME Grows
  PROVE  /\ EnabledAdmins \subseteq EnabledAdmins'
         /\ \A u \in Existing : LastAdmin(u)' => LastAdmin(u)
  <1>1. EnabledAdmins \subseteq EnabledAdmins'
    BY DEF Grows, EnabledAdmins, Existing
  <1>2. \A u \in Existing : u \in EnabledAdmins' => u \in EnabledAdmins
    BY DEF Grows, EnabledAdmins
  <1> QED BY <1>1, <1>2 DEF LastAdmin

LEMMA PlacedKept ==
  ASSUME NEW r \in Requests, Placed(r), request'[r] = request[r], Existing \subseteq Existing',
         adminLock = r => adminLock' = r
  PROVE  Placed(r)'
  BY DEF Placed

LEMMA ReadingOutside ==
  ASSUME NEW r \in Requests, Placed(r), request'[r] = request[r], adminLock # r
  PROVE  Reading(r)'
  BY DEF Reading, Placed

LEMMA ReadingKept ==
  ASSUME NEW r \in Requests, Placed(r), Reading(r), request'[r] = request[r], Grows, Fresh
  PROVE  Reading(r)'
  <1> DEFINE q == request[r]
  <1>1. \A u \in Existing : LastAdmin(u)' => LastAdmin(u)
    BY GrowsAdmins
  <1>2. q.pc = "enable" /\ ~q.refused => q.enabled \/ ~users'[q.user].enabled \/ ~LastAdmin(q.user)'
    BY <1>1 DEF Reading, Placed, Grows
  <1>3. q.pc = "roles" /\ ~q.refused => "admin" \in q.roles \/ ~LastAdmin(q.user)'
    BY <1>1 DEF Reading, Placed
  <1>4. ASSUME q.pc = "oidc"
        PROVE  /\ q.subject \in Subjects /\ q.name \in Names \cup Mails \cup {q.subject}
               /\ q.user = NoOne => HeldBy(q.subject)' = {}
               /\ q.user # NoOne =>
                    /\ q.user \in Existing' /\ HeldBy(q.subject)' \subseteq {q.user}
                    /\ users'[q.user].subject \in {NoOne, q.subject}
                    /\ LastAdmin(q.user)' => "admin" \in q.roles
    <2>1. q.subject \in Subjects /\ q.name \in Names \cup Mails \cup {q.subject}
      BY <1>4 DEF Reading
    <2>2. HeldBy(q.subject)' \subseteq HeldBy(q.subject)
      BY <2>1 DEF HeldBy, Grows, Fresh
    <2> QED BY <1>1, <1>4, <2>1, <2>2 DEF Reading, Grows
  <1> QED BY <1>2, <1>3, <1>4 DEF Reading

(* A request alone moves: what else a step leaves alone. *)
LEMMA OthersKept ==
  ASSUME IInv, NEW r \in Requests, NEW s \in Requests, s # r,
         NEW x, request' = [request EXCEPT ![r] = x], Existing \subseteq Existing',
         \/ Grows /\ Fresh
         \/ adminLock = r,
         adminLock' = adminLock \/ adminLock \in {r, NoOne}
  PROVE  Placed(s)' /\ Reading(s)'
  <1>1. request'[s] = request[s] /\ Placed(s) /\ Reading(s)
    BY DEF IInv, Typed
  <1>2. adminLock = s => adminLock' = s
    BY AccountsAssumption
  <1> QED BY <1>1, <1>2, PlacedKept, ReadingOutside, ReadingKept

LEMMA AllKept ==
  ASSUME IInv, UNCHANGED <<adminLock, request>>, Existing \subseteq Existing', Grows, Fresh
  PROVE  \A r \in Requests : Placed(r)' /\ Reading(r)'
  BY PlacedKept, ReadingKept DEF IInv

-----------------------------------------------------------------------------
(* A new row.                                                              *)

LEMMA InsertSound ==
  ASSUME IInv, NEW u \in Free, NEW n \in Identities, NEW m \in Mails \cup {NoOne},
         NEW s \in External \cup {NoOne}, NEW roles \in SUBSET Roles,
         users' = [users EXCEPT ![u] = Row(n, m, s, roles)], Told(u, roles, TRUE),
         Owners(n) = {}, m = NoOne \/ Owners(m) = {},
         s = NoOne \/ HeldBy(s) = {}, n \in External => n = s
  PROVE  /\ users' \in [Users -> Account] /\ audited' \in [Users -> Event]
         /\ Existing' = Existing \cup {u} /\ users'[u] = Row(n, m, s, roles)
         /\ Grows /\ Distinct' /\ LockedOut' /\ AuditedAccounts'
  <1>1. u \in Users /\ u \notin Existing
    BY DEF Free
  <1>2. users \in [Users -> Account] /\ audited \in [Users -> Event]
    BY DEF IInv, Typed
  <1>3. users' \in [Users -> Account] /\ users'[u] = Row(n, m, s, roles)
        /\ \A v \in Users \ {u} : users'[v] = users[v]
    BY <1>1, <1>2, RowTyped
  <1>4. audited' \in [Users -> Event] /\ audited'[u] = [roles |-> roles, enabled |-> TRUE]
        /\ \A v \in Users \ {u} : audited'[v] = audited[v]
    BY <1>1, <1>2 DEF Told, Event
  <1>5. Existing' = Existing \cup {u}
    BY <1>1, <1>3 DEF Existing, Row
  <1>6. Grows
    BY <1>1, <1>3, <1>5 DEF Grows, Existing
  <1>7. AuditedAccounts'
    BY <1>3, <1>4 DEF AuditedAccounts, IInv, Row
  <1>8. LockedOut'
    BY <1>3 DEF LockedOut, IInv, Row
  <1>9. Distinct'
    <2>1. \A v \in Existing : /\ Claims(v)' = Claims(v) /\ users'[v] = users[v]
      BY <1>1, <1>3 DEF Claims, Existing
    <2>2. Claims(u)' \subseteq {n, m} \ {NoOne} /\ users'[u].subject = s /\ users'[u].username = n
      BY <1>3 DEF Claims, Row
    <2>3. \A v \in Existing : Claims(v) \cap ({n, m} \ {NoOne}) = {}
      BY DEF Owners, Claims
    <2>4. \A v \in Existing : s = NoOne \/ users[v].subject # s
      BY DEF HeldBy
    <2>5. \A v, w \in Existing : v # w =>
            Claims(v) \cap Claims(w) = {} /\ (users[v].subject = NoOne \/ users[v].subject # users[w].subject)
      BY DEF IInv, Distinct
    <2>6. \A v \in Existing : users[v].username \in External => users[v].username = users[v].subject
      BY DEF IInv, Distinct
    <2>7. \A v, w \in Existing' : v # w =>
            /\ Claims(v)' \cap Claims(w)' = {}
            /\ users'[v].subject = NoOne \/ users'[v].subject # users'[w].subject
      <3> SUFFICES ASSUME NEW v \in Existing', NEW w \in Existing', v # w
                   PROVE  /\ Claims(v)' \cap Claims(w)' = {}
                          /\ users'[v].subject = NoOne \/ users'[v].subject # users'[w].subject
        OBVIOUS
      <3>1. CASE v \in Existing /\ w \in Existing
        BY <3>1, <2>1, <2>5
      <3>2. CASE v \in Existing /\ w = u
        BY <3>2, <2>1, <2>2, <2>3, <2>4
      <3>3. CASE v = u /\ w \in Existing
        BY <3>3, <2>1, <2>2, <2>3, <2>4
      <3> QED BY <1>5, <3>1, <3>2, <3>3
    <2>8. \A v \in Existing' : users'[v].username \in External => users'[v].username = users'[v].subject
      BY <1>5, <2>1, <2>2, <2>6
    <2> QED BY <2>7, <2>8 DEF Distinct
  <1> QED BY <1>3, <1>4, <1>5, <1>6, <1>7, <1>8, <1>9

(* The name a provisioning sign-in takes is free. *)
LEMMA FreeNameFree ==
  ASSUME IInv, NEW q \in RequestState, q.subject \in External, HeldBy(q.subject) = {},
         q.name \in Names \cup Mails \cup {q.subject}
  PROVE  /\ FreeName(q) \in Identities /\ Owners(FreeName(q)) = {}
         /\ FreeName(q) \in External => FreeName(q) = q.subject
  <1>1. \A u \in Existing : users[u] \in Account
    BY DEF IInv, Typed, Existing
  <1>2. q.subject # NoOne /\ q.subject \notin Mails /\ q.subject \notin Names
    BY AccountsAssumption DEF External
  <1>3. \A u \in Existing : users[u].subject # q.subject
    BY DEF HeldBy
  <1>4. \A u \in Existing : users[u].username # q.subject
    BY <1>2, <1>3 DEF IInv, Distinct
  <1>5. \A u \in Existing : users[u].email # q.subject
    BY <1>1, <1>2 DEF Account
  <1>6. Owners(q.subject) = {}
    BY <1>4, <1>5 DEF Owners, Claims
  <1>7. q.name \in External => q.name = q.subject
    BY AccountsAssumption DEF External
  <1> QED BY <1>6, <1>7 DEF FreeName, Identities

-----------------------------------------------------------------------------
(* The steps.  Kept is what the action properties ask of one.               *)

Kept ==
  /\ EnabledAdmins # {} => EnabledAdmins' # {}
  /\ \A u \in Existing : users[u].subject # NoOne => users'[u].subject = users[u].subject

LEMMA GrowsKept ==
  ASSUME Grows
  PROVE  Kept
  BY GrowsAdmins DEF Kept, Grows

LEMMA Frame ==
  ASSUME IInv, \A u \in Users : SameIdentity(u) /\ SameStanding(u), UNCHANGED audited
  PROVE  /\ Distinct' /\ AuditedAccounts' /\ Grows /\ Fresh /\ Existing' = Existing /\ Kept
  BY SameDistinct, SameExisting, SameGrows, SameAudited, GrowsKept DEF IInv

(* One request moves to x; its own reading is shown apart. *)
LEMMA RequestMoves ==
  ASSUME IInv, NEW r \in Requests, NEW x \in RequestState, request' = [request EXCEPT ![r] = x],
         adminLock' \in Requests \cup {NoOne},
         adminLock' = adminLock \/ adminLock \in {r, NoOne},
         users' \in [Users -> Account], audited' \in [Users -> Event],
         tokens' \subseteq Token,
         Distinct', LockedOut', AuditedAccounts', Existing \subseteq Existing',
         \/ Grows /\ Fresh
         \/ adminLock = r,
         x.pc \in UserPlaces => x.user \in Existing',
         x.pc = "bridge" => x.subject \in Principals /\ x.name \in Names,
         x.pc = "rotate" => x.token \in Token,
         x.pc \in LockedPlaces => adminLock' = r /\ Reading(r)'
  PROVE  IInv'
  <1>1. request' \in [Requests -> RequestState] /\ request'[r] = x
    BY DEF IInv, Typed
  <1>2. Placed(r)'
    BY <1>1 DEF Placed
  <1>3. Reading(r)'
    <2>1. CASE x.pc \in LockedPlaces
      BY <2>1
    <2>2. CASE x.pc \notin LockedPlaces
      BY <1>1, <2>2 DEF Reading
    <2> QED BY <2>1, <2>2
  <1>4. \A s \in Requests : s # r => Placed(s)' /\ Reading(s)'
    BY OthersKept
  <1>5. Typed'
    BY <1>1 DEF Typed
  <1> QED BY <1>2, <1>3, <1>4, <1>5 DEF IInv

(* ... and nothing but the request, and perhaps the lock. *)
LEMMA OnlyRequestMoves ==
  ASSUME IInv, NEW r \in Requests, NEW x \in RequestState, request' = [request EXCEPT ![r] = x],
         adminLock' \in Requests \cup {NoOne},
         adminLock' = adminLock \/ adminLock \in {r, NoOne},
         UNCHANGED <<users, audited, tokens>>,
         x.pc \in UserPlaces => x.user \in Existing,
         x.pc = "bridge" => x.subject \in Principals /\ x.name \in Names,
         x.pc = "rotate" => x.token \in Token,
         x.pc \in LockedPlaces => adminLock' = r /\ Reading(r)'
  PROVE  IInv' /\ Kept
  <1>1. Distinct' /\ AuditedAccounts' /\ Grows /\ Fresh /\ Existing' = Existing /\ Kept
    BY Frame, UsersUnchanged
  <1>2. LockedOut'
    BY DEF IInv, LockedOut
  <1>3. users' \in [Users -> Account] /\ audited' \in [Users -> Event]
        /\ tokens' \subseteq Token
    BY DEF IInv, Typed
  <1> QED BY <1>1, <1>2, <1>3, RequestMoves

LEMMA IdleTyped == Idle \in RequestState /\ Idle.pc = "idle" /\ Idle.user = NoOne
  BY DEF Idle, RequestState

LEMMA BeginEnableSound ==
  ASSUME IInv, NEW r \in Requests, NEW u \in Users, NEW e \in BOOLEAN, BeginEnable(r, u, e)
  PROVE  IInv' /\ Kept
  <1> DEFINE x == [Idle EXCEPT !.pc = "enable", !.user = u, !.enabled = e,
                               !.refused = users[u].enabled /\ ~e /\ LastAdmin(u)]
  <1>0. users[u].enabled \in BOOLEAN
    BY DEF IInv, Typed, Account
  <1>1. /\ x \in RequestState /\ x.pc = "enable" /\ x.user = u /\ x.enabled = e
        /\ x.refused = (users[u].enabled /\ ~e /\ LastAdmin(u))
    BY <1>0 DEF Idle, RequestState
  <1>2. request' = [request EXCEPT ![r] = x] /\ request'[r] = x
    BY DEF BeginEnable, IInv, Typed
  <1>3. Reading(r)'
    <2>1. LastAdmin(u)' <=> LastAdmin(u)
      BY DEF BeginEnable, LastAdmin, EnabledAdmins, Existing
    <2>2. ~x.refused => e \/ ~users[u].enabled \/ ~LastAdmin(u)
      BY <1>0, <1>1
    <2>3. users' = users
      BY DEF BeginEnable
    <2> HIDE DEF x
    <2> QED BY <1>1, <1>2, <2>1, <2>2, <2>3 DEF Reading
  <1> HIDE DEF x
  <1> QED BY <1>1, <1>2, <1>3, OnlyRequestMoves DEF BeginEnable, Locks

LEMMA BeginRolesSound ==
  ASSUME IInv, NEW r \in Requests, NEW u \in Users, NEW roles \in RoleChoices,
         BeginRoles(r, u, roles)
  PROVE  IInv' /\ Kept
  <1> DEFINE x == [Idle EXCEPT !.pc = "roles", !.user = u, !.roles = roles,
                               !.refused = "admin" \notin roles /\ LastAdmin(u)]
  <1>1. /\ x \in RequestState /\ x.pc = "roles" /\ x.user = u /\ x.roles = roles
        /\ x.refused = ("admin" \notin roles /\ LastAdmin(u))
    BY AccountsAssumption DEF Idle, RequestState
  <1>2. request' = [request EXCEPT ![r] = x] /\ request'[r] = x
    BY DEF BeginRoles, IInv, Typed
  <1>3. Reading(r)'
    <2>1. LastAdmin(u)' <=> LastAdmin(u)
      BY DEF BeginRoles, LastAdmin, EnabledAdmins, Existing
    <2>2. ~x.refused => "admin" \in roles \/ ~LastAdmin(u)
      BY <1>1
    <2> HIDE DEF x
    <2> QED BY <1>1, <1>2, <2>1, <2>2 DEF Reading
  <1> HIDE DEF x
  <1> QED BY <1>1, <1>2, <1>3, OnlyRequestMoves DEF BeginRoles, Locks

LEMMA BeginOidcSound ==
  ASSUME IInv, NEW r \in Requests, NEW c \in OidcClaims, BeginOidc(r, c)
  PROVE  IInv' /\ Kept
  <1>1. /\ c.subject \in Subjects /\ c.preferred \in Names \cup {NoOne}
        /\ c.email \in Mails \cup {NoOne}
    BY DEF OidcClaims
  <1>2. OidcName(c) \in Names \cup Mails \cup {c.subject} /\ OidcName(c) \in Identities
    BY <1>1 DEF OidcName, Identities, External
  <1>3. users' = users /\ UNCHANGED <<users, audited, tokens>> /\ adminLock = NoOne /\ adminLock' = r
    BY DEF BeginOidc, Locks
  <1>4. HeldBy(c.subject)' = HeldBy(c.subject) /\ Existing' = Existing
        /\ \A u \in Users : LastAdmin(u)' <=> LastAdmin(u)
    BY <1>3 DEF HeldBy, Existing, LastAdmin, EnabledAdmins
  <1>5. CASE OidcTarget(c) = {}
    <2> DEFINE x == [Idle EXCEPT !.pc = "oidc", !.subject = c.subject, !.name = OidcName(c),
                                 !.email = c.email, !.roles = OidcRoles(c)]
    <2>1. /\ x \in RequestState /\ x.pc = "oidc" /\ x.user = NoOne /\ x.subject = c.subject
          /\ x.name = OidcName(c)
      BY <1>1, <1>2, OidcRolesTyped DEF Idle, RequestState, External
    <2>2. request' = [request EXCEPT ![r] = x] /\ request'[r] = x
      BY <1>5 DEF BeginOidc, IInv, Typed
    <2>3. HeldBy(c.subject) = {}
      BY <1>5 DEF OidcTarget
    <2> HIDE DEF x
    <2>4. Reading(r)'
      BY <1>1, <1>2, <1>4, <2>1, <2>2, <2>3 DEF Reading
    <2> QED BY <1>3, <2>1, <2>2, <2>4, OnlyRequestMoves
  <1>6. ASSUME NEW u \in OidcTarget(c),
               request' = [request EXCEPT ![r] =
                 [Idle EXCEPT !.pc = "oidc", !.user = u, !.subject = c.subject,
                              !.name = OidcName(c), !.email = c.email,
                              !.roles = ResolvedRoles(c, u)]]
        PROVE  IInv' /\ Kept
    <2> DEFINE x == [Idle EXCEPT !.pc = "oidc", !.user = u, !.subject = c.subject,
                                 !.name = OidcName(c), !.email = c.email,
                                 !.roles = ResolvedRoles(c, u)]
    <2>0. u \in Existing /\ u \in Users
      BY DEF OidcTarget, HeldBy, LinkCandidates, Existing
    <2>1. /\ x \in RequestState /\ x.pc = "oidc" /\ x.user = u /\ x.subject = c.subject
          /\ x.name = OidcName(c) /\ x.roles = ResolvedRoles(c, u)
      <3>1. ResolvedRoles(c, u) \in SUBSET Roles
        BY <2>0, ResolvedRolesTyped DEF IInv
      <3> QED BY <1>1, <1>2, <2>0, <3>1 DEF Idle, RequestState, External
    <2>2. request' = [request EXCEPT ![r] = x] /\ request'[r] = x
      BY <1>6 DEF IInv, Typed
    <2>3. users[u].subject \in {NoOne, c.subject} /\ HeldBy(c.subject) \subseteq {u}
      <3>1. CASE HeldBy(c.subject) = {}
        BY <3>1 DEF OidcTarget, LinkCandidates
      <3>2. CASE HeldBy(c.subject) # {}
        <4>1. u \in HeldBy(c.subject)
          BY <3>2 DEF OidcTarget
        <4>2. c.subject # NoOne
          BY <1>1, AccountsAssumption
        <4> QED BY <4>1, <4>2 DEF HeldBy, IInv, Distinct
      <3> QED BY <3>1, <3>2
    <2>4. LastAdmin(u) => "admin" \in x.roles
      BY <2>1, ResolvedKeepsAdmin
    <2>5. u # NoOne
      BY <2>0, AccountsAssumption
    <2> HIDE DEF x
    <2>6. Reading(r)'
      BY <1>1, <1>2, <1>3, <1>4, <2>0, <2>1, <2>2, <2>3, <2>4, <2>5 DEF Reading
    <2> QED BY <1>3, <2>1, <2>2, <2>6, OnlyRequestMoves
  <1> QED BY <1>5, <1>6 DEF BeginOidc

(* Signing in up to the write. *)
LEMMA ArrivesSound ==
  ASSUME IInv, NEW r \in Requests, NEW u \in Existing, UNCHANGED <<users, audited, tokens, adminLock>>,
         \/ Resolve(r, u) \/ Welcome(r, u)
         \/ request' = [request EXCEPT ![r] = [Idle EXCEPT !.pc = "failing", !.user = u]]
  PROVE  IInv' /\ Kept
  <1>0. u \in Users /\ adminLock \in Requests \cup {NoOne}
    BY DEF Existing, IInv, Typed
  <1>1. \A pc \in {"resolved", "welcome", "failing"} :
          LET x == [Idle EXCEPT !.pc = pc, !.user = u] IN
          x \in RequestState /\ x.pc = pc /\ x.user = u
    BY <1>0 DEF Idle, RequestState
  <1>2. PICK pc \in {"resolved", "welcome", "failing"} :
          request' = [request EXCEPT ![r] = [Idle EXCEPT !.pc = pc, !.user = u]]
    BY DEF Resolve, Welcome
  <1> DEFINE x == [Idle EXCEPT !.pc = pc, !.user = u]
  <1>3. x \in RequestState /\ x.pc = pc /\ x.user = u /\ request' = [request EXCEPT ![r] = x]
    BY <1>1, <1>2
  <1> HIDE DEF x
  <1> QED BY <1>0, <1>3, OnlyRequestMoves

LEMMA GivesUpSound ==
  ASSUME IInv, NEW r \in Requests, request' = [request EXCEPT ![r] = Idle],
         adminLock' = adminLock \/ (adminLock = r /\ adminLock' = NoOne),
         UNCHANGED <<users, audited, tokens>>
  PROVE  IInv' /\ Kept
  <1>1. adminLock' \in Requests \cup {NoOne}
    BY DEF IInv, Typed
  <1> QED BY <1>1, IdleTyped, OnlyRequestMoves

LEMMA BridgeSignInSound ==
  ASSUME IInv, NEW r \in Requests, NEW p \in Principals, NEW n \in Names, BridgeSignIn(r, p, n)
  PROVE  IInv' /\ Kept
  <1>1. ASSUME NEW u \in HeldBy(p), Welcome(r, u)
        PROVE  IInv' /\ Kept
    BY <1>1, ArrivesSound DEF HeldBy, BridgeSignIn
  <1>2. ASSUME request' = [request EXCEPT ![r] =
                 [Idle EXCEPT !.pc = "bridge", !.subject = p, !.name = n]]
        PROVE  IInv' /\ Kept
    <2> DEFINE x == [Idle EXCEPT !.pc = "bridge", !.subject = p, !.name = n]
    <2>1. x \in RequestState /\ x.pc = "bridge" /\ x.subject = p /\ x.name = n
      BY DEF Idle, RequestState, External, Identities
    <2>2. request' = [request EXCEPT ![r] = x]
      BY <1>2
    <2>3. adminLock' = adminLock /\ adminLock \in Requests \cup {NoOne}
          /\ UNCHANGED <<users, audited, tokens>>
      BY DEF BridgeSignIn, IInv, Typed
    <2> HIDE DEF x
    <2> QED BY <2>1, <2>2, <2>3, OnlyRequestMoves
  <1> QED BY <1>1, <1>2 DEF BridgeSignIn

-----------------------------------------------------------------------------
(* Commits under the lock.                                                 *)

LEMMA CommitEnableSound ==
  ASSUME IInv, NEW r \in Requests, CommitEnable(r)
  PROVE  IInv' /\ Kept
  <1> DEFINE q == request[r]
  <1>1. q.user \in Existing /\ q.user \in Users /\ adminLock = r /\ q.enabled \in BOOLEAN
    BY DEF IInv, Placed, CommitEnable, Existing, Typed, RequestState
  <1>2. CASE q.refused
    BY <1>2, <1>1, GivesUpSound DEF CommitEnable
  <1>3. CASE ~q.refused
    <2> DEFINE u == q.user
    <2>1. users \in [Users -> Account] /\ audited \in [Users -> Event]
          /\ tokens \subseteq Token
      BY DEF IInv, Typed
    <2>2. users' = [users EXCEPT ![u].enabled = q.enabled, ![u].session = @ /\ q.enabled]
          /\ audited' = [audited EXCEPT ![u] = [roles |-> audited[u].roles, enabled |-> q.enabled]]
      BY <1>3 DEF CommitEnable, Told
    <2>3. users' \in [Users -> Account] /\ audited' \in [Users -> Event]
          /\ \A v \in Users : SameIdentity(v) /\ users'[v].roles = users[v].roles
                              /\ users'[v].fails = users[v].fails /\ users'[v].locked = users[v].locked
      <3> DEFINE on == users[u].session /\ q.enabled
                 row == [users[u] EXCEPT !.enabled = q.enabled, !.session = on]
                 told == [roles |-> audited[u].roles, enabled |-> q.enabled]
      <3>1. users' = [users EXCEPT ![u] = row] /\ audited' = [audited EXCEPT ![u] = told]
        <4>1. \A e \in BOOLEAN : [users EXCEPT ![u].enabled = e, ![u].session = @ /\ e] =
                 [users EXCEPT ![u] = [users[u] EXCEPT !.enabled = e, !.session = @ /\ e]]
          BY <1>1, <2>1 DEF Account
        <4> QED BY <1>1, <2>2, <4>1
      <3>2. /\ row \in Account /\ row.roles = users[u].roles /\ row.fails = users[u].fails
            /\ row.locked = users[u].locked /\ row.exists = users[u].exists
            /\ row.username = users[u].username /\ row.email = users[u].email
            /\ row.subject = users[u].subject
        <4>1. on \in BOOLEAN /\ users[u] \in Account
          BY <1>1, <2>1
        <4> HIDE DEF on
        <4> QED BY <1>1, <4>1 DEF Account
      <3>3. told \in Event
        BY <1>1, <2>1 DEF Event
      <3> HIDE DEF row, told
      <3> QED BY <1>1, <2>1, <3>1, <3>2, <3>3 DEF SameIdentity
    <2>4. /\ users'[u].enabled = q.enabled
          /\ \A v \in Users \ {u} : users'[v].enabled = users[v].enabled
      BY <1>1, <2>1, <2>2 DEF Account
    <2>5. Distinct' /\ Existing' = Existing
      BY <2>3, SameDistinct, SameExisting DEF IInv
    <2>6. LockedOut'
      BY <2>3 DEF LockedOut, IInv
    <2>7. AuditedAccounts'
      <3>1. audited'[u] = [roles |-> audited[u].roles, enabled |-> q.enabled]
        BY <1>1, <2>1, <2>2
      <3>2. \A v \in Users \ {u} : audited'[v] = audited[v]
        BY <2>1, <2>2
      <3>3. \A v \in Users : audited[v] = [roles |-> users[v].roles, enabled |-> users[v].enabled]
        BY DEF AuditedAccounts, IInv
      <3>4. audited[u].roles = users'[u].roles
        <4>1. users'[u].roles = users[u].roles
          BY <1>1, <2>3
        <4>2. audited[u].roles = users[u].roles
          <5>1. audited[u] = [roles |-> users[u].roles, enabled |-> users[u].enabled]
            BY <1>1, <3>3
          <5> HIDE DEF q, u
          <5> QED BY <5>1
        <4> QED BY <4>1, <4>2
      <3>5. audited'[u] = [roles |-> users'[u].roles, enabled |-> users'[u].enabled]
        <4>1. users'[u].enabled = q.enabled
          BY <2>4
        <4> HIDE DEF q, u
        <4> QED BY <3>1, <3>4, <4>1
      <3>6. ASSUME NEW v \in Users \ {u}
            PROVE  audited'[v] = [roles |-> users'[v].roles, enabled |-> users'[v].enabled]
        <4>1. v \in Users /\ users'[v].roles = users[v].roles
          BY <2>3
        <4>2. users'[v].enabled = users[v].enabled
          BY <2>4
        <4>3. audited'[v] = audited[v]
          BY <3>2
        <4> QED BY <3>3, <4>1, <4>2, <4>3
      <3> QED BY <3>5, <3>6 DEF AuditedAccounts
    <2>8. Kept
      <3>1. ASSUME EnabledAdmins # {}
            PROVE  EnabledAdmins' # {}
        <4>1. q.enabled \/ ~users[u].enabled \/ ~LastAdmin(u)
          BY <1>3 DEF IInv, Reading, CommitEnable
        <4>2. \A v \in EnabledAdmins \ {u} : v \in EnabledAdmins'
          BY <2>3, <2>4, <2>5 DEF EnabledAdmins, Existing
        <4>3. q.enabled => \A v \in EnabledAdmins : v \in EnabledAdmins'
          BY <2>3, <2>4, <2>5 DEF EnabledAdmins, Existing
        <4>4. ~users[u].enabled => u \notin EnabledAdmins
          BY DEF EnabledAdmins
        <4> QED BY <3>1, <4>1, <4>2, <4>3, <4>4 DEF LastAdmin
      <3>2. \A v \in Existing : users'[v].subject = users[v].subject
        BY <2>3 DEF SameIdentity, Existing
      <3> QED BY <3>1, <3>2 DEF Kept
    <2>9. request' = [request EXCEPT ![r] = Idle] /\ adminLock' = NoOne /\ tokens' = tokens
      BY DEF CommitEnable
    <2> QED BY <1>1, <2>1, <2>3, <2>5, <2>6, <2>7, <2>8, <2>9, IdleTyped, RequestMoves
  <1> QED BY <1>2, <1>3

LEMMA CommitRolesSound ==
  ASSUME IInv, NEW r \in Requests, CommitRoles(r)
  PROVE  IInv' /\ Kept
  <1> DEFINE q == request[r]
  <1>1. q.user \in Existing /\ q.user \in Users /\ adminLock = r /\ q.roles \in SUBSET Roles
    BY DEF IInv, Placed, CommitRoles, Existing, Typed, RequestState
  <1>2. CASE q.refused
    BY <1>2, <1>1, GivesUpSound DEF CommitRoles
  <1>3. CASE ~q.refused
    <2> DEFINE u == q.user
    <2>1. users \in [Users -> Account] /\ audited \in [Users -> Event]
          /\ tokens \subseteq Token
      BY DEF IInv, Typed
    <2>2. users' = [users EXCEPT ![u].roles = q.roles]
          /\ audited' = [audited EXCEPT ![u] = [roles |-> q.roles, enabled |-> audited[u].enabled]]
      BY <1>3 DEF CommitRoles, Told
    <2>3. users' \in [Users -> Account] /\ audited' \in [Users -> Event]
          /\ \A v \in Users : SameIdentity(v) /\ users'[v].enabled = users[v].enabled
                              /\ users'[v].fails = users[v].fails /\ users'[v].locked = users[v].locked
      BY <1>1, <2>1, <2>2, SMTT(30) DEF Account, Event, SameIdentity
    <2>4. /\ users'[u].roles = q.roles
          /\ \A v \in Users \ {u} : users'[v].roles = users[v].roles
      BY <1>1, <2>1, <2>2 DEF Account
    <2>5. Distinct' /\ Existing' = Existing
      BY <2>3, SameDistinct, SameExisting DEF IInv
    <2>6. LockedOut'
      BY <2>3 DEF LockedOut, IInv
    <2>7. AuditedAccounts'
      BY <1>1, <2>1, <2>2, <2>3, <2>4 DEF AuditedAccounts, IInv, Event
    <2>8. Kept
      <3>1. ASSUME EnabledAdmins # {}
            PROVE  EnabledAdmins' # {}
        <4>1. "admin" \in q.roles \/ ~LastAdmin(u)
          BY <1>3 DEF IInv, Reading, CommitRoles
        <4>2. \A v \in EnabledAdmins \ {u} : v \in EnabledAdmins'
          BY <2>3, <2>4, <2>5 DEF EnabledAdmins, Existing
        <4>3. "admin" \in q.roles => \A v \in EnabledAdmins : v \in EnabledAdmins'
          BY <2>3, <2>4, <2>5 DEF EnabledAdmins, Existing
        <4> QED BY <3>1, <4>1, <4>2, <4>3 DEF LastAdmin
      <3>2. \A v \in Existing : users'[v].subject = users[v].subject
        BY <2>3 DEF SameIdentity, Existing
      <3> QED BY <3>1, <3>2 DEF Kept
    <2>9. request' = [request EXCEPT ![r] = Idle] /\ adminLock' = NoOne /\ tokens' = tokens
      BY DEF CommitRoles
    <2> QED BY <1>1, <2>1, <2>3, <2>5, <2>6, <2>7, <2>8, <2>9, IdleTyped, RequestMoves
  <1> QED BY <1>2, <1>3

LEMMA RefreshOidcSound ==
  ASSUME IInv, NEW r \in Requests, RefreshOidc(r)
  PROVE  IInv' /\ Kept
  <1>0. PICK u : u = request[r].user
    OBVIOUS
  <1> DEFINE q == request[r]
             mail == IF q.email # NoOne /\ Owners(q.email) \subseteq {u} THEN q.email ELSE users[u].email
  <1>1. /\ u \in Existing /\ u \in Users /\ u # NoOne /\ adminLock = r /\ r \in Requests
        /\ q.subject \in Subjects /\ HeldBy(q.subject) \subseteq {u}
        /\ users[u].subject \in {NoOne, q.subject}
        /\ LastAdmin(u) => "admin" \in q.roles
    BY <1>0 DEF IInv, Placed, Reading, RefreshOidc, Existing
  <1>2. q.roles \in SUBSET Roles /\ q.email \in Mails \cup {NoOne}
    BY DEF IInv, Typed, RequestState
  <1>3. users \in [Users -> Account] /\ audited \in [Users -> Event]
        /\ tokens \subseteq Token
    BY DEF IInv, Typed
  <1>4. mail \in Mails \cup {NoOne}
    BY <1>1, <1>2, <1>3 DEF Account
  <1>5. users' = [users EXCEPT ![u].subject = q.subject, ![u].roles = q.roles, ![u].email = mail]
    BY <1>0 DEF RefreshOidc
  <1> HIDE DEF mail
  <1>6. /\ users' \in [Users -> Account]
        /\ \A v \in Users \ {u} : users'[v] = users[v]
        /\ users'[u].exists = users[u].exists /\ users'[u].enabled = users[u].enabled
        /\ users'[u].username = users[u].username /\ users'[u].locked = users[u].locked
        /\ users'[u].fails = users[u].fails /\ users'[u].subject = q.subject
        /\ users'[u].roles = q.roles /\ users'[u].email = mail
    <2>1. PICK s \in External, roles \in SUBSET Roles, m \in Mails \cup {NoOne} :
            s = q.subject /\ roles = q.roles /\ m = mail
      BY <1>1, <1>2, <1>4 DEF External
    <2>2. users' = [users EXCEPT ![u].subject = s, ![u].roles = roles, ![u].email = m]
      BY <1>5, <2>1
    <2> DEFINE f == [users EXCEPT ![u].subject = s]
               g == [f EXCEPT ![u].roles = roles]
    <2>3. /\ f \in [Users -> Account] /\ f[u].subject = s
          /\ f[u].exists = users[u].exists /\ f[u].enabled = users[u].enabled
          /\ f[u].username = users[u].username /\ f[u].locked = users[u].locked
          /\ f[u].fails = users[u].fails
          /\ \A v \in Users \ {u} : f[v] = users[v]
      BY <1>1, <1>3 DEF Account
    <2>4. users' = [g EXCEPT ![u].email = m]
      BY <2>2
    <2> HIDE DEF f
    <2>5. /\ g \in [Users -> Account] /\ g[u].subject = s /\ g[u].roles = roles
          /\ g[u].exists = f[u].exists /\ g[u].enabled = f[u].enabled
          /\ g[u].username = f[u].username /\ g[u].locked = f[u].locked
          /\ g[u].fails = f[u].fails
          /\ \A v \in Users \ {u} : g[v] = f[v]
      BY <1>1, <2>3 DEF Account
    <2> HIDE DEF g
    <2>6. /\ users' \in [Users -> Account] /\ users'[u].email = m
          /\ users'[u].subject = g[u].subject /\ users'[u].roles = g[u].roles
          /\ users'[u].exists = g[u].exists /\ users'[u].enabled = g[u].enabled
          /\ users'[u].username = g[u].username /\ users'[u].locked = g[u].locked
          /\ users'[u].fails = g[u].fails
          /\ \A v \in Users \ {u} : users'[v] = g[v]
      BY <1>1, <2>4, <2>5 DEF Account
    <2> QED BY <2>1, <2>3, <2>5, <2>6
  <1>7. Existing' = Existing
    BY <1>6 DEF Existing
  <1>8. LockedOut'
    BY <1>6 DEF IInv, LockedOut
  <1>9. AuditedAccounts' /\ audited' \in [Users -> Event]
    <2>1. audited[u] = [roles |-> users[u].roles, enabled |-> users[u].enabled]
          /\ \A v \in Users : audited[v] = [roles |-> users[v].roles, enabled |-> users[v].enabled]
      BY <1>1 DEF IInv, AuditedAccounts
    <2>2. CASE Told(u, q.roles, audited[u].enabled)
      <3>1. audited' = [audited EXCEPT ![u] = [roles |-> q.roles, enabled |-> users[u].enabled]]
        BY <2>1, <2>2 DEF Told
      <3>2. users[u].enabled \in BOOLEAN
        BY <1>1, <1>3 DEF Account
      <3>3. audited' \in [Users -> Event]
        BY <1>1, <1>2, <1>3, <3>1, <3>2 DEF Event
      <3> QED BY <1>1, <1>3, <1>6, <2>1, <3>1, <3>3 DEF AuditedAccounts
    <2>3. CASE UNCHANGED audited /\ users[u].roles = q.roles
      BY <1>1, <1>3, <1>6, <2>1, <2>3 DEF AuditedAccounts
    <2> QED BY <1>0, <2>2, <2>3 DEF RefreshOidc, RolesEvent
  <1>10. Distinct'
    <2>1. \A v \in Existing \ {u} : Claims(v)' = Claims(v) /\ users'[v] = users[v]
      BY <1>6 DEF Existing, Claims
    <2>2. Claims(u)' \subseteq {users[u].username, mail} \ {NoOne}
      BY <1>6 DEF Claims
    <2>3. \A v \in Existing \ {u} : /\ users[u].username = NoOne \/ users[u].username \notin Claims(v)
                                    /\ mail = NoOne \/ mail \notin Claims(v)
      <3>1. \A v \in Existing \ {u} : Claims(v) \cap Claims(u) = {}
        BY <1>1 DEF IInv, Distinct
      <3>2. mail # users[u].email => Owners(mail) \subseteq {u}
        BY DEF mail
      <3> QED BY <3>1, <3>2 DEF Claims, Owners
    <2>4. \A v \in Existing \ {u} : users[v].subject # q.subject
      BY <1>1 DEF HeldBy
    <2>5. \A v, w \in Existing \ {u} : v # w =>
            Claims(v) \cap Claims(w) = {} /\ (users[v].subject = NoOne \/ users[v].subject # users[w].subject)
      BY DEF IInv, Distinct
    <2>6. \A v \in Existing : users[v].username \in External => users[v].username = users[v].subject
      BY DEF IInv, Distinct
    <2>7. NoOne \notin External
      BY AccountsAssumption DEF External
    <2>8. \A v, w \in Existing : v # w =>
            /\ Claims(v)' \cap Claims(w)' = {}
            /\ users'[v].subject = NoOne \/ users'[v].subject # users'[w].subject
      <3> SUFFICES ASSUME NEW v \in Existing, NEW w \in Existing, v # w
                   PROVE  /\ Claims(v)' \cap Claims(w)' = {}
                          /\ users'[v].subject = NoOne \/ users'[v].subject # users'[w].subject
        OBVIOUS
      <3>1. CASE v # u /\ w # u
        BY <3>1, <2>1, <2>5
      <3>2. CASE v = u
        BY <3>2, <1>6, <2>1, <2>2, <2>3, <2>4
      <3>3. CASE w = u
        BY <3>3, <1>6, <2>1, <2>2, <2>3, <2>4
      <3> QED BY <3>1, <3>2, <3>3
    <2>9. \A v \in Existing : users'[v].username \in External => users'[v].username = users'[v].subject
      BY <1>1, <1>6, <2>1, <2>6, <2>7
    <2> QED BY <1>7, <2>8, <2>9 DEF Distinct
  <1>11. Kept
    <2>1. ASSUME EnabledAdmins # {}
          PROVE  EnabledAdmins' # {}
      <3>1. \A v \in EnabledAdmins \ {u} : v \in EnabledAdmins'
        BY <1>6, <1>7 DEF EnabledAdmins, Existing
      <3>2. "admin" \in q.roles /\ u \in EnabledAdmins => u \in EnabledAdmins'
        BY <1>6, <1>7 DEF EnabledAdmins
      <3> QED BY <1>1, <2>1, <3>1, <3>2 DEF LastAdmin
    <2>2. \A v \in Existing : users[v].subject # NoOne => users'[v].subject = users[v].subject
      BY <1>1, <1>6 DEF Existing
    <2> QED BY <2>1, <2>2 DEF Kept
  <1>12. PICK x \in RequestState : /\ x.pc = "resolved" /\ x.user = u
                                   /\ request' = [request EXCEPT ![r] = x]
    <2>1. LET x == [Idle EXCEPT !.pc = "resolved", !.user = u] IN
            x \in RequestState /\ x.pc = "resolved" /\ x.user = u
      BY <1>1 DEF Idle, RequestState
    <2> QED BY <1>0, <2>1 DEF RefreshOidc, Resolve
  <1>13. adminLock' = NoOne /\ tokens' = tokens
    BY DEF RefreshOidc
  <1> QED BY <1>1, <1>3, <1>6, <1>7, <1>8, <1>9, <1>10, <1>11, <1>12, <1>13, RequestMoves

-----------------------------------------------------------------------------
(* New accounts.                                                           *)

LEMMA CreateUserSound ==
  ASSUME IInv, NEW u \in Users, NEW n \in Names, NEW m \in Mails \cup {NoOne},
         NEW roles \in RoleChoices, CreateUser(u, n, m, roles)
  PROVE  IInv' /\ Kept
  <1>1. n \in Identities /\ n \notin External /\ roles \in SUBSET Roles /\ u \in Free
    BY AccountsAssumption DEF Identities, External, CreateUser
  <1>2. /\ users' \in [Users -> Account] /\ audited' \in [Users -> Event]
        /\ Existing' = Existing \cup {u} /\ users'[u] = Row(n, m, NoOne, roles)
        /\ Grows /\ Distinct' /\ LockedOut' /\ AuditedAccounts'
    BY <1>1, InsertSound DEF CreateUser
  <1>3. Fresh
    BY <1>2, AccountsAssumption DEF Fresh, Row
  <1>4. \A r \in Requests : Placed(r)' /\ Reading(r)'
    BY <1>2, <1>3, AllKept DEF CreateUser
  <1>5. Typed'
    BY <1>2 DEF Typed, IInv, CreateUser
  <1> QED BY <1>2, <1>4, <1>5, GrowsKept DEF IInv

LEMMA ResolvedTyped ==
  ASSUME NEW u \in Users
  PROVE  \E x \in RequestState : /\ x.pc = "resolved" /\ x.user = u
                                 /\ x = [Idle EXCEPT !.pc = "resolved", !.user = u]
  BY DEF Idle, RequestState

LEMMA ProvisionOidcSound ==
  ASSUME IInv, NEW r \in Requests, NEW u \in Users, ProvisionOidc(r, u)
  PROVE  IInv' /\ Kept
  <1> DEFINE q == request[r]
             m == IF q.email # NoOne /\ Owners(q.email) = {} THEN q.email ELSE NoOne
  <1>1. /\ q.subject \in Subjects /\ q.name \in Names \cup Mails \cup {q.subject}
        /\ HeldBy(q.subject) = {} /\ adminLock = r /\ u \in Free
    BY DEF IInv, Placed, Reading, ProvisionOidc
  <1>2. q \in RequestState /\ q.roles \in SUBSET Roles /\ m \in Mails \cup {NoOne}
        /\ q.subject \in External
    BY <1>1 DEF IInv, Typed, RequestState, External
  <1>3. /\ FreeName(q) \in Identities /\ Owners(FreeName(q)) = {}
        /\ FreeName(q) \in External => FreeName(q) = q.subject
    BY <1>1, <1>2, FreeNameFree
  <1>4. /\ users' = [users EXCEPT ![u] = Row(FreeName(q), m, q.subject, q.roles)]
        /\ Told(u, q.roles, TRUE)
        /\ m = NoOne \/ Owners(m) = {}
    BY DEF ProvisionOidc
  <1>5. /\ users' \in [Users -> Account] /\ audited' \in [Users -> Event]
        /\ Existing' = Existing \cup {u} /\ Grows /\ Distinct' /\ LockedOut' /\ AuditedAccounts'
    <2> HIDE DEF m, q
    <2> QED BY <1>1, <1>2, <1>3, <1>4, InsertSound
  <1>6. PICK x \in RequestState : /\ x.pc = "resolved" /\ x.user = u
                                  /\ request' = [request EXCEPT ![r] = x]
    BY ResolvedTyped DEF ProvisionOidc, Resolve
  <1>7. /\ adminLock' = NoOne /\ tokens' = tokens
        /\ tokens \subseteq Token
    BY DEF ProvisionOidc, IInv, Typed
  <1> QED BY <1>1, <1>5, <1>6, <1>7, RequestMoves, GrowsKept

LEMMA BridgeCreatesSound ==
  ASSUME IInv, NEW r \in Requests, NEW u \in Users, BridgeCreates(r, u)
  PROVE  IInv' /\ Kept
  <1> DEFINE q == request[r]
  <1>1. /\ q.subject \in Principals /\ q.name \in Names
        /\ HeldBy(q.subject) = {} /\ u \in Free
    BY DEF IInv, Placed, BridgeCreates
  <1>2. q \in RequestState /\ q.subject \in External /\ {"viewer"} \in SUBSET Roles
    BY <1>1 DEF IInv, Typed, External, Roles
  <1>3. /\ FreeName(q) \in Identities /\ Owners(FreeName(q)) = {}
        /\ FreeName(q) \in External => FreeName(q) = q.subject
    BY <1>1, <1>2, FreeNameFree
  <1>4. /\ users' = [users EXCEPT ![u] = Row(FreeName(q), NoOne, q.subject, {"viewer"})]
        /\ Told(u, {"viewer"}, TRUE)
    BY DEF BridgeCreates
  <1>5. /\ users' \in [Users -> Account] /\ audited' \in [Users -> Event]
        /\ Existing' = Existing \cup {u} /\ Grows /\ Distinct' /\ LockedOut' /\ AuditedAccounts'
        /\ users'[u] = Row(FreeName(q), NoOne, q.subject, {"viewer"})
    <2> HIDE DEF q
    <2> QED BY <1>1, <1>2, <1>3, <1>4, InsertSound
  <1>6. Fresh
    BY <1>1, <1>5, AccountsAssumption DEF Fresh, Row
  <1>7. PICK x \in RequestState : /\ x.pc = "resolved" /\ x.user = u
                                  /\ request' = [request EXCEPT ![r] = x]
    BY ResolvedTyped DEF BridgeCreates, Resolve
  <1>8. /\ adminLock' = adminLock /\ adminLock \in Requests \cup {NoOne} /\ tokens' = tokens
        /\ tokens \subseteq Token
    BY DEF BridgeCreates, IInv, Typed
  <1> QED BY <1>5, <1>6, <1>7, <1>8, RequestMoves, GrowsKept

-----------------------------------------------------------------------------
(* What touches neither identity nor roles.                                 *)

LEMMA BridgeExistsSound ==
  ASSUME IInv, NEW r \in Requests, BridgeExists(r)
  PROVE  IInv' /\ Kept
  <1>1. PICK u \in HeldBy(request[r].subject) : Resolve(r, u)
    BY DEF BridgeExists
  <1> QED BY <1>1, ArrivesSound DEF BridgeExists, HeldBy

LEMMA LoginReadsSound ==
  ASSUME IInv, NEW r \in Requests, NEW u \in Users, NEW ok \in BOOLEAN, LoginReads(r, u, ok)
  PROVE  IInv' /\ Kept
  BY ArrivesSound DEF LoginReads

LEMMA AdmitSound ==
  ASSUME IInv, NEW r \in Requests, Admit(r)
  PROVE  IInv' /\ Kept
  <1>1. request[r].user \in Existing
    BY DEF Admit, IInv, Placed
  <1>2. CASE Welcome(r, request[r].user)
    BY <1>1, <1>2, ArrivesSound DEF Admit
  <1>3. CASE request' = [request EXCEPT ![r] = Idle]
    BY <1>3, GivesUpSound DEF Admit
  <1> QED BY <1>2, <1>3 DEF Admit

LEMMA DisconnectSound ==
  ASSUME IInv, NEW r \in Requests, Disconnect(r)
  PROVE  IInv' /\ Kept
  BY GivesUpSound DEF Disconnect

(* Counters, the lockout and sessions. *)
LEMMA TouchSound ==
  ASSUME IInv, users' \in [Users -> Account], UNCHANGED audited, LockedOut',
         \A u \in Users : SameIdentity(u) /\ SameStanding(u)
  PROVE  /\ (tokens' \subseteq Token
              /\ UNCHANGED <<adminLock, request>>) => IInv' /\ Kept
         /\ \A r \in Requests, x \in RequestState :
              (/\ request' = [request EXCEPT ![r] = x] /\ UNCHANGED <<tokens, adminLock>>
               /\ x.pc \notin LockedPlaces \cup {"bridge", "rotate"}
               /\ (x.pc \in UserPlaces => x.user \in Existing)) => IInv' /\ Kept
  <1>1. /\ Distinct' /\ AuditedAccounts' /\ Grows /\ Fresh /\ Existing' = Existing /\ Kept
    BY Frame
  <1>2. /\ audited' \in [Users -> Event] /\ adminLock \in Requests \cup {NoOne}
        /\ tokens \subseteq Token
    BY DEF IInv, Typed
  <1>3. ASSUME tokens' \subseteq Token, UNCHANGED <<adminLock, request>>
        PROVE  IInv' /\ Kept
    <2>1. \A r \in Requests : Placed(r)' /\ Reading(r)'
      BY <1>1, <1>3, AllKept
    <2>2. Typed'
      BY <1>2, <1>3 DEF Typed, IInv
    <2> QED BY <1>1, <2>1, <2>2 DEF IInv
  <1>4. ASSUME NEW r \in Requests, NEW x \in RequestState,
               request' = [request EXCEPT ![r] = x], UNCHANGED <<tokens, adminLock>>,
               x.pc \notin LockedPlaces \cup {"bridge", "rotate"}, x.pc \in UserPlaces => x.user \in Existing
        PROVE  IInv' /\ Kept
    BY <1>1, <1>2, <1>4, RequestMoves
  <1> QED BY <1>3, <1>4

LEMMA SessionSet ==
  ASSUME IInv, NEW u \in Users, NEW b \in BOOLEAN, users' = [users EXCEPT ![u].session = b]
  PROVE  /\ users' \in [Users -> Account] /\ LockedOut'
         /\ \A v \in Users : SameIdentity(v) /\ SameStanding(v)
  <1>1. users \in [Users -> Account]
    BY DEF IInv, Typed
  <1>2. /\ users' \in [Users -> Account]
        /\ \A v \in Users : /\ SameIdentity(v) /\ SameStanding(v)
                            /\ users'[v].locked = users[v].locked /\ users'[v].fails = users[v].fails
    BY <1>1 DEF Account, SameIdentity, SameStanding
  <1> QED BY <1>2 DEF LockedOut, IInv

(* The failure count and the lock. *)
LEMMA RecordFailureSound ==
  ASSUME IInv, NEW r \in Requests, RecordFailure(r)
  PROVE  IInv' /\ Kept
  <1>1. PICK u \in Users : u = request[r].user
    BY DEF IInv, Placed, RecordFailure, Existing
  <1>2. /\ users \in [Users -> Account] /\ users[u].fails \in 0..MaxFails
        /\ users[u].locked => users[u].fails = MaxFails
    BY DEF IInv, Typed, LockedOut, Account
  <1>3. PICK n \in 0..MaxFails :
          /\ n = IF users[u].fails < MaxFails THEN users[u].fails + 1 ELSE MaxFails
          /\ users[u].locked => n = MaxFails
    BY <1>2, AccountsAssumption
  <1> DEFINE f == [users EXCEPT ![u].fails = n]
             g == [f EXCEPT ![u].locked = TRUE]
  <1>4. users' = IF n = MaxFails THEN g ELSE f
    BY <1>1, <1>3 DEF RecordFailure
  <1>5. /\ f \in [Users -> Account] /\ f[u].fails = n /\ f[u].enabled = users[u].enabled
        /\ f[u].roles = users[u].roles /\ f[u].exists = users[u].exists
        /\ f[u].username = users[u].username /\ f[u].email = users[u].email
        /\ f[u].subject = users[u].subject /\ f[u].locked = users[u].locked
        /\ \A v \in Users \ {u} : f[v] = users[v]
    BY <1>2 DEF Account
  <1> HIDE DEF f
  <1>6. /\ g \in [Users -> Account] /\ g[u].fails = f[u].fails /\ g[u].enabled = f[u].enabled
        /\ g[u].roles = f[u].roles /\ g[u].exists = f[u].exists
        /\ g[u].username = f[u].username /\ g[u].email = f[u].email
        /\ g[u].subject = f[u].subject
        /\ \A v \in Users \ {u} : g[v] = f[v]
    BY <1>5, ZenonT(40) DEF Account
  <1> HIDE DEF g
  <1>7. users' \in [Users -> Account] /\ \A v \in Users : SameIdentity(v) /\ SameStanding(v)
    BY <1>4, <1>5, <1>6 DEF SameIdentity, SameStanding
  <1>8. LockedOut'
    <2>1. users'[u].fails = n /\ \A v \in Users \ {u} : users'[v] = users[v]
      BY <1>4, <1>5, <1>6
    <2>2. n # MaxFails => users' = f
      BY <1>4
    <2>3. n # MaxFails => ~users'[u].locked
      BY <1>3, <1>5, <2>2
    <2> QED BY <2>1, <2>3 DEF LockedOut, IInv
  <1>9. request' = [request EXCEPT ![r] = Idle] /\ UNCHANGED <<audited, tokens, adminLock>>
    BY DEF RecordFailure
  <1> QED BY <1>7, <1>8, <1>9, IdleTyped, TouchSound

LEMMA RecordSuccessSound ==
  ASSUME IInv, NEW r \in Requests, RecordSuccess(r)
  PROVE  IInv' /\ Kept
  <1>1. PICK u \in Users : u = request[r].user /\ u \in Existing
    BY DEF IInv, Placed, RecordSuccess, Existing
  <1>2. users \in [Users -> Account]
    BY DEF IInv, Typed
  <1>3. PICK x \in RequestState : /\ x.pc = "issue" /\ x.user = u
                                  /\ request' = [request EXCEPT ![r] = x]
    <2>1. request[r] \in RequestState
      BY DEF IInv, Typed
    <2>2. LET x == [request[r] EXCEPT !.pc = "issue"] IN
            x \in RequestState /\ x.pc = "issue" /\ x.user = u
      BY <1>1, <2>1 DEF RequestState
    <2>3. request' = [request EXCEPT ![r] = [request[r] EXCEPT !.pc = "issue"]]
      BY DEF RecordSuccess, IInv, Typed
    <2> QED BY <2>2, <2>3
  <1> DEFINE f == [users EXCEPT ![u].fails = 0]
             g == [f EXCEPT ![u].locked = FALSE]
  <1>4. users' = g /\ UNCHANGED <<audited, tokens, adminLock>>
    BY <1>1 DEF RecordSuccess
  <1>5. /\ f \in [Users -> Account] /\ f[u].enabled = users[u].enabled
        /\ f[u].roles = users[u].roles /\ f[u].exists = users[u].exists
        /\ f[u].username = users[u].username /\ f[u].email = users[u].email
        /\ f[u].subject = users[u].subject
        /\ \A v \in Users \ {u} : f[v] = users[v]
    BY <1>2, AccountsAssumption DEF Account
  <1> HIDE DEF f
  <1>6. /\ g \in [Users -> Account] /\ g[u].locked = FALSE /\ g[u].enabled = f[u].enabled
        /\ g[u].roles = f[u].roles /\ g[u].exists = f[u].exists
        /\ g[u].username = f[u].username /\ g[u].email = f[u].email
        /\ g[u].subject = f[u].subject
        /\ \A v \in Users \ {u} : g[v] = f[v]
    BY <1>5 DEF Account
  <1> HIDE DEF g
  <1>7. users' \in [Users -> Account] /\ LockedOut'
    BY <1>4, <1>5, <1>6 DEF LockedOut, IInv
  <1>8. \A v \in Users : SameIdentity(v) /\ SameStanding(v)
    BY <1>4, <1>5, <1>6 DEF SameIdentity, SameStanding
  <1> QED BY <1>1, <1>3, <1>4, <1>7, <1>8, TouchSound

LEMMA IssueSessionSound ==
  ASSUME IInv, NEW r \in Requests, IssueSession(r)
  PROVE  IInv' /\ Kept
  <1>1. request[r].user \in Users
    BY DEF IInv, Placed, IssueSession, Existing
  <1>2. /\ users' \in [Users -> Account] /\ LockedOut'
        /\ \A v \in Users : SameIdentity(v) /\ SameStanding(v)
    BY <1>1, SessionSet DEF IssueSession
  <1> QED BY <1>2, IdleTyped, TouchSound DEF IssueSession

LEMMA EndSessionSound ==
  ASSUME IInv, NEW u \in Users, EndSession(u)
  PROVE  IInv' /\ Kept
  <1>1. tokens \subseteq Token
    BY DEF IInv, Typed
  <1>2. /\ users' \in [Users -> Account] /\ LockedOut'
        /\ \A v \in Users : SameIdentity(v) /\ SameStanding(v)
    BY SessionSet DEF EndSession
  <1> QED BY <1>1, <1>2, TouchSound DEF EndSession

LEMMA LockExpiresSound ==
  ASSUME IInv, NEW u \in Users, LockExpires(u)
  PROVE  IInv' /\ Kept
  <1>1. users \in [Users -> Account] /\ tokens \subseteq Token
    BY DEF IInv, Typed
  <1>2. /\ users' \in [Users -> Account]
        /\ \A v \in Users : SameIdentity(v) /\ SameStanding(v)
        /\ users'[u].locked = FALSE /\ \A v \in Users \ {u} : users'[v] = users[v]
    BY <1>1, ZenonT(40) DEF LockExpires, Account, SameIdentity, SameStanding
  <1>3. LockedOut'
    BY <1>2 DEF LockedOut, IInv
  <1> QED BY <1>1, <1>2, <1>3, TouchSound DEF LockExpires

LEMMA ChangePasswordSound ==
  ASSUME IInv, NEW u \in Users, ChangePassword(u)
  PROVE  IInv' /\ Kept
  <1> DEFINE f == [users EXCEPT ![u].fails = 0]
             g == [f EXCEPT ![u].locked = FALSE]
  <1>1. users \in [Users -> Account] /\ tokens \subseteq Token
    BY DEF IInv, Typed
  <1>2. /\ f \in [Users -> Account] /\ f[u].enabled = users[u].enabled
        /\ f[u].roles = users[u].roles /\ f[u].exists = users[u].exists
        /\ f[u].username = users[u].username /\ f[u].email = users[u].email
        /\ f[u].subject = users[u].subject
        /\ \A v \in Users \ {u} : f[v] = users[v]
    BY <1>1, AccountsAssumption DEF Account
  <1>3. users' = [g EXCEPT ![u].session = FALSE]
    BY DEF ChangePassword
  <1> HIDE DEF f
  <1>4. /\ g \in [Users -> Account] /\ g[u].locked = FALSE /\ g[u].enabled = f[u].enabled
        /\ g[u].roles = f[u].roles /\ g[u].exists = f[u].exists
        /\ g[u].username = f[u].username /\ g[u].email = f[u].email
        /\ g[u].subject = f[u].subject
        /\ \A v \in Users \ {u} : g[v] = f[v]
    BY <1>2 DEF Account
  <1> HIDE DEF g
  <1>5. /\ users' \in [Users -> Account] /\ users'[u].locked = FALSE
        /\ users'[u].enabled = g[u].enabled
        /\ users'[u].roles = g[u].roles /\ users'[u].exists = g[u].exists
        /\ users'[u].username = g[u].username /\ users'[u].email = g[u].email
        /\ users'[u].subject = g[u].subject
        /\ \A v \in Users \ {u} : users'[v] = g[v]
    BY <1>3, <1>4, ZenonT(40) DEF Account
  <1>6. LockedOut'
    BY <1>2, <1>4, <1>5 DEF LockedOut, IInv
  <1>7. \A v \in Users : SameIdentity(v) /\ SameStanding(v)
    BY <1>2, <1>4, <1>5 DEF SameIdentity, SameStanding
  <1>8. tokens' \subseteq Token /\ UNCHANGED <<audited, adminLock, request>>
    BY <1>1 DEF ChangePassword
  <1> QED BY <1>5, <1>6, <1>7, <1>8, TouchSound

(* Tokens. *)
LEMMA ReadTokenSound ==
  ASSUME IInv, NEW r \in Requests, NEW u \in Users, NEW t \in tokens, ReadToken(r, u, t)
  PROVE  IInv' /\ Kept
  <1> DEFINE x == [Idle EXCEPT !.pc = "rotate", !.user = u, !.token = t]
  <1>1. t \in Token
    BY DEF IInv, Typed
  <1>2. x \in RequestState /\ x.pc = "rotate" /\ x.user = u /\ x.token = t
    BY <1>1 DEF Idle, RequestState
  <1>3. request' = [request EXCEPT ![r] = x] /\ UNCHANGED <<users, audited, tokens, adminLock>>
    BY DEF ReadToken
  <1>4. u \in Existing /\ adminLock \in Requests \cup {NoOne}
    BY DEF ReadToken, Acting, IInv, Typed
  <1> HIDE DEF x
  <1> QED BY <1>1, <1>2, <1>3, <1>4, OnlyRequestMoves

LEMMA RotateTokenSound ==
  ASSUME IInv, NEW r \in Requests, RotateToken(r)
  PROVE  IInv' /\ Kept
  <1> DEFINE q == request[r]
  <1>1. q.user \in Users /\ q.token \in Token
    BY DEF IInv, Typed, Placed, RotateToken, RequestState, Existing
  <1>2. tokens \subseteq Token /\ [by |-> q.user, scopes |-> q.token.scopes] \in Token
    BY <1>1 DEF IInv, Typed, Token
  <1>3. /\ tokens' \subseteq Token /\ request' = [request EXCEPT ![r] = Idle]
        /\ UNCHANGED <<users, audited, adminLock>>
    BY <1>2 DEF RotateToken
  <1>4. Distinct' /\ AuditedAccounts' /\ Grows /\ Fresh /\ Existing' = Existing /\ Kept
    BY <1>3, Frame, UsersUnchanged
  <1>5. LockedOut' /\ users' \in [Users -> Account] /\ audited' \in [Users -> Event]
        /\ adminLock' \in Requests \cup {NoOne}
    BY <1>3 DEF IInv, LockedOut, Typed
  <1> QED BY <1>3, <1>4, <1>5, IdleTyped, RequestMoves

LEMMA TokensSound ==
  ASSUME IInv, Tokens
  PROVE  IInv' /\ Kept
  <1>1. tokens \subseteq Token /\ users \in [Users -> Account]
    BY DEF IInv, Typed
  <1>2. ASSUME \/ \E t \in tokens : RevokeToken(t)
               \/ \E u \in Users, scopes \in ScopeChoices : CreateToken(u, scopes)
        PROVE  IInv' /\ Kept
    <2>1. UNCHANGED <<users, audited, adminLock, request>> /\ tokens' \subseteq Token
      BY <1>1, <1>2 DEF RevokeToken, CreateToken, Token
    <2>2. LockedOut'
      BY <2>1 DEF LockedOut, IInv
    <2> QED BY <1>1, <2>1, <2>2, UsersUnchanged, TouchSound
  <1> QED BY <1>2, ReadTokenSound, RotateTokenSound DEF Tokens

-----------------------------------------------------------------------------
(* Every step, and what follows for every behaviour.                       *)

LEMMA AdministrationSound ==
  ASSUME IInv, Administration
  PROVE  IInv' /\ Kept
  <1>1. ASSUME NEW u \in Users, NEW n \in Names, NEW mail \in Mails \cup {NoOne},
               NEW roles \in RoleChoices, CreateUser(u, n, mail, roles)
        PROVE  IInv' /\ Kept
    BY <1>1, CreateUserSound
  <1>2. ASSUME NEW r \in Requests, CommitEnable(r) PROVE IInv' /\ Kept
    BY <1>2, CommitEnableSound
  <1>3. ASSUME NEW r \in Requests, CommitRoles(r) PROVE IInv' /\ Kept
    BY <1>3, CommitRolesSound
  <1>4. ASSUME NEW r \in Requests, NEW u \in Users, NEW e \in BOOLEAN, BeginEnable(r, u, e)
        PROVE  IInv' /\ Kept
    BY <1>4, BeginEnableSound
  <1>5. ASSUME NEW r \in Requests, NEW u \in Users, NEW roles \in RoleChoices,
               BeginRoles(r, u, roles)
        PROVE  IInv' /\ Kept
    BY <1>5, BeginRolesSound
  <1>6. ASSUME NEW u \in Users, ChangePassword(u) PROVE IInv' /\ Kept
    BY <1>6, ChangePasswordSound
  <1> QED BY <1>1, <1>2, <1>3, <1>4, <1>5, <1>6 DEF Administration

LEMMA SignInSound ==
  ASSUME IInv, SignIn
  PROVE  IInv' /\ Kept
  <1>1. ASSUME NEW r \in Requests,
               RefreshOidc(r) \/ BridgeExists(r) \/ Admit(r) \/ RecordFailure(r)
                 \/ RecordSuccess(r) \/ IssueSession(r) \/ Disconnect(r)
        PROVE  IInv' /\ Kept
    BY <1>1, RefreshOidcSound, BridgeExistsSound, AdmitSound, RecordFailureSound,
       RecordSuccessSound, IssueSessionSound, DisconnectSound
  <1>2. ASSUME NEW r \in Requests, NEW u \in Users, ProvisionOidc(r, u) \/ BridgeCreates(r, u)
        PROVE  IInv' /\ Kept
    BY <1>2, ProvisionOidcSound, BridgeCreatesSound
  <1>3. ASSUME NEW r \in Requests, NEW u \in Users, NEW ok \in BOOLEAN, LoginReads(r, u, ok)
        PROVE  IInv' /\ Kept
    BY <1>3, LoginReadsSound
  <1>4. ASSUME NEW r \in Requests, NEW c \in OidcClaims, BeginOidc(r, c) PROVE IInv' /\ Kept
    BY <1>4, BeginOidcSound
  <1>5. ASSUME NEW r \in Requests, NEW p \in Principals, NEW n \in Names, BridgeSignIn(r, p, n)
        PROVE  IInv' /\ Kept
    BY <1>5, BridgeSignInSound
  <1>6. ASSUME NEW u \in Users, LockExpires(u) \/ Logout(u) \/ RevokeSession(u) \/ SessionExpires(u)
        PROVE  IInv' /\ Kept
    BY <1>6, LockExpiresSound, EndSessionSound DEF Logout, RevokeSession, SessionExpires
  <1> QED BY <1>1, <1>2, <1>3, <1>4, <1>5, <1>6 DEF SignIn

LEMMA StutterSound ==
  ASSUME IInv, UNCHANGED accountVars
  PROVE  IInv' /\ Kept
  <1>1. UNCHANGED <<users, audited, tokens, adminLock, request>>
    BY DEF accountVars
  <1>2. /\ tokens \subseteq Token /\ users \in [Users -> Account]
    BY DEF IInv, Typed
  <1>3. LockedOut'
    BY <1>1 DEF LockedOut, IInv
  <1> QED BY <1>1, <1>2, <1>3, UsersUnchanged, TouchSound

LEMMA NextIInv ==
  ASSUME IInv, [AccountsNext]_accountVars
  PROVE  IInv' /\ Kept
  BY AdministrationSound, SignInSound, TokensSound, StutterSound DEF AccountsNext

(* The inductive invariant: types, names and subjects, locks, audit events, *)
(* and what each request under the lock may rely on until it commits.       *)
THEOREM AccountsInductive == AccountsSpec => []IInv
  <1>1. AccountsInit => IInv
    BY InitIInv
  <1>2. IInv /\ [AccountsNext]_accountVars => IInv'
    BY NextIInv
  <1> QED BY <1>1, <1>2, PTL DEF AccountsSpec

(* #299, for every number of accounts and requests and every mapping of    *)
(* roles: while some enabled account is an administrator, no demotion,     *)
(* disabling or role refresh from the provider leaves none.                *)
THEOREM AdminAlwaysRemains == AccountsSpec => AdminRemains
  <1>1. IInv /\ [AccountsNext]_accountVars
          => [EnabledAdmins # {} => EnabledAdmins' # {}]_accountVars
    BY NextIInv DEF Kept
  <1> QED BY <1>1, AccountsInductive, PTL DEF AccountsSpec, AdminRemains

(* #307: the newest audit event of an account states the roles and the     *)
(* state it has, whichever path wrote them.                                *)
THEOREM AccountsAudited == AccountsSpec => []AuditedAccounts
  <1>1. IInv => AuditedAccounts
    BY DEF IInv
  <1> QED BY <1>1, AccountsInductive, PTL

(* No later sign-in takes an account away from the external subject it was *)
(* created for or linked to.                                               *)
THEOREM SubjectsStay == AccountsSpec => SubjectKeepsAccount
  <1>1. IInv /\ [AccountsNext]_accountVars
          => [\A u \in Existing : users[u].subject # NoOne
                                    => users'[u].subject = users[u].subject]_accountVars
    BY NextIInv DEF Kept
  <1> QED BY <1>1, AccountsInductive, PTL DEF AccountsSpec, SubjectKeepsAccount

(* #392: whatever roles the creator of a token is left with, the token      *)
(* grants no permission those roles lack.                                  *)
LEMMA IInvTokens ==
  ASSUME IInv
  PROVE  TokenWithinCreator
  <1> SUFFICES ASSUME NEW t \in tokens, NEW p \in Permissions, TokenAllows(t, p)
               PROVE  RolesAllow(users[t.by].roles, p)
    BY DEF TokenWithinCreator
  <1>1. PICK s \in t.scopes \cap TokenScopes :
           /\ p \in ScopeMeans[s]
           /\ \E q \in ScopeMeans[s] : RolesAllow(users[t.by].roles, q)
    BY DEF TokenAllows, EffectiveScopes
  <1>2. users[t.by].roles \subseteq Roles
    BY DEF IInv, Typed, Account, Token
  <1>3. s \in {"runs:read", "runs:write", "inventory:read", "batches:write", "reviews:read",
               "reviews:write", "settings:read", "audit:read"}
    BY <1>1 DEF TokenScopes, ScopeMeans
  <1>4. ScopeMeans[s] = {p} \/ s = "runs:read"
    BY <1>1, <1>3 DEF ScopeMeans
  <1>5. CASE ScopeMeans[s] = {p}
    BY <1>1, <1>5
  <1>6. CASE s = "runs:read"
    <2>1. ScopeMeans[s] = {"ReadDashboard", "ReadRuns"}
      BY <1>6 DEF ScopeMeans
    <2>2. PICK role \in users[t.by].roles : \E q \in ScopeMeans[s] : q \in PermissionsOf(role)
      BY <1>1 DEF RolesAllow
    <2>3. role \in Roles
      BY <1>2
    <2>4. p \in PermissionsOf(role)
      BY <1>1, <2>1, <2>2, <2>3 DEF PermissionsOf, Roles, Permissions
    <2> QED BY <2>4 DEF RolesAllow
  <1> QED BY <1>4, <1>5, <1>6

(* One owner per name and one account per external subject, a lock only    *)
(* after the full count of failures, and tokens within their creators.     *)
THEOREM AccountsStayConsistent == AccountsSpec => []AccountsConsistent
  <1>1. IInv => AccountsConsistent
    <2> SUFFICES ASSUME IInv PROVE AccountsConsistent
      OBVIOUS
    <2>1. AccountsTypeOK
      BY DEF IInv, Typed, AccountsTypeOK, Account, Event, RequestState
    <2> QED BY <2>1, IInvTokens DEF IInv, Distinct, LockedOut, AccountsConsistent
  <1> QED BY <1>1, AccountsInductive, PTL
=============================================================================
