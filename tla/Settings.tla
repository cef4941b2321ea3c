-------------------------------- MODULE Settings --------------------------------
(***************************************************************************)
(* The runtime settings: one JSON document in one row.  Operators load it,   *)
(* change a part and store the whole of it again; replicas of the worker     *)
(* raise two numbers inside it when they start.  Only the repairs lock the   *)
(* row between reading and writing.  An AI provider's key lives in a row of  *)
(* its own, which a newly entered key overwrites in place.                  *)
(***************************************************************************)
EXTENDS Naturals, FiniteSets

CONSTANTS Operators,   \* requests of people who may write settings
          Replicas,    \* worker processes
          Providers, Presets, PresetUrl,  \* Presets[p]: how a missing provider is appended
          Urls,        \* base URLs of providers
          Repairs,     \* startup repairs of a context size
          TooSmall,    \* Repairs -> the sizes it raises
          Floor,       \* to this size
          Sizes,       \* the context sizes people enter
          MaxWrites, MaxBoots,
          NoReplica, NoUrl

ASSUME SettingsAssumption ==
  /\ Presets \in [Providers -> BOOLEAN] /\ PresetUrl \in Urls /\ NoUrl \notin Urls
  /\ IsFiniteSet(Providers) /\ Floor \in Nat /\ Sizes \subseteq Nat
  /\ TooSmall \in [Repairs -> SUBSET (0 .. Floor - 1)]
  /\ MaxWrites \in Nat /\ MaxBoots \in Nat /\ NoReplica \notin Replicas

VARIABLES stored,   \* the row 'runtime' of table settings
          keyFor,   \* secret_references: the URL each provider's key was entered for
          marked,   \* the rows of startup_repairs
          rowLock,  \* the replica that selected the row for update
          operator, \* Operators -> the request
          replica,  \* Replicas -> where its startup is
          writes,   \* documents written so far
          since,    \* ghost: the write that last changed each part
          overlapped \* ghost: a save ended in the middle, or over another's write

settingsVars == <<stored, keyFor, marked, rowLock, operator, replica, writes, since, overlapped>>

-----------------------------------------------------------------------------
Parts == {"full_auto", "paused", "uses", "providers", "num_ctx"}
ProviderStates == {"on", "off", "gone"}

\* uses: the providers named by default_provider and the stage overrides.
Documents ==
  [full_auto : BOOLEAN, paused : BOOLEAN, uses : (SUBSET Providers) \ {{}},
   providers : [Providers -> [is : ProviderStates, url : Urls, key : BOOLEAN]],
   num_ctx : [Repairs -> Nat]]

\* RuntimeSettings::normalized: a built-in provider that is missing comes back
\* as its preset, with no key.
Normalized(doc) ==
  [doc EXCEPT !.providers =
     [p \in Providers |->
        IF @[p].is = "gone"
        THEN [is |-> IF Presets[p] THEN "on" ELSE "off", url |-> PresetUrl, key |-> FALSE]
        ELSE @[p]]]

\* normalize_and_validate_providers: every name resolves to an enabled provider.
ProvidersValid(doc) == \A p \in doc.uses : doc.providers[p].is = "on"

\* Mutation: the key is bound to the provider's name alone.
KeysBoundByName(current, next, entered) ==
  \A p \in Providers \ entered : next.providers[p].key => current.providers[p].key

\* saved_provider_secret_matches, validate_secret_bindings: a stored key stays
\* with the endpoint it is saved for, unless it is entered again.
KeysBound(current, next, entered) ==
  \A p \in Providers \ entered :
    next.providers[p].key =>
      current.providers[p].key /\ current.providers[p].url = next.providers[p].url

\* What a person changes in a form (paused stands for the workflow's switches).
Edit(doc, part, value) == [asked |-> {part}, doc |-> [doc EXCEPT ![part] = value]]
Edits(doc) ==
  {Edit(doc, "paused", ~doc.paused)}
    \cup {Edit(doc, "uses", ps) : ps \in (SUBSET Providers) \ {{}}}
    \cup {Edit(doc, "num_ctx", [doc.num_ctx EXCEPT ![r] = n]) : r \in Repairs, n \in Sizes}
    \cup {Edit(doc, "providers", [doc.providers EXCEPT ![p].is = s]) :
            p \in Providers, s \in ProviderStates}
    \cup {Edit(doc, "providers", [doc.providers EXCEPT ![p].url = u]) : p \in Providers, u \in Urls}

-----------------------------------------------------------------------------
Fresh ==
  [full_auto |-> FALSE, paused |-> FALSE, uses |-> {}, num_ctx |-> [r \in Repairs |-> 0],
   providers |-> [p \in Providers |-> [is |-> "gone", url |-> PresetUrl, key |-> FALSE]]]
Away == [pc |-> "away", seen |-> Fresh, at |-> 0, asked |-> {}, want |-> Fresh,
         entered |-> {}, checked |-> 0]
Down == [pc |-> "down", boots |-> 0, todo |-> {}, repair |-> {}]

\* The seeded row names a provider and lists none; every read adds the presets.
SettingsInit ==
  /\ \E p \in Providers, n \in Sizes :
       /\ Presets[p]
       /\ stored = [Fresh EXCEPT !.uses = {p}, !.num_ctx = [r \in Repairs |-> n]]
  /\ keyFor = [p \in Providers |-> NoUrl]
  /\ marked = {} /\ rowLock = NoReplica
  /\ operator = [o \in Operators |-> Away] /\ replica = [w \in Replicas |-> Down]
  /\ writes = 0 /\ since = [part \in Parts |-> 0] /\ overlapped = FALSE

\* One statement writes the row; it waits for a replica that has locked it.
Write(doc) ==
  /\ rowLock = NoReplica /\ writes < MaxWrites
  /\ stored' = doc /\ writes' = writes + 1
  /\ since' = [part \in Parts |->
                 IF doc[part] # Normalized(stored)[part] THEN writes + 1 ELSE since[part]]

\* get_runtime_settings, for the form or at the start of a handler.
Reading(pc) == [Away EXCEPT !.pc = pc, !.seen = Normalized(stored), !.at = writes,
                            !.checked = writes]

-----------------------------------------------------------------------------
(* update_settings                                                          *)

OpenForm(o) ==
  /\ operator[o].pc = "away"
  /\ operator' = [operator EXCEPT ![o] = Reading("editing")]
  /\ UNCHANGED <<stored, keyFor, marked, rowLock, replica, writes, since, overlapped>>

\* prepare_settings_update on the form, then the bindings against a fresh read.
Submit(o) ==
  /\ operator[o].pc = "editing"
  /\ \E edit \in Edits(operator[o].seen), entered \in SUBSET Providers :
       LET want == Normalized(edit.doc) IN
       /\ Cardinality(entered) <= 1
       /\ ProvidersValid(want) /\ KeysBound(Normalized(stored), want, entered)
       /\ operator' = [operator EXCEPT ![o].pc = IF entered = {} THEN "ready" ELSE "keys",
                         ![o].asked = edit.asked
                                        \cup IF entered = {} THEN {} ELSE {"providers"},
                         ![o].want = want, ![o].entered = entered, ![o].checked = writes,
                         ![o].seen = Fresh]
  /\ UNCHANGED <<stored, keyFor, marked, rowLock, replica, writes, since, overlapped>>

\* upsert_encrypted_secret, under the provider's name: a transaction of its own.
StoreKey(o) ==
  /\ operator[o].pc = "keys"
  /\ \E p \in operator[o].entered :
       /\ keyFor' = [keyFor EXCEPT ![p] = operator[o].want.providers[p].url]
       /\ operator' = [operator EXCEPT ![o].pc = "ready", ![o].want.providers[p].key = TRUE]
  /\ UNCHANGED <<stored, marked, rowLock, replica, writes, since, overlapped>>

-----------------------------------------------------------------------------
(* update_workflow_mode, update_workflow_controls                           *)

SwitchWorkflow(o, part) ==
  /\ operator[o].pc = "away"
  /\ \E value \in BOOLEAN :
       operator' = [operator EXCEPT
         ![o] = [Reading("ready") EXCEPT !.asked = {part},
                   !.want = [Normalized(stored) EXCEPT ![part] = value]]]
  /\ UNCHANGED <<stored, keyFor, marked, rowLock, replica, writes, since, overlapped>>

\* update_runtime_settings: the whole document, whatever is stored by now.
Save(o) ==
  /\ operator[o].pc = "ready"
  /\ Write(operator[o].want)
  /\ overlapped' = (overlapped \/ operator[o].checked # writes)
  /\ operator' = [operator EXCEPT ![o] = Away]
  /\ UNCHANGED <<keyFor, marked, rowLock, replica>>

\* The form is closed, a check refuses the request, or a statement fails.
GiveUp(o) ==
  /\ operator[o].pc # "away"
  /\ overlapped' = (overlapped \/ (operator[o].pc = "ready" /\ operator[o].entered # {}))
  /\ operator' = [operator EXCEPT ![o] = Away]
  /\ UNCHANGED <<stored, keyFor, marked, rowLock, replica, writes, since>>

-----------------------------------------------------------------------------
(* run_startup_repair of the two context sizes                              *)

Boot(w) ==
  /\ replica[w].pc = "down" /\ replica[w].boots < MaxBoots
  /\ replica' = [replica EXCEPT ![w].pc = "up", ![w].todo = Repairs, ![w].boots = @ + 1]
  /\ UNCHANGED <<stored, keyFor, marked, rowLock, operator, writes, since, overlapped>>

\* startup_repair_applied
CheckMarker(w) ==
  /\ replica[w].pc = "up"
  /\ \E r \in replica[w].todo :
       replica' = [replica EXCEPT ![w].todo = @ \ {r},
                     ![w].pc = IF r \in marked THEN "up" ELSE "due", ![w].repair = {r}]
  /\ UNCHANGED <<stored, keyFor, marked, rowLock, operator, writes, since, overlapped>>

\* Mutation: the size is read without `for update`.
ReadUnlocked(w) ==
  /\ replica[w].pc = "due" /\ rowLock = NoReplica
  /\ \E r \in replica[w].repair :
       replica' = [replica EXCEPT ![w].pc = IF stored.num_ctx[r] \in TooSmall[r] THEN "raise"
                                            ELSE "record"]
  /\ UNCHANGED <<stored, keyFor, marked, rowLock, operator, writes, since, overlapped>>

\* bump_text_num_ctx_if_too_small, bump_vision_num_ctx_if_too_small: the size is
\* read with the row locked; a large enough one is left alone.
LockRow(w) ==
  /\ replica[w].pc = "due" /\ rowLock = NoReplica
  /\ \E r \in replica[w].repair :
       IF stored.num_ctx[r] \in TooSmall[r]
       THEN replica' = [replica EXCEPT ![w].pc = "raise"] /\ rowLock' = w
       ELSE replica' = [replica EXCEPT ![w].pc = "record"] /\ UNCHANGED rowLock
  /\ UNCHANGED <<stored, keyFor, marked, operator, writes, since, overlapped>>

\* jsonb_set on the row as it is, and the commit.
Raise(w) ==
  /\ replica[w].pc = "raise" /\ writes < MaxWrites
  /\ \E r \in replica[w].repair :
       /\ stored' = [stored EXCEPT !.num_ctx[r] = Floor]
       /\ since' = [since EXCEPT !["num_ctx"] = writes + 1]
  /\ writes' = writes + 1 /\ rowLock' = NoReplica
  /\ replica' = [replica EXCEPT ![w].pc = "record"]
  /\ UNCHANGED <<keyFor, marked, operator, overlapped>>

\* record_startup_repair: a marker another replica wrote first is left alone.
Record(w) ==
  /\ replica[w].pc = "record"
  /\ marked' = marked \cup replica[w].repair
  /\ replica' = [replica EXCEPT ![w].pc = "up", ![w].repair = {}]
  /\ UNCHANGED <<stored, keyFor, rowLock, operator, writes, since, overlapped>>

\* The process dies and its transaction is rolled back; or the repair failed,
\* which the worker only logs.
Die(w) ==
  /\ replica[w].pc # "down"
  /\ rowLock' = IF rowLock = w THEN NoReplica ELSE rowLock
  /\ replica' = [replica EXCEPT ![w] = [Down EXCEPT !.boots = replica[w].boots]]
  /\ UNCHANGED <<stored, keyFor, marked, operator, writes, since, overlapped>>

SettingsNext ==
  \/ \E o \in Operators :
       \/ OpenForm(o) \/ Submit(o) \/ StoreKey(o) \/ Save(o) \/ GiveUp(o)
       \/ \E part \in {"full_auto", "paused"} : SwitchWorkflow(o, part)
  \/ \E w \in Replicas :
       Boot(w) \/ CheckMarker(w) \/ LockRow(w) \/ Raise(w) \/ Record(w) \/ Die(w)

SettingsSpec == SettingsInit /\ [][SettingsNext]_settingsVars

-----------------------------------------------------------------------------
(* Type invariant.                                                          *)
SettingsTypeOK ==
  /\ stored \in Documents /\ keyFor \in [Providers -> Urls \cup {NoUrl}]
  /\ marked \subseteq Repairs /\ rowLock \in Replicas \cup {NoReplica}
  /\ \A w \in Replicas :
       /\ replica[w].pc \in {"down", "up", "due", "raise", "record"}
       /\ rowLock = w <=> replica[w].pc = "raise"
  /\ \A o \in Operators : operator[o].pc \in {"away", "editing", "keys", "ready"}

\* #313: the worker always finds the providers the settings name, enabled, and
\* a key is stored for every provider that refers to one.
ProvidersResolve ==
  /\ ProvidersValid(Normalized(stored))
  /\ \A p \in Providers : stored.providers[p].key => keyFor[p] # NoUrl

\* #397: however old the form, a save never leaves a provider's stored key with
\* an endpoint it was not entered for.  Only two saves at once, or one that
\* fails after it has stored the key, can (settings.rs stores both separately).
KeysFitEndpoints ==
  \A p \in Providers :
    \/ overlapped \/ ~stored.providers[p].key \/ keyFor[p] = stored.providers[p].url
    \/ \E o \in Operators : operator[o].pc = "ready" /\ p \in operator[o].entered

SettingsConsistent == SettingsTypeOK /\ ProvidersResolve /\ KeysFitEndpoints

\* A save changes only what it was asked to change and what others changed after
\* it had read; a repair raises a size that is too small and changes nothing else,
\* so that no save is lost to it and no larger size is lowered.
SavesKeepTheRest ==
  [][/\ \A o \in Operators : Save(o) =>
          \A part \in Parts \ operator[o].asked :
            stored'[part] # Normalized(stored)[part] => since[part] > operator[o].at
     /\ \A w \in Replicas : Raise(w) =>
          /\ \A part \in Parts \ {"num_ctx"} : stored'[part] = stored[part]
          /\ \A r \in Repairs : stored.num_ctx[r] # stored'.num_ctx[r] =>
               stored.num_ctx[r] \in TooSmall[r]]_settingsVars
===================================================================================
