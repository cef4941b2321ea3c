------------------------------ MODULE AuditChain ------------------------------
(***************************************************************************)
(* The audit log: a chain of hashed rows.  API and worker processes append  *)
(* under one advisory lock, an administrator prunes the old end in batches, *)
(* a verifier replays the hashes, and an export pages through the rows.     *)
(*                                                                         *)
(* A row's hash is injective in what it binds, so the row is named by its   *)
(* chain position and "prev" is the position of the row it was chained to.  *)
(* "ns" is the sub-microsecond part of the timestamp the writer hashed      *)
(* (PostgreSQL drops it; writers before v1.17.0 did not round first), and   *)
(* "hint" is the part the verifier has found and stored.                    *)
(***************************************************************************)
EXTENDS Integers, FiniteSets, FiniteSetsExt

CONSTANTS Writers,    \* transactions that append
          Sweepers,   \* administrators that apply the retention
          Exporters,  \* administrators that download the log
          Batch,      \* rows one DELETE removes (5000)
          Page,       \* rows one export page holds (500)
          SubMicros,   \* sub-microsecond parts a timestamp may have
          Window,     \* audit_retention_days
          Skew,       \* how far a process' clock may lag
          MaxExports, \* exports under way at once (4)
          MaxPos,     \* bound: rows ever appended
          MaxTime     \* bound: clock

ASSUME AuditAssumption ==
  /\ Batch \in Nat \ {0} /\ Page \in Nat \ {0} /\ MaxExports \in Nat \ {0}
  /\ Window \in Nat /\ Skew \in Nat /\ MaxPos \in Nat \ {0} /\ MaxTime \in Nat
  /\ SubMicros \subseteq Nat /\ 0 \in SubMicros /\ Skew =< Window

Unknown == -1

VARIABLES trail,     \* the rows of audit_events
          position,  \* last value of audit_events_chain_position_seq
          now,       \* the newest clock
          writer,    \* Writers -> [pc, prev]
          sweep,     \* Sweepers -> [pc, keep, cutoff]
          export     \* Exporters -> [pc, cursor, owed]: rows still to deliver

auditVars == <<trail, position, now, writer, sweep, export>>

Rows == [pos : 1..MaxPos, prev : 0..MaxPos, stamp : -Skew..MaxTime,
         ns : SubMicros, hint : SubMicros \cup {Unknown}]

LastPos(rows) == Max({r.pos : r \in rows} \cup {0})

AuditTypeOK ==
  /\ trail \subseteq Rows
  /\ \A r, s \in trail : r.pos = s.pos => r = s
  /\ position \in 0..MaxPos /\ now \in 0..MaxTime
  /\ writer \in [Writers -> [pc : {"idle", "locked"}, prev : 0..MaxPos]]
  /\ sweep \in [Sweepers -> [pc : {"idle", "delete", "record", "cut"}, keep : 0..MaxPos + 1,
                             cutoff : -Window..MaxTime]]
  /\ export \in [Exporters -> [pc : {"idle", "page", "done"}, cursor : SUBSET Rows,
                               owed : SUBSET (1..MaxPos)]]

NotSweeping == [pc |-> "idle", keep |-> 0, cutoff |-> -Window]
NotExporting == [pc |-> "idle", cursor |-> {}, owed |-> {}]

\* A log of one row, written before timestamps were rounded.
AuditInit ==
  /\ \E n \in SubMicros :
       trail = {[pos |-> 1, prev |-> 0, stamp |-> 0, ns |-> n, hint |-> Unknown]}
  /\ position = 1 /\ now = 0
  /\ writer = [w \in Writers |-> [pc |-> "idle", prev |-> 0]]
  /\ sweep = [s \in Sweepers |-> NotSweeping]
  /\ export = [x \in Exporters |-> NotExporting]

-----------------------------------------------------------------------------
(* Appending: the advisory lock is held from the read of the newest hash to  *)
(* the end of the transaction.                                              *)

AppendLockFree == \A w \in Writers : writer[w].pc = "idle"

LockAndRead(w) ==
  /\ AppendLockFree
  /\ writer' = [writer EXCEPT ![w] = [pc |-> "locked", prev |-> LastPos(trail)]]
  /\ UNCHANGED <<trail, position, now, sweep, export>>

NewRow(prev, stamp) ==
  [pos |-> position + 1, prev |-> prev, stamp |-> stamp, ns |-> 0, hint |-> 0]

Insert(w) ==
  /\ writer[w].pc = "locked" /\ position < MaxPos
  /\ \E stamp \in (now - Skew)..now : trail' = trail \cup {NewRow(writer[w].prev, stamp)}
  /\ position' = position + 1
  /\ writer' = [writer EXCEPT ![w].pc = "idle"]
  /\ UNCHANGED <<now, sweep, export>>

\* The surrounding transaction fails: the sequence value is spent, the row is not there.
RollBack(w) ==
  /\ writer[w].pc = "locked" /\ position < MaxPos
  /\ position' = position + 1
  /\ writer' = [writer EXCEPT ![w].pc = "idle"]
  /\ UNCHANGED <<trail, now, sweep, export>>

Tick == /\ now < MaxTime
        /\ now' = now + 1
        /\ UNCHANGED <<trail, position, writer, sweep, export>>

-----------------------------------------------------------------------------
(* Verification, in one REPEATABLE READ transaction behind its own locks.    *)

HashMatches(r) == IF r.hint = Unknown THEN r.ns \in SubMicros ELSE r.ns = r.hint

Links(r, rows) ==
  LET older == {q \in rows : q.pos < r.pos}
  IN  older # {} => r.prev = LastPos(older)

Verifies(rows) == \A r \in rows : HashMatches(r) /\ Links(r, rows)

\* Only the rows before the first broken one get their hint.
VerifiedPrefix(rows) ==
  {r \in rows : Verifies({s \in rows : s.pos =< r.pos})}

Verify ==
  /\ trail' = {IF r \in VerifiedPrefix(trail) /\ r.hint = Unknown
                 THEN [r EXCEPT !.hint = r.ns] ELSE r : r \in trail}
  /\ UNCHANGED <<position, now, writer, sweep, export>>

-----------------------------------------------------------------------------
(* Retention.  The caller has a live session, so its own sign-in, younger    *)
(* than the window, is in the log.                                          *)

Kept(rows, cutoff) == {r.pos : r \in {s \in rows : s.stamp >= cutoff}}

\* Mutant of KeepBoundary: everything up to the newest expired row.
UpToNewestExpired(rows, cutoff) ==
  LastPos({r \in rows : r.stamp < cutoff}) + 1

KeepBoundary(rows, cutoff) ==
  IF Kept(rows, cutoff) = {} THEN MaxPos + 1 ELSE Min(Kept(rows, cutoff))

RetentionStarts(s) ==
  /\ sweep[s].pc \in {"idle", "cut"}
  /\ Kept(trail, now - Window) # {}
  /\ sweep' = [sweep EXCEPT ![s] = [pc |-> "delete", keep |-> KeepBoundary(trail, now - Window),
                                    cutoff |-> now - Window]]
  /\ UNCHANGED <<trail, position, now, writer, export>>

\* Mutant of Expired: by created_at, as before chain positions (#285).
ExpiredByAge(s) == {r \in trail : r.stamp < sweep[s].cutoff}

Expired(s) == {r \in trail : r.pos < sweep[s].keep}

\* The DELETE names no order: any Batch of the expired rows may go first.
DeleteBatch(s) ==
  /\ sweep[s].pc = "delete"
  /\ \E gone \in SUBSET Expired(s) :
       /\ Cardinality(gone) = Min({Batch, Cardinality(Expired(s))})
       /\ trail' = trail \ gone
       /\ Cardinality(gone) < Batch => sweep' = [sweep EXCEPT ![s].pc = "record"]
       /\ Cardinality(gone) = Batch => UNCHANGED sweep
  /\ UNCHANGED <<position, now, writer, export>>

RecordRetention(s) ==
  /\ sweep[s].pc = "record" /\ AppendLockFree /\ position < MaxPos
  /\ \E stamp \in (now - Skew)..now : trail' = trail \cup {NewRow(LastPos(trail), stamp)}
  /\ position' = position + 1
  /\ sweep' = [sweep EXCEPT ![s] = NotSweeping]
  /\ UNCHANGED <<now, writer, export>>

\* The request is dropped, or the process stops, between two batches.
RetentionCut(s) ==
  /\ sweep[s].pc = "delete"
  /\ sweep' = [sweep EXCEPT ![s].pc = "cut"]
  /\ UNCHANGED <<trail, position, now, writer, export>>

-----------------------------------------------------------------------------
(* Export: keyset pages, newest first, in the order of (created_at, id).     *)

Newer(r, s) == r.stamp > s.stamp \/ (r.stamp = s.stamp /\ r.pos > s.pos)

\* Mutant of BeforeCursor: the cursor is created_at alone.
BeforeStamp(rows, cursor) == {r \in rows : \A c \in cursor : c.stamp > r.stamp}

BeforeCursor(rows, cursor) == {r \in rows : \A c \in cursor : Newer(c, r)}

\* The newest Page rows below the cursor, a set ordered by Newer.
PageOf(rows, cursor) ==
  LET rest == BeforeCursor(rows, cursor)
  IN  {r \in rest : Cardinality({q \in rest : Newer(q, r)}) < Page}

Oldest(rows) == {r \in rows : \A q \in rows : ~Newer(r, q)}

ExportStarts(x) ==
  /\ export[x].pc # "page"
  /\ Cardinality({y \in Exporters : export[y].pc = "page"}) < MaxExports
  /\ AppendLockFree /\ position < MaxPos
  /\ \E stamp \in (now - Skew)..now :
       LET row == NewRow(LastPos(trail), stamp)
       IN  /\ trail' = trail \cup {row}
           /\ export' = [export EXCEPT ![x] =
                [pc |-> "page", cursor |-> {}, owed |-> {r.pos : r \in trail \cup {row}}]]
  /\ position' = position + 1
  /\ UNCHANGED <<now, writer, sweep>>

ExportPage(x) ==
  /\ export[x].pc = "page"
  /\ LET page == PageOf(trail, export[x].cursor)
         left == export[x].owed \ {r.pos : r \in page}
     IN  export' = [export EXCEPT ![x] =
           IF Cardinality(page) < Page THEN [pc |-> "done", cursor |-> {}, owed |-> left]
                               ELSE [pc |-> "page", cursor |-> Oldest(page), owed |-> left]]
  /\ UNCHANGED <<trail, position, now, writer, sweep>>

\* The client leaves or the deadline passes.
ExportAborts(x) ==
  /\ export[x].pc = "page"
  /\ export' = [export EXCEPT ![x] = NotExporting]
  /\ UNCHANGED <<trail, position, now, writer, sweep>>

AuditNext ==
  \/ \E w \in Writers : LockAndRead(w) \/ Insert(w) \/ RollBack(w)
  \/ Tick \/ Verify
  \/ \E s \in Sweepers : \/ RetentionStarts(s) \/ DeleteBatch(s)
                         \/ RecordRetention(s) \/ RetentionCut(s)
  \/ \E x \in Exporters : ExportStarts(x) \/ ExportPage(x) \/ ExportAborts(x)

AuditSpec == AuditInit /\ [][AuditNext]_auditVars

-----------------------------------------------------------------------------
(* Properties *)

\* Types; and the chain replays cleanly whenever no retention is under way or
\* was cut short: what concurrent writers, clock skew, spent sequence values and
\* past prunings leave is one linked suffix of the history.
ChainVerifies ==
  /\ AuditTypeOK
  /\ (\A s \in Sweepers : sweep[s].pc \in {"idle", "record"}) => Verifies(trail)

\* Retention removes no row that was inside the window when it began, however
\* skewed the clocks of the processes that wrote it.
RetentionKeepsRecent ==
  [][\A r \in trail : r \notin trail' =>
       (\E t \in trail' : t.pos = r.pos) \/ (\E s \in Sweepers : r.stamp < sweep[s].cutoff)]_auditVars

\* A finished export holds every row that was there when it began and still is,
\* however the rows and their timestamps tie and move around the pages.
ExportComplete ==
  \A x \in Exporters : export[x].pc = "done" => export[x].owed \cap {r.pos : r \in trail} = {}
=============================================================================
