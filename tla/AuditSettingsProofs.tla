-------------------------- MODULE AuditSettingsProofs --------------------------
(***************************************************************************)
(* Two parts of the administration, which share no state.                   *)
(*                                                                         *)
(* What AuditChain promises, for any number of writers, sweepers and        *)
(* exports, any batch and page size, and any retention window.  The          *)
(* invariant's parts are stated over a set of rows, so that the lemmas       *)
(* about appending, deleting and verifying say what they do to the rows and  *)
(* not which action did it.                                                *)
(*                                                                         *)
(* What Settings promises, for any providers, operators, replicas and        *)
(* repairs.  The invariant says of every open form and every checked         *)
(* request how far it may have fallen behind the row: a part that differs    *)
(* from it was written after the request had read.                          *)
(***************************************************************************)
EXTENDS AuditChain, Settings, FiniteSetTheorems, WellFoundedInduction, TLAPS

(* A sweep that has fixed its boundary and not yet removed all below it. *)
Sweeping == {"delete", "cut"}

(* Rows in a chain: no row stands between a row and the one it names. *)
ChainOk(rows, last) ==
  /\ rows \subseteq Rows /\ IsFiniteSet(rows) /\ rows # {}
  /\ last \in 1..MaxPos
  /\ \A r \in rows : r.pos =< last /\ r.prev < r.pos /\ HashMatches(r)
  /\ \A r, q \in rows : r.pos = q.pos => r = q
  /\ \A r, q \in rows : q.pos < r.pos => q.pos =< r.prev

(* The row a row names is there, or the row is the oldest. *)
Chained(r, rows) == (\E q \in rows : q.pos = r.prev) \/ (\A q \in rows : q.pos >= r.pos)

(* A link is missing only where a sweep is under way, or stopped half way. *)
Linked(rows, sweeps) ==
  \A r \in rows :
    Chained(r, rows) \/ \E s \in Sweepers : sweeps[s].pc \in Sweeping /\ r.prev < sweeps[s].keep

(* Some row stays, and what is below the boundary is outside the window. *)
SweepOk(q, rows, time) ==
  q.pc \in Sweeping =>
    /\ \E r \in rows : r.pos >= q.keep
    /\ \A r \in rows : r.pos < q.keep => r.stamp < q.cutoff
    /\ q.cutoff =< time - Window

(* Who holds the lock has read the newest row. *)
LockOk(writers, rows) ==
  /\ \A v, w \in Writers : writers[v].pc = "locked" /\ writers[w].pc = "locked" => v = w
  /\ \A w \in Writers : writers[w].pc = "locked" => writers[w].prev = LastPos(rows)

(* What an export still owes is behind its cursor. *)
ExportOk(e, rows, last) ==
  /\ \A p \in e.owed : p =< last
  /\ e.pc = "page" => \A r \in rows : r.pos \in e.owed => \A c \in e.cursor : Newer(c, r)
  /\ e.pc = "done" => \A r \in rows : r.pos \notin e.owed

IInv ==
  /\ AuditTypeOK
  /\ ChainOk(trail, position) /\ Linked(trail, sweep) /\ LockOk(writer, trail)
  /\ \A s \in Sweepers : SweepOk(sweep[s], trail, now)
  /\ \A x \in Exporters : ExportOk(export[x], trail, position)

-----------------------------------------------------------------------------
(* Bounds of sets of integers.                                             *)

(* The smallest of a set of naturals, by well-foundedness of the initial   *)
(* segments under inclusion.                                               *)
LEMMA MinExists ==
  ASSUME NEW S, S \subseteq Nat, S # {}
  PROVE  \E x \in S : \A y \in S : x =< y
  <1> DEFINE T == {0..x : x \in S}
  <1>0. \A x \in S : 0..x \in FiniteSubsetsOf(Nat)
    <2> TAKE x \in S
    <2>1. IsFiniteSet(0..x)
      BY FS_Interval
    <2>2. 0..x \in SUBSET Nat
      OBVIOUS
    <2> QED BY <2>1, <2>2 DEF FiniteSubsetsOf
  <1>1. T \subseteq FiniteSubsetsOf(Nat) /\ T # {}
    BY <1>0
  <1>2. PICK t \in T : \A u \in T : ~ (<<u, t>> \in StrictSubsetOrdering(Nat))
    BY <1>1, FS_StrictSubsetOrderingWellFounded, WFMin
  <1>3. PICK x \in S : t = 0..x
    BY <1>2
  <1>4. ASSUME NEW y \in S, y < x PROVE FALSE
    <2>1. 0..y \in T /\ 0..y \subseteq 0..x /\ 0..y # 0..x
      BY <1>4
    <2>2. 0..y \in SUBSET Nat /\ 0..x \in SUBSET Nat
      OBVIOUS
    <2>3. <<0..y, 0..x>> \in StrictSubsetOrdering(Nat)
      BY <2>1, <2>2 DEF StrictSubsetOrdering
    <2> QED BY <2>1, <2>3, <1>2, <1>3
  <1> QED BY <1>4

LEMMA MaxOf ==
  ASSUME NEW N \in Nat, NEW S, S \subseteq 0..N, S # {}
  PROVE  Max(S) \in S /\ \A y \in S : Max(S) >= y
  <1> DEFINE T == {N - x : x \in S}
  <1>0. \A x \in S : N - x \in Nat
    OBVIOUS
  <1>1. T \subseteq Nat /\ T # {}
    BY <1>0
  <1>2. PICK t \in T : \A u \in T : t =< u
    BY <1>1, MinExists
  <1>3. PICK x \in S : t = N - x
    BY <1>2
  <1>4. \A y \in S : x >= y
    BY <1>2, <1>3
  <1> QED BY <1>4 DEF Max

LEMMA MinOf ==
  ASSUME NEW S, S \subseteq Nat, S # {}
  PROVE  Min(S) \in S /\ \A y \in S : Min(S) =< y
  <1>1. \E x \in S : \A y \in S : x =< y
    BY MinExists
  <1> QED BY <1>1 DEF Min

LEMMA LastOf ==
  ASSUME NEW rows, rows \subseteq Rows
  PROVE  /\ LastPos(rows) \in 0..MaxPos
         /\ \A r \in rows : r.pos =< LastPos(rows)
         /\ rows # {} => \E r \in rows : r.pos = LastPos(rows)
  <1> DEFINE S == {r.pos : r \in rows} \cup {0}
  <1>1. MaxPos \in Nat
    BY AuditAssumption
  <1>2. S \subseteq 0..MaxPos /\ S # {}
    BY <1>1 DEF Rows
  <1>3. Max(S) \in S /\ \A y \in S : Max(S) >= y
    BY <1>1, <1>2, MaxOf
  <1>4. LastPos(rows) = Max(S)
    BY DEF LastPos
  <1> HIDE DEF S
  <1>5. \A r \in rows : r.pos \in S /\ r.pos \in 1..MaxPos
    BY DEF S, Rows
  <1>6. Max(S) \in 0..MaxPos
    BY <1>2, <1>3
  <1>7. \A r \in rows : r.pos =< Max(S)
    BY <1>3, <1>5, <1>6, <1>1
  <1>8. rows # {} => Max(S) # 0
    BY <1>7, <1>5, <1>1
  <1>9. rows # {} => \E r \in rows : r.pos = Max(S)
    BY <1>8, <1>3 DEF S
  <1> QED BY <1>4, <1>6, <1>7, <1>9

(* The newest position is the one no other exceeds. *)
LEMMA LastIs ==
  ASSUME NEW rows, rows \subseteq Rows, NEW r \in rows, \A q \in rows : q.pos =< r.pos
  PROVE  LastPos(rows) = r.pos
  <1>1. MaxPos \in Nat
    BY AuditAssumption
  <1>2. \A q \in rows : q.pos \in Nat
    BY <1>1 DEF Rows
  <1> QED BY <1>1, <1>2, LastOf

-----------------------------------------------------------------------------
(* A chain whose links are all there replays.                              *)

LEMMA ChainedLinks ==
  ASSUME NEW rows, NEW last, ChainOk(rows, last), NEW r \in rows, Chained(r, rows)
  PROVE  Links(r, rows)
  <1> DEFINE older == {q \in rows : q.pos < r.pos}
  <1>1. SUFFICES ASSUME older # {} PROVE r.prev = LastPos(older)
    BY DEF Links
  <1>2. older \subseteq Rows /\ MaxPos \in Nat
    BY AuditAssumption DEF ChainOk
  <1>3. \A q \in rows : q.pos \in Nat /\ q.prev \in Nat
    BY <1>2 DEF ChainOk, Rows
  <1>4. PICK q \in rows : q.pos = r.prev
    BY <1>1, <1>3 DEF Chained
  <1>5. q \in older
    BY <1>4, <1>3 DEF ChainOk
  <1>6. \A p \in older : p.pos =< q.pos
    BY <1>4 DEF ChainOk
  <1> HIDE DEF older
  <1> QED BY <1>2, <1>4, <1>5, <1>6, LastIs

-----------------------------------------------------------------------------
(* Appending a row behind the newest one.                                  *)

AppendedTo(rows, last, row) ==
  /\ row \in Rows /\ row.pos = last + 1 /\ row.prev = LastPos(rows) /\ HashMatches(row)

LEMMA AppendChain ==
  ASSUME NEW rows, NEW last, ChainOk(rows, last), last < MaxPos,
         NEW row, AppendedTo(rows, last, row)
  PROVE  /\ ChainOk(rows \cup {row}, last + 1)
         /\ Chained(row, rows \cup {row})
         /\ LastPos(rows \cup {row}) = last + 1
  <1> DEFINE all == rows \cup {row}
  <1>1. MaxPos \in Nat /\ rows \subseteq Rows /\ rows # {} /\ last \in 1..MaxPos
    BY AuditAssumption DEF ChainOk
  <1>2. /\ LastPos(rows) \in Nat
        /\ \A r \in rows : r.pos =< LastPos(rows)
        /\ \E r \in rows : r.pos = LastPos(rows)
    BY <1>1, LastOf
  <1>3. \A r \in all : r.pos \in Nat /\ r.prev \in Nat
    BY <1>1 DEF Rows, AppendedTo
  <1>4. all \subseteq Rows /\ all # {} /\ last + 1 \in 1..MaxPos
    BY <1>1 DEF AppendedTo
  <1>5. IsFiniteSet(all)
    BY FS_AddElement DEF ChainOk
  <1>6. \A r \in rows : r.pos =< last /\ r.prev < r.pos /\ HashMatches(r)
    BY DEF ChainOk
  <1>7. \A r \in all : r.pos =< last + 1 /\ r.prev < r.pos /\ HashMatches(r)
    BY <1>1, <1>2, <1>3, <1>6 DEF AppendedTo
  <1>8. \A r, q \in all : r.pos = q.pos => r = q
    BY <1>1, <1>3, <1>6 DEF AppendedTo, ChainOk
  <1>9. \A r, q \in all : q.pos < r.pos => q.pos =< r.prev
    BY <1>1, <1>2, <1>3, <1>6 DEF AppendedTo, ChainOk
  <1>10. Chained(row, all)
    BY <1>2 DEF Chained, AppendedTo
  <1>11. LastPos(all) = last + 1
    BY <1>4, <1>7, LastIs DEF AppendedTo
  <1> QED BY <1>4, <1>5, <1>7, <1>8, <1>9, <1>10, <1>11 DEF ChainOk

LEMMA AppendLinked ==
  ASSUME NEW rows, NEW last, ChainOk(rows, last), last < MaxPos,
         NEW row, AppendedTo(rows, last, row),
         NEW sweeps, Linked(rows, sweeps)
  PROVE  Linked(rows \cup {row}, sweeps)
  <1>1. rows \subseteq Rows /\ MaxPos \in Nat /\ last \in 1..MaxPos /\ \A r \in rows : r.pos =< last
    BY AuditAssumption DEF ChainOk
  <1>2. \A r \in rows : r.pos =< row.pos
    BY <1>1 DEF AppendedTo, Rows
  <1>3. \A r \in rows : Chained(r, rows) => Chained(r, rows \cup {row})
    BY <1>2 DEF Chained
  <1> QED BY <1>3, AppendChain DEF Linked

LEMMA AppendSweep ==
  ASSUME NEW rows, NEW last, ChainOk(rows, last), last < MaxPos,
         NEW row, AppendedTo(rows, last, row),
         NEW q, q.keep \in Int, NEW time, SweepOk(q, rows, time)
  PROVE  SweepOk(q, rows \cup {row}, time)
  <1>1. rows \subseteq Rows /\ MaxPos \in Nat /\ last \in 1..MaxPos /\ \A r \in rows : r.pos =< last
    BY AuditAssumption DEF ChainOk
  <1>2. row.pos = last + 1 /\ \A r \in rows : r.pos \in Int
    BY <1>1 DEF AppendedTo, Rows
  <1>3. ASSUME NEW r \in rows, r.pos >= q.keep PROVE ~ (row.pos < q.keep)
    BY <1>1, <1>2, <1>3
  <1> QED BY <1>3 DEF SweepOk

LEMMA AppendExport ==
  ASSUME NEW rows, NEW last, ChainOk(rows, last), last < MaxPos,
         NEW row, AppendedTo(rows, last, row),
         NEW e, e.owed \subseteq 1..MaxPos, ExportOk(e, rows, last)
  PROVE  ExportOk(e, rows \cup {row}, last + 1)
  <1>1. MaxPos \in Nat /\ last \in 1..MaxPos
    BY AuditAssumption DEF ChainOk
  <1>2. \A p \in e.owed : p =< last /\ p \in Int
    BY <1>1 DEF ExportOk
  <1>3. row.pos \notin e.owed /\ \A p \in e.owed : p =< last + 1
    BY <1>1, <1>2 DEF AppendedTo
  <1> QED BY <1>3 DEF ExportOk

LEMMA NewRowAppends ==
  ASSUME AuditTypeOK, ChainOk(trail, position), position < MaxPos,
         NEW stamp \in (now - Skew)..now
  PROVE  AppendedTo(trail, position, NewRow(LastPos(trail), stamp))
  <1>1. MaxPos \in Nat /\ Skew \in Nat /\ MaxTime \in Nat /\ 0 \in SubMicros
    BY AuditAssumption
  <1>2. now \in 0..MaxTime /\ position \in 0..MaxPos /\ LastPos(trail) \in 0..MaxPos
    BY LastOf DEF AuditTypeOK, ChainOk
  <1>3. stamp \in -Skew..MaxTime /\ position + 1 \in 1..MaxPos
    BY <1>1, <1>2
  <1> QED BY <1>1, <1>2, <1>3 DEF NewRow, Rows, AppendedTo, HashMatches, Unknown

-----------------------------------------------------------------------------
(* Deleting rows below a boundary.                                         *)

LEMMA DeleteChain ==
  ASSUME NEW rows, NEW last, ChainOk(rows, last),
         NEW gone \in SUBSET rows, NEW r0 \in rows, \A r \in gone : r.pos < r0.pos
  PROVE  /\ ChainOk(rows \ gone, last)
         /\ LastPos(rows \ gone) = LastPos(rows)
  <1> DEFINE all == rows \ gone
  <1>1. MaxPos \in Nat /\ rows \subseteq Rows /\ \A r \in rows : r.pos \in Int
    BY AuditAssumption DEF ChainOk, Rows
  <1>2. /\ LastPos(rows) \in Int
        /\ \A r \in rows : r.pos =< LastPos(rows)
        /\ \E r \in rows : r.pos = LastPos(rows)
    BY <1>1, LastOf
  <1>3. PICK r1 \in rows : r1.pos = LastPos(rows)
    BY <1>2
  <1>4. r1 \in all
    BY <1>1, <1>2, <1>3
  <1>5. all \subseteq Rows /\ \A q \in all : q.pos =< r1.pos
    BY <1>1, <1>2, <1>3
  <1>6. LastPos(all) = LastPos(rows)
    BY <1>3, <1>4, <1>5, LastIs
  <1>7. IsFiniteSet(all)
    BY FS_Subset DEF ChainOk
  <1> QED BY <1>4, <1>5, <1>6, <1>7 DEF ChainOk

SweepState ==
  [pc : {"idle", "delete", "record", "cut"}, keep : 0..MaxPos + 1, cutoff : -Window..MaxTime]

LEMMA DeleteLinked ==
  ASSUME NEW rows, NEW last, ChainOk(rows, last),
         NEW sweeps \in [Sweepers -> SweepState], Linked(rows, sweeps),
         NEW s \in Sweepers, sweeps[s].pc = "delete",
         NEW gone \in SUBSET rows, \A r \in gone : r.pos < sweeps[s].keep
  PROVE  Linked(rows \ gone, sweeps)
  <1> SUFFICES ASSUME NEW r \in rows \ gone
               PROVE  \/ Chained(r, rows \ gone)
                      \/ \E d \in Sweepers : sweeps[d].pc \in Sweeping /\ r.prev < sweeps[d].keep
    BY DEF Linked
  <1>1. CASE \E d \in Sweepers : sweeps[d].pc \in Sweeping /\ r.prev < sweeps[d].keep
    BY <1>1
  <1>2. CASE Chained(r, rows)
    <2>1. CASE \A q \in rows : q.pos >= r.pos
      BY <2>1 DEF Chained
    <2>2. CASE \E q \in rows : q.pos = r.prev
      <3>1. PICK q \in rows : q.pos = r.prev
        BY <2>2
      <3>2. CASE q \in gone
        BY <3>1, <3>2 DEF Sweeping
      <3>3. CASE q \notin gone
        BY <3>1, <3>3 DEF Chained
      <3> QED BY <3>2, <3>3
    <2> QED BY <1>2, <2>1, <2>2 DEF Chained
  <1> QED BY <1>1, <1>2 DEF Linked

(* When the last batch is gone the boundary row is the oldest. *)
LEMMA DeleteLast ==
  ASSUME NEW rows, NEW last, ChainOk(rows, last),
         NEW sweeps \in [Sweepers -> SweepState], Linked(rows, sweeps),
         NEW s \in Sweepers, sweeps[s].pc = "delete"
  PROVE  Linked(rows \ {r \in rows : r.pos < sweeps[s].keep}, [sweeps EXCEPT ![s].pc = "record"])
  <1> DEFINE gone == {r \in rows : r.pos < sweeps[s].keep}
             after == [sweeps EXCEPT ![s].pc = "record"]
  <1>0. gone \in SUBSET rows /\ \A r \in gone : r.pos < sweeps[s].keep
    OBVIOUS
  <1>9. \A q \in rows \ gone : ~ (q.pos < sweeps[s].keep)
    OBVIOUS
  <1> HIDE DEF gone
  <1>1. Linked(rows \ gone, sweeps)
    BY <1>0, DeleteLinked
  <1>8. /\ after[s].pc = "record"
        /\ \A d \in Sweepers : d # s => after[d] = sweeps[d]
    OBVIOUS
  <1> HIDE DEF after
  <1>2. SUFFICES ASSUME NEW r \in rows \ gone
                 PROVE  \/ Chained(r, rows \ gone)
                        \/ \E d \in Sweepers : after[d].pc \in Sweeping /\ r.prev < after[d].keep
    BY DEF Linked, gone, after
  <1>3. MaxPos \in Nat /\ sweeps[s] \in SweepState
    BY AuditAssumption
  <1>4. sweeps[s].keep \in Int
    BY <1>3 DEF SweepState
  <1>5. \A q \in rows : q.pos \in Int /\ q.prev \in Int
    BY <1>3 DEF ChainOk, Rows
  <1>6. CASE Chained(r, rows \ gone)
    BY <1>6
  <1>7. CASE \E d \in Sweepers : sweeps[d].pc \in Sweeping /\ r.prev < sweeps[d].keep
    <2>1. PICK d \in Sweepers : sweeps[d].pc \in Sweeping /\ r.prev < sweeps[d].keep
      BY <1>7
    <2>2. CASE d = s
      <3>1. ASSUME NEW q \in rows \ gone PROVE q.pos >= r.pos
        <4>1. q.pos >= sweeps[s].keep
          BY <1>4, <1>5, <1>9
        <4>2. q.pos < r.pos => q.pos =< r.prev
          BY DEF ChainOk
        <4> QED BY <4>1, <4>2, <1>4, <1>5, <2>1, <2>2
      <3> QED BY <3>1 DEF Chained
    <2>3. CASE d # s
      BY <2>1, <2>3, <1>8
    <2> QED BY <2>2, <2>3
  <1> QED BY <1>1, <1>6, <1>7 DEF Linked

LEMMA DeleteExport ==
  ASSUME NEW rows, NEW last, NEW gone, NEW e, ExportOk(e, rows, last)
  PROVE  ExportOk(e, rows \ gone, last)
  BY DEF ExportOk

LEMMA DeleteSweep ==
  ASSUME NEW rows, NEW last, ChainOk(rows, last), NEW gone, NEW q, q.keep \in Int, NEW time,
         SweepOk(q, rows, time), LastPos(rows \ gone) = LastPos(rows), rows \ gone # {}
  PROVE  SweepOk(q, rows \ gone, time)
  <1> DEFINE all == rows \ gone
  <1>1. rows \subseteq Rows /\ all \subseteq Rows /\ MaxPos \in Nat
    BY AuditAssumption DEF ChainOk
  <1>2. /\ LastPos(rows) \in Int /\ \A r \in rows : r.pos =< LastPos(rows)
        /\ \E r \in all : r.pos = LastPos(rows)
    BY <1>1, LastOf
  <1>3. \A r \in rows : r.pos \in Int
    BY <1>1 DEF Rows
  <1>4. (\E r \in rows : r.pos >= q.keep) => \E r \in all : r.pos >= q.keep
    BY <1>2, <1>3
  <1> QED BY <1>4 DEF SweepOk

-----------------------------------------------------------------------------
(* Verifying: rows keep all but their hint.                                *)

SameBut(rows, others) ==
  /\ \A r \in rows : \E t \in others : t.pos = r.pos /\ t.prev = r.prev /\ t.stamp = r.stamp
  /\ \A t \in others : \E r \in rows : t.pos = r.pos /\ t.prev = r.prev /\ t.stamp = r.stamp

VerifiedRow(r, rows) ==
  IF r \in VerifiedPrefix(rows) /\ r.hint = Unknown THEN [r EXCEPT !.hint = r.ns] ELSE r

LEMMA VerifyChain ==
  ASSUME NEW rows, NEW last, ChainOk(rows, last)
  PROVE  LET new == {VerifiedRow(r, rows) : r \in rows}
         IN  ChainOk(new, last) /\ SameBut(rows, new)
  <1> DEFINE new == {VerifiedRow(r, rows) : r \in rows}
  <1>1. MaxPos \in Nat /\ SubMicros \subseteq Nat /\ rows \subseteq Rows
    BY AuditAssumption DEF ChainOk
  <1>2. ASSUME NEW r \in rows
        PROVE  LET t == VerifiedRow(r, rows)
               IN  /\ t \in Rows /\ HashMatches(t)
                   /\ t.pos = r.pos /\ t.prev = r.prev /\ t.stamp = r.stamp
    <2> DEFINE t == [r EXCEPT !.hint = r.ns]
    <2>1. r \in Rows /\ HashMatches(r)
      BY <1>1 DEF ChainOk
    <2>2. t \in Rows /\ t.pos = r.pos /\ t.prev = r.prev /\ t.stamp = r.stamp
      BY <2>1 DEF Rows
    <2>3. t.ns = r.ns /\ t.hint = r.ns /\ r.ns \in SubMicros
      BY <2>1 DEF Rows
    <2>4. HashMatches(t)
      BY <2>3, <1>1 DEF HashMatches
    <2> HIDE DEF t
    <2>5. VerifiedRow(r, rows) = t \/ VerifiedRow(r, rows) = r
      BY DEF VerifiedRow, t
    <2> QED BY <2>1, <2>2, <2>4, <2>5
  <1>3. IsFiniteSet(new)
    <2> DEFINE f == [r \in rows |-> VerifiedRow(r, rows)]
    <2>1. f \in Surjection(rows, new)
      BY DEF Surjection
    <2>2. IsFiniteSet(rows)
      BY DEF ChainOk
    <2> HIDE DEF f, new
    <2> QED BY <2>1, <2>2, FS_Surjection
  <1>4. SameBut(rows, new)
    <2>1. \A r \in rows : VerifiedRow(r, rows) \in new
      OBVIOUS
    <2>2. \A t \in new : \E r \in rows : t = VerifiedRow(r, rows)
      OBVIOUS
    <2> HIDE DEF new
    <2> QED BY <2>1, <2>2, <1>2 DEF SameBut
  <1>5. ChainOk(new, last)
    <2>1. new \subseteq Rows /\ new # {} /\ \A t \in new : HashMatches(t)
      BY <1>2 DEF ChainOk
    <2>2. \A t, u \in new : t.pos = u.pos => t = u
      BY <1>2 DEF ChainOk
    <2> HIDE DEF new
    <2> QED BY <1>3, <1>4, <2>1, <2>2 DEF ChainOk, SameBut
  <1> QED BY <1>4, <1>5

LEMMA SameLinked ==
  ASSUME NEW rows, NEW others, SameBut(rows, others), NEW sweeps, Linked(rows, sweeps)
  PROVE  Linked(others, sweeps)
  BY DEF SameBut, Linked, Chained

LEMMA SameLast ==
  ASSUME NEW rows, NEW others, SameBut(rows, others)
  PROVE  LastPos(rows) = LastPos(others)
  <1>1. {r.pos : r \in rows} = {r.pos : r \in others}
    BY DEF SameBut
  <1> QED BY <1>1 DEF LastPos

LEMMA SameSweep ==
  ASSUME NEW rows, NEW others, SameBut(rows, others), NEW q, NEW time, SweepOk(q, rows, time)
  PROVE  SweepOk(q, others, time)
  BY DEF SameBut, SweepOk

LEMMA SameExport ==
  ASSUME NEW rows, NEW others, SameBut(rows, others), NEW e, NEW last, ExportOk(e, rows, last)
  PROVE  ExportOk(e, others, last)
  BY DEF SameBut, ExportOk, Newer

-----------------------------------------------------------------------------
(* Pages: what is left is behind the last row of a full page, and a short   *)
(* page leaves nothing.                                                    *)

LEMMA PageAndRest ==
  ASSUME NEW rows, NEW last, ChainOk(rows, last), NEW cursor
  PROVE  LET rest == BeforeCursor(rows, cursor)
             page == PageOf(rows, cursor)
         IN  /\ page \subseteq rest
             /\ \A r \in rest \ page : \A c \in Oldest(page) : Newer(c, r)
             /\ Cardinality(page) < Page => page = rest
  <1> DEFINE rest == BeforeCursor(rows, cursor)
             page == PageOf(rows, cursor)
             ahead(r) == {q \in rest : Newer(q, r)}
  <1>1. page = {r \in rest : Cardinality(ahead(r)) < Page}
    BY DEF PageOf
  <1>2. rest \subseteq rows /\ IsFiniteSet(rest)
    <2>1. rest \subseteq rows
      BY DEF BeforeCursor
    <2> QED BY <2>1, FS_Subset DEF ChainOk
  <1> HIDE DEF rest, page
  <1>3. \A r \in rest : IsFiniteSet(ahead(r)) /\ Cardinality(ahead(r)) \in Nat
    BY <1>2, FS_Subset, FS_CardinalityType
  <1>4. \A r \in rest : r.pos \in Int /\ r.stamp \in Int
    BY <1>2, AuditAssumption DEF ChainOk, Rows
  <1>5. \A r, q \in rest : r # q => r.pos # q.pos
    BY <1>2 DEF ChainOk
  <1>6. ASSUME NEW q \in rest, NEW r \in rest, Newer(q, r)
        PROVE  ahead(q) \subseteq ahead(r) /\ q \in ahead(r) /\ q \notin ahead(q)
    BY <1>4, <1>6 DEF Newer
  <1>7. ASSUME NEW r \in rest \ page, NEW c \in page PROVE Newer(c, r)
    <2>1. SUFFICES ASSUME ~ Newer(c, r) PROVE FALSE
      OBVIOUS
    <2>2. c \in rest /\ r # c
      BY <1>1
    <2>3. Newer(r, c)
      BY <2>1, <2>2, <1>4, <1>5 DEF Newer
    <2>4. ahead(r) \subseteq ahead(c)
      BY <2>2, <2>3, <1>6
    <2>5. Cardinality(ahead(r)) =< Cardinality(ahead(c))
      BY <2>2, <2>4, <1>3, FS_Subset
    <2>6. Cardinality(ahead(c)) < Page /\ ~ (Cardinality(ahead(r)) < Page)
      BY <1>1
    <2>7. r \in rest
      OBVIOUS
    <2> HIDE DEF ahead
    <2> QED BY <2>2, <2>5, <2>6, <2>7, <1>3, AuditAssumption
  <1>8. ASSUME Cardinality(page) < Page PROVE page = rest
    <2>1. SUFFICES ASSUME rest \ page # {} PROVE FALSE
      BY <1>1
    <2> DEFINE sizes == {Cardinality(ahead(r)) : r \in rest \ page}
    <2>2. sizes \subseteq Nat /\ sizes # {}
      BY <2>1, <1>3
    <2>3. PICK r \in rest \ page : \A q \in rest \ page : Cardinality(ahead(r)) =< Cardinality(ahead(q))
      <3>1. PICK n \in sizes : \A k \in sizes : n =< k
        BY <2>2, MinExists
      <3> QED BY <3>1
    <2>4. ASSUME NEW q \in ahead(r) PROVE q \in page
      <3>1. SUFFICES ASSUME q \in rest \ page PROVE FALSE
        BY <2>4
      <3>2. ahead(q) \in SUBSET ahead(r) /\ ahead(q) # ahead(r)
        BY <1>6, <2>4
      <3>3. Cardinality(ahead(q)) < Cardinality(ahead(r))
        <4>1. q \in rest /\ r \in rest
          BY <3>1
        <4>2. /\ Cardinality(ahead(q)) =< Cardinality(ahead(r))
              /\ Cardinality(ahead(r)) = Cardinality(ahead(q)) => ahead(r) = ahead(q)
          BY <3>2, <4>1, <1>3, FS_Subset
        <4> HIDE DEF ahead
        <4> QED BY <3>2, <4>1, <4>2, <1>3
      <3>4. Cardinality(ahead(r)) =< Cardinality(ahead(q))
        BY <2>3, <3>1
      <3>5. q \in rest
        BY <3>1
      <3> HIDE DEF ahead
      <3> QED BY <3>4, <3>3, <3>5, <1>3
    <2>5. IsFiniteSet(page) /\ Cardinality(page) \in Nat
      BY <1>1, <1>2, FS_Subset, FS_CardinalityType
    <2>6. Cardinality(ahead(r)) =< Cardinality(page)
      BY <2>4, <2>5, FS_Subset
    <2>7. Cardinality(ahead(r)) < Page
      BY <2>5, <2>6, <1>3, <1>8, AuditAssumption
    <2> QED BY <2>7, <1>1
  <1>9. page \subseteq rest /\ \A c \in Oldest(page) : c \in page
    BY <1>1 DEF Oldest
  <1> QED BY <1>7, <1>8, <1>9 DEF rest, page

LEMMA PageExport ==
  ASSUME NEW rows, NEW last, ChainOk(rows, last), NEW e, ExportOk(e, rows, last), e.pc = "page"
  PROVE  LET page == PageOf(rows, e.cursor)
             left == e.owed \ {r.pos : r \in page}
         IN  /\ ExportOk([pc |-> "page", cursor |-> Oldest(page), owed |-> left], rows, last)
             /\ Cardinality(page) < Page =>
                  ExportOk([pc |-> "done", cursor |-> {}, owed |-> left], rows, last)
  <1> DEFINE rest == BeforeCursor(rows, e.cursor)
             page == PageOf(rows, e.cursor)
             left == e.owed \ {r.pos : r \in page}
  <1>1. /\ page \subseteq rest
        /\ \A r \in rest \ page : \A c \in Oldest(page) : Newer(c, r)
        /\ Cardinality(page) < Page => page = rest
    BY PageAndRest
  <1>2. \A r \in rows : r.pos \in e.owed => r \in rest
    BY DEF ExportOk, BeforeCursor
  <1>3. \A r \in rows : r.pos \in left => r \in rest \ page
    <2>1. \A r \in page : r.pos \notin left
      OBVIOUS
    <2>2. left \subseteq e.owed
      OBVIOUS
    <2> HIDE DEF rest, page, left
    <2> QED BY <1>2, <2>1, <2>2
  <1>4. \A p \in left : p =< last
    BY DEF ExportOk
  <1> HIDE DEF rest, page, left
  <1>5. ExportOk([pc |-> "page", cursor |-> Oldest(page), owed |-> left], rows, last)
    BY <1>1, <1>3, <1>4 DEF ExportOk
  <1>6. Cardinality(page) < Page => ExportOk([pc |-> "done", cursor |-> {}, owed |-> left], rows, last)
    BY <1>1, <1>3, <1>4 DEF ExportOk
  <1> QED BY <1>5, <1>6 DEF page, left

-----------------------------------------------------------------------------
(* The invariant is inductive.                                             *)

WriterState == [pc : {"idle", "locked"}, prev : 0..MaxPos]
ExportState == [pc : {"idle", "page", "done"}, cursor : SUBSET Rows, owed : SUBSET (1..MaxPos)]

LEMMA Types ==
  ASSUME IInv
  PROVE  /\ writer \in [Writers -> WriterState]
         /\ sweep \in [Sweepers -> SweepState]
         /\ export \in [Exporters -> ExportState]
         /\ now \in 0..MaxTime /\ position \in 1..MaxPos /\ trail \subseteq Rows
         /\ MaxPos \in Nat /\ MaxTime \in Nat /\ Window \in Nat /\ Skew \in Nat
         /\ \A s \in Sweepers : sweep[s].keep \in Int /\ sweep[s].cutoff \in Int
         /\ \A x \in Exporters : export[x].owed \subseteq 1..MaxPos
  <1>1. /\ MaxPos \in Nat /\ MaxTime \in Nat /\ Window \in Nat /\ Skew \in Nat
        /\ now \in 0..MaxTime /\ position \in 1..MaxPos /\ trail \subseteq Rows
        /\ writer \in [Writers -> WriterState]
        /\ sweep \in [Sweepers -> SweepState]
        /\ export \in [Exporters -> ExportState]
    BY AuditAssumption DEF IInv, AuditTypeOK, ChainOk, WriterState, SweepState, ExportState
  <1>2. \A s \in Sweepers : sweep[s].keep \in Int /\ sweep[s].cutoff \in Int
    BY <1>1 DEF SweepState
  <1>3. \A x \in Exporters : export[x].owed \subseteq 1..MaxPos
    BY <1>1 DEF ExportState
  <1> QED BY <1>1, <1>2, <1>3

LEMMA TypedAgain ==
  ASSUME ChainOk(trail, position)', now' \in 0..MaxTime,
         (writer \in [Writers -> WriterState])',
         (sweep \in [Sweepers -> SweepState])',
         (export \in [Exporters -> ExportState])'
  PROVE  AuditTypeOK'
  BY AuditAssumption DEF AuditTypeOK, ChainOk, WriterState, SweepState, ExportState

LEMMA AppendStep ==
  ASSUME IInv, position < MaxPos, NEW stamp \in (now - Skew)..now,
         trail' = trail \cup {NewRow(LastPos(trail), stamp)}, position' = position + 1
  PROVE  /\ ChainOk(trail, position)'
         /\ Linked(trail', sweep)
         /\ \A s \in Sweepers : SweepOk(sweep[s], trail', now)
         /\ \A x \in Exporters : ExportOk(export[x], trail', position')
  <1>1. AppendedTo(trail, position, NewRow(LastPos(trail), stamp))
    BY NewRowAppends DEF IInv
  <1>2. ChainOk(trail, position)'
    BY <1>1, AppendChain DEF IInv
  <1>3. Linked(trail', sweep)
    BY <1>1, AppendLinked DEF IInv
  <1>4. \A s \in Sweepers : SweepOk(sweep[s], trail', now)
    BY <1>1, AppendSweep, Types DEF IInv
  <1>5. \A x \in Exporters : ExportOk(export[x], trail', position')
    BY <1>1, AppendExport, Types DEF IInv
  <1> QED BY <1>2, <1>3, <1>4, <1>5

LEMMA LaterPosition ==
  ASSUME IInv, position < MaxPos
  PROVE  /\ ChainOk(trail, position + 1)
         /\ \A x \in Exporters : ExportOk(export[x], trail, position + 1)
  <1>1. \A r \in trail : r.pos \in Int
    BY Types DEF Rows
  <1>2. ChainOk(trail, position + 1)
    BY <1>1, Types DEF IInv, ChainOk
  <1>3. ASSUME NEW x \in Exporters PROVE ExportOk(export[x], trail, position + 1)
    <2>1. \A p \in export[x].owed : p \in Int
      BY Types
    <2> QED BY <2>1, Types DEF IInv, ExportOk
  <1> QED BY <1>2, <1>3

LEMMA InitIInv == AuditInit => IInv
  <1> SUFFICES ASSUME AuditInit PROVE IInv
    OBVIOUS
  <1>1. PICK n \in SubMicros :
          trail = {[pos |-> 1, prev |-> 0, stamp |-> 0, ns |-> n, hint |-> Unknown]}
    BY DEF AuditInit
  <1> DEFINE first == [pos |-> 1, prev |-> 0, stamp |-> 0, ns |-> n, hint |-> Unknown]
  <1>2. /\ MaxPos \in Nat \ {0} /\ MaxTime \in Nat /\ Window \in Nat /\ Skew \in Nat
        /\ first \in Rows /\ HashMatches(first)
    BY AuditAssumption DEF Rows, HashMatches
  <1>3. first.pos = 1 /\ first.prev = 0 /\ trail = {first}
    BY <1>1
  <1> HIDE DEF first
  <1>4. ChainOk(trail, position)
    <2>1. IsFiniteSet(trail)
      BY <1>3, FS_Singleton
    <2>2. \A r \in trail : r = first
      BY <1>3
    <2>3. position = 1 /\ trail # {} /\ trail \subseteq Rows
      BY <1>2, <1>3 DEF AuditInit
    <2> QED BY <1>2, <1>3, <2>1, <2>2, <2>3 DEF ChainOk
  <1>5. Linked(trail, sweep)
    BY <1>3 DEF Linked, Chained
  <1>6. /\ \A w \in Writers : writer[w].pc = "idle"
        /\ \A s \in Sweepers : sweep[s].pc = "idle"
        /\ \A x \in Exporters : export[x].pc = "idle" /\ export[x].owed = {}
    BY DEF AuditInit, NotSweeping, NotExporting
  <1>7. LockOk(writer, trail)
    BY <1>6 DEF LockOk
  <1>8. \A s \in Sweepers : SweepOk(sweep[s], trail, now)
    BY <1>6 DEF SweepOk, Sweeping
  <1>9. \A x \in Exporters : ExportOk(export[x], trail, position)
    BY <1>6 DEF ExportOk
  <1>10. AuditTypeOK
    <2>1. NotSweeping \in SweepState /\ NotExporting \in ExportState
      BY <1>2 DEF NotSweeping, SweepState, NotExporting, ExportState
    <2>2. sweep \in [Sweepers -> SweepState] /\ export \in [Exporters -> ExportState]
      BY <2>1 DEF AuditInit
    <2>3. writer \in [Writers -> WriterState]
      BY <1>2 DEF AuditInit, WriterState
    <2> QED BY <1>2, <1>4, <2>2, <2>3
         DEF AuditInit, AuditTypeOK, ChainOk, WriterState, SweepState, ExportState
  <1> QED BY <1>4, <1>5, <1>7, <1>8, <1>9, <1>10 DEF IInv

LEMMA LockStep ==
  ASSUME IInv, NEW w \in Writers, LockAndRead(w)
  PROVE  IInv'
  <1>1. /\ UNCHANGED <<trail, position, now, sweep, export>>
        /\ writer' = [writer EXCEPT ![w] = [pc |-> "locked", prev |-> LastPos(trail)]]
        /\ \A v \in Writers : writer[v].pc = "idle"
    BY DEF LockAndRead, AppendLockFree
  <1>2. LastPos(trail) \in 0..MaxPos
    BY Types, LastOf
  <1>3. writer' \in [Writers -> WriterState]
    BY <1>1, <1>2, Types DEF WriterState
  <1>4. LockOk(writer', trail)
    BY <1>1, Types DEF LockOk
  <1>5. AuditTypeOK'
    BY <1>1, <1>3, Types, TypedAgain DEF IInv
  <1> QED BY <1>1, <1>4, <1>5 DEF IInv

LEMMA InsertStep ==
  ASSUME IInv, NEW w \in Writers, Insert(w)
  PROVE  IInv'
  <1>1. PICK stamp \in (now - Skew)..now : trail' = trail \cup {NewRow(writer[w].prev, stamp)}
    BY DEF Insert
  <1>2. /\ writer[w].pc = "locked" /\ position < MaxPos /\ position' = position + 1
        /\ writer' = [writer EXCEPT ![w].pc = "idle"] /\ UNCHANGED <<now, sweep, export>>
    BY DEF Insert
  <1>3. writer[w].prev = LastPos(trail)
    BY <1>2 DEF IInv, LockOk
  <1>4. /\ ChainOk(trail, position)'
        /\ Linked(trail', sweep)
        /\ \A s \in Sweepers : SweepOk(sweep[s], trail', now)
        /\ \A x \in Exporters : ExportOk(export[x], trail', position')
    BY <1>1, <1>2, <1>3, AppendStep
  <1>5. writer' \in [Writers -> WriterState]
    BY <1>2, Types DEF WriterState
  <1>6. \A v \in Writers : writer'[v].pc # "locked"
    BY <1>2, Types DEF IInv, LockOk
  <1>7. LockOk(writer', trail')
    BY <1>6 DEF LockOk
  <1>8. AuditTypeOK'
    BY <1>2, <1>4, <1>5, Types, TypedAgain
  <1> QED BY <1>2, <1>4, <1>7, <1>8 DEF IInv

LEMMA RollBackStep ==
  ASSUME IInv, NEW w \in Writers, RollBack(w)
  PROVE  IInv'
  <1>1. /\ writer[w].pc = "locked" /\ position < MaxPos /\ position' = position + 1
        /\ writer' = [writer EXCEPT ![w].pc = "idle"] /\ UNCHANGED <<trail, now, sweep, export>>
    BY DEF RollBack
  <1>2. ChainOk(trail, position)' /\ \A x \in Exporters : ExportOk(export[x], trail, position')
    BY <1>1, LaterPosition
  <1>3. writer' \in [Writers -> WriterState]
    BY <1>1, Types DEF WriterState
  <1>4. \A v \in Writers : writer'[v].pc # "locked"
    BY <1>1, Types DEF IInv, LockOk
  <1>5. LockOk(writer', trail)
    BY <1>4 DEF LockOk
  <1>6. AuditTypeOK'
    BY <1>1, <1>2, <1>3, Types, TypedAgain
  <1> QED BY <1>1, <1>2, <1>5, <1>6 DEF IInv

LEMMA TickStep ==
  ASSUME IInv, Tick
  PROVE  IInv'
  <1>1. now < MaxTime /\ now' = now + 1 /\ UNCHANGED <<trail, position, writer, sweep, export>>
    BY DEF Tick
  <1>2. ASSUME NEW s \in Sweepers PROVE SweepOk(sweep[s], trail, now')
    BY <1>1, Types DEF IInv, SweepOk
  <1>3. now' \in 0..MaxTime
    BY <1>1, Types
  <1>4. AuditTypeOK'
    BY <1>1, <1>3, Types, TypedAgain DEF IInv
  <1> QED BY <1>1, <1>2, <1>4 DEF IInv

LEMMA VerifyStep ==
  ASSUME IInv, Verify
  PROVE  IInv'
  <1>1. trail' = {VerifiedRow(r, trail) : r \in trail} /\ UNCHANGED <<position, now, writer, sweep, export>>
    BY DEF Verify, VerifiedRow
  <1>2. ChainOk(trail, position)' /\ SameBut(trail, trail')
    BY <1>1, VerifyChain DEF IInv
  <1>3. /\ Linked(trail', sweep)
        /\ \A s \in Sweepers : SweepOk(sweep[s], trail', now)
        /\ \A x \in Exporters : ExportOk(export[x], trail', position)
    BY <1>2, SameLinked, SameSweep, SameExport DEF IInv
  <1>4. LockOk(writer, trail')
    BY <1>2, SameLast DEF IInv, LockOk
  <1>5. AuditTypeOK'
    BY <1>1, <1>2, Types, TypedAgain
  <1> QED BY <1>1, <1>2, <1>3, <1>4, <1>5 DEF IInv

(* A boundary drawn later is never below one drawn earlier. *)
LEMMA StartStep ==
  ASSUME IInv, NEW s \in Sweepers, RetentionStarts(s)
  PROVE  IInv'
  <1> DEFINE keep == KeepBoundary(trail, now - Window)
             begun == [pc |-> "delete", keep |-> keep, cutoff |-> now - Window]
  <1>1. /\ Kept(trail, now - Window) # {} /\ UNCHANGED <<trail, position, now, writer, export>>
        /\ sweep' = [sweep EXCEPT ![s] = begun]
    BY DEF RetentionStarts
  <1>2. \A r \in trail : r.pos \in 1..MaxPos /\ r.stamp \in Int /\ r.prev \in Int
    BY Types DEF Rows
  <1>3. /\ \E r \in trail : r.pos = keep /\ r.stamp >= now - Window
        /\ \A r \in trail : r.stamp >= now - Window => keep =< r.pos
    <2>1. Kept(trail, now - Window) \subseteq Nat
      BY <1>2, Types DEF Kept
    <2>2. keep = Min(Kept(trail, now - Window))
      BY <1>1 DEF KeepBoundary
    <2>3. /\ keep \in Kept(trail, now - Window)
          /\ \A p \in Kept(trail, now - Window) : keep =< p
      BY <1>1, <2>1, <2>2, MinOf
    <2> HIDE DEF keep
    <2> QED BY <2>3 DEF Kept
  <1> HIDE DEF keep
  <1>4. keep \in 1..MaxPos
    BY <1>2, <1>3
  <1>5. begun \in SweepState
    BY <1>4, Types DEF SweepState
  <1>6. begun.pc = "delete" /\ begun.keep = keep /\ begun.cutoff = now - Window
    OBVIOUS
  <1> HIDE DEF begun
  <1>7. sweep' \in [Sweepers -> SweepState]
    BY <1>1, <1>5, Types
  <1>8. sweep'[s] = begun /\ \A d \in Sweepers : d # s => sweep'[d] = sweep[d]
    BY <1>1, Types
  <1>9. SweepOk(begun, trail, now)
    <2>1. \A r \in trail : r.pos < keep => r.stamp < now - Window
      BY <1>2, <1>3, <1>4, Types
    <2>2. \E r \in trail : r.pos >= keep
      BY <1>3, <1>4
    <2>3. now - Window =< now - Window
      BY Types
    <2> QED BY <1>6, <2>1, <2>2, <2>3 DEF SweepOk
  <1>10. ASSUME sweep[s].pc \in Sweeping PROVE sweep[s].keep =< keep
    <2>1. PICK r \in trail : r.pos = keep /\ r.stamp >= now - Window
      BY <1>3
    <2>2. /\ r.pos < sweep[s].keep => r.stamp < sweep[s].cutoff
          /\ sweep[s].cutoff =< now - Window
      BY <1>10 DEF IInv, SweepOk
    <2> QED BY <2>1, <2>2, <1>2, <1>4, Types
  <1>11. Linked(trail, sweep')
    <2>1. SUFFICES ASSUME NEW r \in trail, NEW d \in Sweepers,
                          sweep[d].pc \in Sweeping, r.prev < sweep[d].keep
                   PROVE  sweep'[d].pc \in Sweeping /\ r.prev < sweep'[d].keep
      BY DEF IInv, Linked
    <2>2. CASE d # s
      BY <2>1, <2>2, <1>8
    <2>3. CASE d = s
      BY <2>1, <2>3, <1>2, <1>4, <1>6, <1>8, <1>10, Types DEF Sweeping
    <2> QED BY <2>2, <2>3
  <1>12. AuditTypeOK'
    BY <1>1, <1>7, Types, TypedAgain DEF IInv
  <1> QED BY <1>1, <1>8, <1>9, <1>11, <1>12 DEF IInv

LEMMA DeleteStep ==
  ASSUME IInv, NEW s \in Sweepers, DeleteBatch(s)
  PROVE  IInv'
  <1>1. PICK gone \in SUBSET Expired(s) :
          /\ Cardinality(gone) = Min({Batch, Cardinality(Expired(s))})
          /\ trail' = trail \ gone
          /\ Cardinality(gone) < Batch => sweep' = [sweep EXCEPT ![s].pc = "record"]
          /\ Cardinality(gone) = Batch => UNCHANGED sweep
    BY DEF DeleteBatch
  <1>2. sweep[s].pc = "delete" /\ UNCHANGED <<position, now, writer, export>>
    BY DEF DeleteBatch
  <1>3. gone \in SUBSET trail /\ \A r \in gone : r.pos < sweep[s].keep
    BY DEF Expired
  <1>4. PICK r0 \in trail : r0.pos >= sweep[s].keep
    BY <1>2 DEF IInv, SweepOk, Sweeping
  <1>5. \A r \in gone : r.pos < r0.pos
    BY <1>3, <1>4, Types DEF Rows
  <1>6. ChainOk(trail', position) /\ LastPos(trail') = LastPos(trail)
    BY <1>1, <1>3, <1>5, DeleteChain DEF IInv
  <1>7. trail' # {}
    BY <1>6 DEF ChainOk
  <1>8. /\ \A d \in Sweepers : SweepOk(sweep[d], trail', now)
        /\ \A x \in Exporters : ExportOk(export[x], trail', position)
    BY <1>1, <1>6, <1>7, Types, DeleteSweep, DeleteExport DEF IInv
  <1>9. LockOk(writer, trail')
    BY <1>6 DEF IInv, LockOk
  <1>10. IsFiniteSet(Expired(s)) /\ Cardinality(Expired(s)) \in Nat
    <2>1. Expired(s) \in SUBSET trail
      BY DEF Expired
    <2> QED BY <2>1, FS_Subset, FS_CardinalityType DEF IInv, ChainOk
  <1>11. CASE Cardinality(gone) = Batch
    <2>1. sweep' = sweep
      BY <1>1, <1>11
    <2>2. Linked(trail', sweep)
      BY <1>1, <1>2, <1>3, Types, DeleteLinked DEF IInv
    <2>3. AuditTypeOK'
      BY <1>2, <1>6, <2>1, Types, TypedAgain
    <2> QED BY <1>2, <1>6, <1>8, <1>9, <2>1, <2>2, <2>3 DEF IInv
  <1>12. CASE Cardinality(gone) # Batch
    <2>1. Min({Batch, Cardinality(Expired(s))}) \in {Batch, Cardinality(Expired(s))}
          /\ Min({Batch, Cardinality(Expired(s))}) =< Batch
      BY <1>10, MinOf, AuditAssumption
    <2>2. Cardinality(gone) = Cardinality(Expired(s)) /\ Cardinality(gone) < Batch
      BY <1>1, <1>12, <2>1, <1>10, AuditAssumption
    <2>3. gone = Expired(s)
      BY <2>2, <1>10, FS_Subset
    <2>4. sweep' = [sweep EXCEPT ![s].pc = "record"]
      BY <1>1, <2>2
    <2>5. trail' = trail \ {r \in trail : r.pos < sweep[s].keep}
      BY <1>1, <2>3 DEF Expired
    <2>6. Linked(trail', sweep')
      BY <1>2, <2>4, <2>5, Types, DeleteLast DEF IInv
    <2>7. /\ sweep'[s].pc = "record" /\ sweep' \in [Sweepers -> SweepState]
          /\ \A d \in Sweepers : d # s => sweep'[d] = sweep[d]
      BY <2>4, Types DEF SweepState
    <2>8. \A d \in Sweepers : SweepOk(sweep'[d], trail', now)
      BY <2>7, <1>8 DEF SweepOk, Sweeping
    <2>9. AuditTypeOK'
      BY <1>2, <1>6, <2>7, Types, TypedAgain
    <2> QED BY <1>2, <1>6, <1>8, <1>9, <2>6, <2>8, <2>9 DEF IInv
  <1> QED BY <1>11, <1>12

LEMMA RecordStep ==
  ASSUME IInv, NEW s \in Sweepers, RecordRetention(s)
  PROVE  IInv'
  <1>1. /\ sweep[s].pc = "record" /\ AppendLockFree /\ position < MaxPos
        /\ position' = position + 1 /\ sweep' = [sweep EXCEPT ![s] = NotSweeping]
        /\ UNCHANGED <<now, writer, export>>
    BY DEF RecordRetention
  <1>2. PICK stamp \in (now - Skew)..now : trail' = trail \cup {NewRow(LastPos(trail), stamp)}
    BY DEF RecordRetention
  <1>3. /\ ChainOk(trail, position)'
        /\ Linked(trail', sweep)
        /\ \A d \in Sweepers : SweepOk(sweep[d], trail', now)
        /\ \A x \in Exporters : ExportOk(export[x], trail', position')
    BY <1>1, <1>2, AppendStep
  <1>4. NotSweeping \in SweepState /\ NotSweeping.pc = "idle"
    BY Types DEF NotSweeping, SweepState
  <1>5. /\ sweep' \in [Sweepers -> SweepState] /\ sweep'[s] = NotSweeping
        /\ \A d \in Sweepers : d # s => sweep'[d] = sweep[d]
    BY <1>1, <1>4, Types
  <1>6. Linked(trail', sweep')
    BY <1>1, <1>3, <1>5 DEF Linked, Sweeping
  <1>7. \A d \in Sweepers : SweepOk(sweep'[d], trail', now)
    BY <1>3, <1>4, <1>5 DEF SweepOk, Sweeping
  <1>8. LockOk(writer, trail')
    BY <1>1 DEF AppendLockFree, LockOk
  <1>9. AuditTypeOK'
    BY <1>1, <1>3, <1>5, Types, TypedAgain
  <1> QED BY <1>1, <1>3, <1>6, <1>7, <1>8, <1>9 DEF IInv

LEMMA CutStep ==
  ASSUME IInv, NEW s \in Sweepers, RetentionCut(s)
  PROVE  IInv'
  <1>1. /\ sweep[s].pc = "delete" /\ sweep' = [sweep EXCEPT ![s].pc = "cut"]
        /\ UNCHANGED <<trail, position, now, writer, export>>
    BY DEF RetentionCut
  <1>2. /\ sweep' \in [Sweepers -> SweepState]
        /\ sweep'[s].pc = "cut" /\ sweep'[s].keep = sweep[s].keep /\ sweep'[s].cutoff = sweep[s].cutoff
        /\ \A d \in Sweepers : d # s => sweep'[d] = sweep[d]
    BY <1>1, Types DEF SweepState
  <1>3. Linked(trail, sweep')
    BY <1>1, <1>2 DEF IInv, Linked, Sweeping
  <1>4. \A d \in Sweepers : SweepOk(sweep'[d], trail, now)
    BY <1>1, <1>2 DEF IInv, SweepOk, Sweeping
  <1>5. AuditTypeOK'
    BY <1>1, <1>2, Types, TypedAgain DEF IInv
  <1> QED BY <1>1, <1>3, <1>4, <1>5 DEF IInv

LEMMA ExportStartStep ==
  ASSUME IInv, NEW x \in Exporters, ExportStarts(x)
  PROVE  IInv'
  <1>1. AppendLockFree /\ position < MaxPos /\ position' = position + 1 /\ UNCHANGED <<now, writer, sweep>>
    BY DEF ExportStarts
  <1>2. PICK stamp \in (now - Skew)..now :
          LET row == NewRow(LastPos(trail), stamp)
          IN  /\ trail' = trail \cup {row}
              /\ export' = [export EXCEPT ![x] =
                   [pc |-> "page", cursor |-> {}, owed |-> {r.pos : r \in trail \cup {row}}]]
    BY DEF ExportStarts
  <1>3. trail' = trail \cup {NewRow(LastPos(trail), stamp)}
    BY <1>2
  <1> DEFINE begun == [pc |-> "page", cursor |-> {}, owed |-> {r.pos : r \in trail'}]
  <1>4. export' = [export EXCEPT ![x] = begun]
    BY <1>2, <1>3
  <1>5. /\ ChainOk(trail, position)'
        /\ Linked(trail', sweep)
        /\ \A d \in Sweepers : SweepOk(sweep[d], trail', now)
        /\ \A y \in Exporters : ExportOk(export[y], trail', position')
    BY <1>1, <1>3, AppendStep
  <1>6. ExportOk(begun, trail', position') /\ begun \in ExportState
    BY <1>5, Types DEF ChainOk, ExportOk, ExportState, Rows
  <1> HIDE DEF begun
  <1>7. /\ export' \in [Exporters -> ExportState] /\ export'[x] = begun
        /\ \A y \in Exporters : y # x => export'[y] = export[y]
    BY <1>4, <1>6, Types
  <1>8. \A y \in Exporters : ExportOk(export'[y], trail', position')
    BY <1>5, <1>6, <1>7
  <1>9. LockOk(writer, trail')
    BY <1>1 DEF AppendLockFree, LockOk
  <1>10. AuditTypeOK'
    BY <1>1, <1>5, <1>7, Types, TypedAgain
  <1> QED BY <1>1, <1>5, <1>8, <1>9, <1>10 DEF IInv

LEMMA ExportPageStep ==
  ASSUME IInv, NEW x \in Exporters, ExportPage(x)
  PROVE  IInv'
  <1> DEFINE page == PageOf(trail, export[x].cursor)
             left == export[x].owed \ {r.pos : r \in page}
             next == [pc |-> "page", cursor |-> Oldest(page), owed |-> left]
             last == [pc |-> "done", cursor |-> {}, owed |-> left]
  <1>1. /\ export[x].pc = "page" /\ UNCHANGED <<trail, position, now, writer, sweep>>
        /\ export' = [export EXCEPT ![x] = IF Cardinality(page) < Page THEN last ELSE next]
    BY DEF ExportPage
  <1>2. ExportOk(next, trail, position) /\ (Cardinality(page) < Page => ExportOk(last, trail, position))
    BY <1>1, PageExport DEF IInv
  <1>3. next \in ExportState /\ last \in ExportState
    <2>1. left \subseteq 1..MaxPos
      BY Types
    <2>2. Oldest(page) \subseteq Rows
      BY Types DEF Oldest, PageOf, BeforeCursor
    <2> HIDE DEF left, page
    <2> QED BY <2>1, <2>2 DEF ExportState
  <1> HIDE DEF page, next, last
  <1>4. export' \in [Exporters -> ExportState]
    BY <1>1, <1>3, Types
  <1>5. ASSUME NEW y \in Exporters PROVE ExportOk(export'[y], trail, position)
    BY <1>1, <1>2, Types DEF IInv
  <1>6. AuditTypeOK'
    BY <1>1, <1>4, Types, TypedAgain DEF IInv
  <1> QED BY <1>1, <1>5, <1>6 DEF IInv

LEMMA ExportAbortStep ==
  ASSUME IInv, NEW x \in Exporters, ExportAborts(x)
  PROVE  IInv'
  <1>1. /\ UNCHANGED <<trail, position, now, writer, sweep>>
        /\ export' = [export EXCEPT ![x] = NotExporting]
    BY DEF ExportAborts
  <1>2. NotExporting \in ExportState /\ ExportOk(NotExporting, trail, position)
    BY DEF NotExporting, ExportState, ExportOk
  <1>3. export' \in [Exporters -> ExportState]
    BY <1>1, <1>2, Types
  <1>4. \A y \in Exporters : ExportOk(export'[y], trail, position)
    BY <1>1, <1>2, Types DEF IInv
  <1>5. AuditTypeOK'
    BY <1>1, <1>3, Types, TypedAgain DEF IInv
  <1> QED BY <1>1, <1>4, <1>5 DEF IInv

LEMMA NextIInv == IInv /\ [AuditNext]_auditVars => IInv'
  <1> SUFFICES ASSUME IInv, [AuditNext]_auditVars PROVE IInv'
    OBVIOUS
  <1>1. CASE UNCHANGED auditVars
    BY <1>1 DEF auditVars, IInv, AuditTypeOK, LockOk
  <1>2. CASE \E w \in Writers : LockAndRead(w) \/ Insert(w) \/ RollBack(w)
    BY <1>2, LockStep, InsertStep, RollBackStep
  <1>3. CASE Tick \/ Verify
    BY <1>3, TickStep, VerifyStep
  <1>4. CASE \E s \in Sweepers : \/ RetentionStarts(s) \/ DeleteBatch(s)
                                 \/ RecordRetention(s) \/ RetentionCut(s)
    BY <1>4, StartStep, DeleteStep, RecordStep, CutStep
  <1>5. CASE \E x \in Exporters : ExportStarts(x) \/ ExportPage(x) \/ ExportAborts(x)
    BY <1>5, ExportStartStep, ExportPageStep, ExportAbortStep
  <1> QED BY <1>1, <1>2, <1>3, <1>4, <1>5 DEF AuditNext

LEMMA Inductive == AuditSpec => []IInv
  BY InitIInv, NextIInv, PTL DEF AuditSpec

-----------------------------------------------------------------------------
(* What the audit log promises.                                            *)

(* ChainVerifies: a verification that runs while no retention is under way  *)
(* or was cut short accepts the log.                                       *)
THEOREM ChainVerifiesAlways == AuditSpec => []ChainVerifies
  <1>1. IInv => ChainVerifies
    <2>1. SUFFICES ASSUME IInv, \A s \in Sweepers : sweep[s].pc \in {"idle", "record"},
                          NEW r \in trail
                   PROVE  HashMatches(r) /\ Links(r, trail)
      BY DEF IInv, ChainVerifies, Verifies
    <2>2. Chained(r, trail)
      BY <2>1 DEF IInv, Linked, Sweeping
    <2> QED BY <2>1, <2>2, ChainedLinks DEF IInv, ChainOk
  <1> QED BY <1>1, Inductive, PTL

(* RetentionKeepsRecent: a row that goes was outside the window of a sweep.  *)
THEOREM RetentionKeepsRecentAlways == AuditSpec => RetentionKeepsRecent
  <1>1. ASSUME IInv, [AuditNext]_auditVars, NEW r \in trail, r \notin trail',
               ~ \E t \in trail' : t.pos = r.pos
        PROVE  \E s \in Sweepers : r.stamp < sweep[s].cutoff
    <2>1. ~ UNCHANGED trail
      BY <1>1
    <2>2. \A row : trail' # trail \cup {row}
      BY <1>1
    <2>3. ~ Verify
      <3>1. SUFFICES ASSUME Verify PROVE FALSE
        OBVIOUS
      <3>2. trail' = {VerifiedRow(q, trail) : q \in trail}
        BY <3>1 DEF Verify, VerifiedRow
      <3>3. SameBut(trail, trail')
        BY <1>1, <3>2, VerifyChain DEF IInv
      <3> QED BY <1>1, <3>3 DEF SameBut
    <2>4. PICK s \in Sweepers : DeleteBatch(s)
      BY <1>1, <2>1, <2>2, <2>3
         DEF AuditNext, auditVars, LockAndRead, Insert, RollBack, Tick, RetentionStarts,
             RecordRetention, RetentionCut, ExportStarts, ExportPage, ExportAborts
    <2>5. sweep[s].pc = "delete" /\ r \in Expired(s)
      BY <1>1, <2>4 DEF DeleteBatch
    <2> QED BY <1>1, <2>5 DEF IInv, SweepOk, Sweeping, Expired
  <1>2. IInv /\ [AuditNext]_auditVars =>
          [\A r \in trail : r \notin trail' =>
             (\E t \in trail' : t.pos = r.pos) \/ (\E s \in Sweepers : r.stamp < sweep[s].cutoff)]_auditVars
    BY <1>1
  <1> QED BY <1>2, Inductive, PTL DEF AuditSpec, RetentionKeepsRecent

(* ExportComplete: a finished export misses no row that was there when it   *)
(* began and still is.                                                     *)
THEOREM ExportCompleteAlways == AuditSpec => []ExportComplete
  <1>1. IInv => ExportComplete
    BY DEF IInv, ExportOk, ExportComplete
  <1> QED BY <1>1, Inductive, PTL

-----------------------------------------------------------------------------
(* Settings: shapes.                                                        *)

Drafts ==
  [pc : {"away", "editing", "keys", "ready"}, seen : Documents \cup {Fresh}, at : Nat,
   asked : SUBSET Parts, want : Documents \cup {Fresh}, entered : SUBSET Providers, checked : Nat]
Startups ==
  [pc : {"down", "up", "due", "raise", "record"}, boots : Nat, todo : SUBSET Repairs,
   repair : SUBSET Repairs]

SettingsTyped ==
  /\ stored \in Documents /\ keyFor \in [Providers -> Urls \cup {NoUrl}]
  /\ marked \subseteq Repairs /\ rowLock \in Replicas \cup {NoReplica}
  /\ operator \in [Operators -> Drafts] /\ replica \in [Replicas -> Startups]
  /\ writes \in Nat /\ since \in [Parts -> Nat] /\ overlapped \in BOOLEAN

(* What a document owes to the reader of it. *)
NoneGone(doc) == \A p \in Providers : doc.providers[p].is # "gone"
KeysStored(doc) == \A p \in Providers : doc.providers[p].key => keyFor[p] # NoUrl
Sendable(doc) == doc \in Documents /\ NoneGone(doc) /\ ProvidersValid(doc) /\ KeysStored(doc)

(* Where doc differs from the row, somebody wrote after version at. *)
TellsApart(doc, parts, at) ==
  \A part \in parts : doc[part] # Normalized(stored)[part] => since[part] > at

(* A form: what it shows is what it read, up to later writes. *)
Shows(k) ==
  k.pc = "editing" =>
    k.seen \in Documents /\ NoneGone(k.seen) /\ KeysStored(k.seen) /\ TellsApart(k.seen, Parts, k.at)

(* A checked request is still good if nobody wrote since the check. *)
Bound(k) ==
  k.checked = writes => \A p \in Providers \ k.entered :
    k.want.providers[p].key => stored.providers[p].key /\ stored.providers[p].url = k.want.providers[p].url

Asks(k) ==
  k.pc \in {"keys", "ready"} =>
    /\ Sendable(k.want) /\ TellsApart(k.want, Parts \ k.asked, k.at) /\ Bound(k)
    /\ k.entered # {} => "providers" \in k.asked
    /\ \A p, q \in k.entered : p = q

(* Somebody has stored a key of p and will save the endpoint it is for. *)
EnteredBy(o, p) == operator[o].pc = "ready" /\ p \in operator[o].entered

(* The last one to store a key of p would save it with its endpoint. *)
Fitting(o) ==
  \A p \in Providers :
    EnteredBy(o, p) /\ operator[o].checked = writes =>
      \/ overlapped \/ keyFor[p] = operator[o].want.providers[p].url
      \/ \E q \in Operators \ {o} : EnteredBy(q, p)

Requests ==
  \A o \in Operators :
    /\ operator[o].at =< writes /\ operator[o].checked =< writes
    /\ Shows(operator[o]) /\ Asks(operator[o]) /\ Fitting(o)

(* A replica that raises a size holds the row, and the size is too small. *)
Raising ==
  \A w \in Replicas :
    /\ \A r, s \in replica[w].repair : r = s
    /\ rowLock = w <=> replica[w].pc = "raise"
    /\ replica[w].pc = "raise" => \A r \in replica[w].repair : stored.num_ctx[r] \in TooSmall[r]

SettingsIInv ==
  SettingsTyped /\ ProvidersResolve /\ KeysFitEndpoints /\ Requests /\ Raising
-----------------------------------------------------------------------------
(* Documents.                                                              *)

LEMMA NormalizedFits ==
  ASSUME NEW doc \in Documents
  PROVE  /\ Normalized(doc) \in Documents /\ NoneGone(Normalized(doc))
         /\ \A part \in Parts \ {"providers"} : Normalized(doc)[part] = doc[part]
         /\ Normalized(doc).uses = doc.uses
         /\ \A p \in Providers :
              /\ doc.providers[p].is # "gone" => Normalized(doc).providers[p] = doc.providers[p]
              /\ Normalized(doc).providers[p].key =>
                   doc.providers[p].key /\ Normalized(doc).providers[p].url = doc.providers[p].url
  <1> DEFINE ProviderRec == [is : ProviderStates, url : Urls, key : BOOLEAN]
             Preset(p) == [is |-> IF Presets[p] THEN "on" ELSE "off", url |-> PresetUrl, key |-> FALSE]
             listed == [p \in Providers |-> IF doc.providers[p].is = "gone" THEN Preset(p)
                                            ELSE doc.providers[p]]
  <1>1. Normalized(doc) = [doc EXCEPT !.providers = listed]
    BY DEF Normalized
  <1>2. \A p \in Providers : doc.providers[p] \in ProviderRec
    BY DEF Documents
  <1>3. \A p \in Providers : Preset(p) \in ProviderRec /\ Preset(p).is # "gone" /\ ~Preset(p).key
    BY SettingsAssumption DEF ProviderStates
  <1> HIDE DEF Preset
  <1>4. /\ listed \in [Providers -> ProviderRec]
        /\ \A p \in Providers : listed[p].is # "gone"
        /\ \A p \in Providers : doc.providers[p].is # "gone" => listed[p] = doc.providers[p]
        /\ \A p \in Providers : listed[p].key => listed[p] = doc.providers[p]
    BY <1>2, <1>3
  <1> HIDE DEF listed
  <1>5. /\ Normalized(doc) \in Documents /\ Normalized(doc).providers = listed
        /\ \A part \in Parts \ {"providers"} : Normalized(doc)[part] = doc[part]
        /\ Normalized(doc).uses = doc.uses
    BY <1>1, <1>4 DEF Documents, Parts
  <1> QED BY <1>4, <1>5 DEF NoneGone

(* A document that lists every provider is its own normal form. *)
LEMMA NormalizedSame ==
  ASSUME NEW doc \in Documents, NoneGone(doc)
  PROVE  Normalized(doc) = doc
  <1>1. Normalized(doc) \in Documents /\ doc.providers \in [Providers -> [is : ProviderStates, url : Urls, key : BOOLEAN]]
        /\ Normalized(doc).providers \in [Providers -> [is : ProviderStates, url : Urls, key : BOOLEAN]]
    BY NormalizedFits DEF Documents
  <1>2. \A p \in Providers : Normalized(doc).providers[p] = doc.providers[p]
    BY NormalizedFits DEF NoneGone
  <1>3. Normalized(doc).providers = doc.providers
    BY <1>1, <1>2
  <1>4. \A part \in Parts : Normalized(doc)[part] = doc[part]
    BY <1>3, NormalizedFits DEF Parts
  <1> QED BY <1>1, <1>4 DEF Documents, Parts

LEMMA PartOf ==
  ASSUME NEW doc \in Documents
  PROVE  doc["providers"] = doc.providers /\ doc["num_ctx"] = doc.num_ctx /\ doc["uses"] = doc.uses
  BY DEF Documents

(* What the form or a handler reads. *)
LEMMA ReadsSound ==
  ASSUME SettingsTyped, ProvidersResolve
  PROVE  Sendable(Normalized(stored)) /\ TellsApart(Normalized(stored), Parts, writes)
  BY NormalizedFits DEF SettingsTyped, ProvidersResolve, Sendable, KeysStored, TellsApart

LEMMA AwayFits ==
  ASSUME SettingsTyped
  PROVE  Away \in Drafts /\ Away.pc = "away" /\ Away.at = 0 /\ Away.checked = 0
         /\ Shows(Away) /\ Asks(Away)
  BY DEF Away, Drafts, Shows, Asks

-----------------------------------------------------------------------------
(* What a step leaves of a request it does not move.                       *)

LEMMA RequestStays ==
  ASSUME SettingsIInv, NEW o \in Operators, operator'[o] = operator[o],
         writes' \in Nat, writes =< writes', writes' = writes => stored' = stored,
         \A part \in Parts :
           \/ Normalized(stored)'[part] = Normalized(stored)[part] /\ since'[part] = since[part]
           \/ since'[part] > writes /\ since'[part] \in Nat,
         \A p \in Providers : keyFor[p] # NoUrl => keyFor'[p] # NoUrl
  PROVE  /\ operator'[o].at =< writes' /\ operator'[o].checked =< writes'
         /\ Shows(operator[o])' /\ Asks(operator[o])'
  <1> DEFINE k == operator[o]
  <1>1. k \in Drafts /\ k.at =< writes /\ k.checked =< writes /\ Shows(k) /\ Asks(k)
        /\ writes \in Nat /\ since \in [Parts -> Nat]
    BY DEF SettingsIInv, SettingsTyped, Requests
  <1>2. k.at \in Nat /\ k.checked \in Nat /\ k.at =< writes' /\ k.checked =< writes'
    BY <1>1 DEF Drafts
  <1>3. ASSUME NEW d, NEW parts \in SUBSET Parts, TellsApart(d, parts, k.at)
        PROVE  \A part \in parts : d[part] # Normalized(stored)'[part] => since'[part] > k.at
    <2> TAKE part \in parts
    <2>1. since'[part] > writes /\ since'[part] \in Nat => since'[part] > k.at
      BY <1>1, <1>2
    <2> QED BY <2>1, <1>3 DEF TellsApart
  <1>4. Shows(k)'
    <2>1. k.pc = "editing" => TellsApart(k.seen, Parts, k.at) /\ k.seen \in Documents
            /\ NoneGone(k.seen) /\ KeysStored(k.seen)
      BY <1>1 DEF Shows
    <2>2. k.pc = "editing" =>
            \A part \in Parts : k.seen[part] # Normalized(stored)'[part] => since'[part] > k.at
      BY <2>1, <1>3
    <2> QED BY <2>1, <2>2 DEF Shows, TellsApart, KeysStored, NoneGone
  <1>5. Asks(k)'
    <2> SUFFICES ASSUME k.pc \in {"keys", "ready"}
                 PROVE  Asks(k)'
      BY DEF Asks
    <2>1. Sendable(k.want) /\ TellsApart(k.want, Parts \ k.asked, k.at) /\ Bound(k)
          /\ (k.entered # {} => "providers" \in k.asked) /\ \A p, q \in k.entered : p = q
      BY <1>1 DEF Asks
    <2>2. \A part \in Parts \ k.asked : k.want[part] # Normalized(stored)'[part] => since'[part] > k.at
      BY <2>1, <1>3
    <2>3. Bound(k)'
      <3>1. k.checked = writes' => writes' = writes
        BY <1>1, <1>2
      <3> QED BY <2>1, <3>1 DEF Bound
    <2>4. Sendable(k.want)'
      BY <2>1 DEF Sendable, NoneGone, ProvidersValid, KeysStored
    <2> QED BY <2>1, <2>2, <2>3, <2>4 DEF Asks, TellsApart
  <1> QED BY <1>2, <1>4, <1>5

(* The endpoints still fit where no key and no provider of the row changes, *)
(* unless a save is cut off.                                                *)
LEMMA EndpointsStay ==
  ASSUME SettingsIInv, keyFor' = keyFor,
         \A p \in Providers : stored'.providers[p] = stored.providers[p],
         overlapped => overlapped',
         \A o \in Operators, p \in Providers : EnteredBy(o, p) => EnteredBy(o, p)' \/ overlapped',
         \A o \in Operators, p \in Providers :
           EnteredBy(o, p)' /\ operator'[o].checked = writes' =>
             /\ EnteredBy(o, p) /\ operator[o].checked = writes
             /\ operator'[o].want = operator[o].want
  PROVE  KeysFitEndpoints' /\ \A o \in Operators : Fitting(o)'
  <1>1. KeysFitEndpoints'
    <2>1. ASSUME NEW p \in Providers, ~overlapped', stored'.providers[p].key,
                 keyFor'[p] # stored'.providers[p].url
          PROVE  \E o \in Operators : EnteredBy(o, p)'
      <3>1. PICK o \in Operators : EnteredBy(o, p)
        BY <2>1 DEF SettingsIInv, KeysFitEndpoints, EnteredBy
      <3> QED BY <2>1, <3>1
    <2> QED BY <2>1 DEF KeysFitEndpoints, EnteredBy
  <1>2. ASSUME NEW o \in Operators, NEW p \in Providers, EnteredBy(o, p)',
               operator'[o].checked = writes', ~overlapped', keyFor'[p] # operator'[o].want.providers[p].url
        PROVE  \E q \in Operators \ {o} : EnteredBy(q, p)'
    <2>1. EnteredBy(o, p) /\ operator[o].checked = writes /\ operator'[o].want = operator[o].want
      BY <1>2
    <2>2. PICK q \in Operators \ {o} : EnteredBy(q, p)
      BY <1>2, <2>1 DEF SettingsIInv, Requests, Fitting
    <2> QED BY <1>2, <2>2
  <1>3. \A o \in Operators : Fitting(o)'
    BY <1>2 DEF Fitting
  <1> QED BY <1>1, <1>3

(* One request moves, and neither starts nor leaves the wait for a save. *)
LEMMA RequestMoves ==
  ASSUME SettingsIInv, NEW o \in Operators, NEW k \in Drafts,
         operator' = [operator EXCEPT ![o] = k],
         UNCHANGED <<stored, keyFor, marked, rowLock, replica, writes, since>>,
         overlapped' \in BOOLEAN, overlapped => overlapped',
         k.at =< writes, k.checked =< writes, Shows(k), Asks(k),
         k.pc = "ready" => k.entered = {},
         operator[o].pc = "ready" /\ operator[o].entered # {} => overlapped'
  PROVE  SettingsIInv'
  <1>1. operator \in [Operators -> Drafts] /\ writes \in Nat
    BY DEF SettingsIInv, SettingsTyped
  <1>2. operator'[o] = k /\ \A q \in Operators \ {o} : operator'[q] = operator[q]
    BY <1>1
  <1>3. SettingsTyped' /\ ProvidersResolve' /\ Raising'
    BY <1>1 DEF SettingsIInv, SettingsTyped, ProvidersResolve, Raising
  <1>4. \A q \in Operators, p \in Providers : EnteredBy(q, p) => EnteredBy(q, p)' \/ overlapped'
    BY <1>2 DEF EnteredBy
  <1>5. \A q \in Operators, p \in Providers :
          EnteredBy(q, p)' /\ operator'[q].checked = writes' =>
            /\ EnteredBy(q, p) /\ operator[q].checked = writes
            /\ operator'[q].want = operator[q].want
    BY <1>2 DEF EnteredBy
  <1>6. KeysFitEndpoints' /\ \A q \in Operators : Fitting(q)'
    BY <1>4, <1>5, EndpointsStay
  <1>7. ASSUME NEW q \in Operators
        PROVE  /\ operator'[q].at =< writes' /\ operator'[q].checked =< writes'
               /\ Shows(operator[q])' /\ Asks(operator[q])'
    <2>1. CASE q = o
      BY <1>2, <2>1 DEF Shows, Asks, TellsApart, KeysStored, NoneGone, Sendable, ProvidersValid, Bound
    <2>2. CASE q # o
      <3>1. operator'[q] = operator[q] /\ Normalized(stored)' = Normalized(stored)
        BY <1>2, <2>2
      <3> QED BY <1>1, <3>1, RequestStays
    <2> QED BY <2>1, <2>2
  <1> QED BY <1>3, <1>6, <1>7 DEF SettingsIInv, Requests

(* A replica moves, and no row changes but the markers. *)
LEMMA ReplicaMoves ==
  ASSUME SettingsIInv, UNCHANGED <<stored, keyFor, operator, writes, since, overlapped>>,
         replica' \in [Replicas -> Startups], rowLock' \in Replicas \cup {NoReplica},
         marked' \subseteq Repairs, Raising'
  PROVE  SettingsIInv'
  <1>1. SettingsTyped' /\ ProvidersResolve' /\ KeysFitEndpoints'
    BY DEF SettingsIInv, SettingsTyped, ProvidersResolve, KeysFitEndpoints
  <1>2. Requests'
    BY DEF SettingsIInv, Requests, Shows, Asks, Fitting, EnteredBy, TellsApart, KeysStored, NoneGone,
           Sendable, ProvidersValid, Bound
  <1> QED BY <1>1, <1>2 DEF SettingsIInv

-----------------------------------------------------------------------------
(* Steps of people.                                                        *)

LEMMA OpenFormKeeps ==
  ASSUME SettingsIInv, NEW o \in Operators, OpenForm(o)
  PROVE  SettingsIInv'
  <1> DEFINE k == Reading("editing")
  <1>1. Sendable(Normalized(stored)) /\ TellsApart(Normalized(stored), Parts, writes)
        /\ writes \in Nat
    BY ReadsSound DEF SettingsIInv, SettingsTyped
  <1>2. k \in Drafts /\ k.pc = "editing" /\ k.seen = Normalized(stored) /\ k.at = writes
        /\ k.checked = writes
    BY <1>1, AwayFits DEF SettingsIInv, Reading, Drafts, Sendable
  <1>3. operator' = [operator EXCEPT ![o] = k]
    BY DEF OpenForm
  <1> HIDE DEF k
  <1>4. Shows(k) /\ Asks(k)
    BY <1>1, <1>2 DEF Shows, Asks, Sendable
  <1>5. operator[o].pc = "away"
    BY DEF OpenForm
  <1>6. UNCHANGED <<stored, keyFor, marked, rowLock, replica, writes, since>>
        /\ overlapped' \in BOOLEAN /\ (overlapped => overlapped')
    BY DEF OpenForm, SettingsIInv, SettingsTyped
  <1>7. k.at =< writes /\ k.checked =< writes
    BY <1>1, <1>2
  <1>8. k.pc = "ready" => k.entered = {}
    BY <1>2
  <1>9. operator[o].pc = "ready" /\ operator[o].entered # {} => overlapped'
    BY <1>5
  <1>10. k \in Drafts
    BY <1>2
  <1> QED BY <1>10, <1>3, <1>4, <1>6, <1>7, <1>8, <1>9, RequestMoves

(* What an edit of a listed document gives. *)
LEMMA EditFits ==
  ASSUME NEW doc \in Documents, NEW edit \in Edits(doc)
  PROVE  /\ edit.doc \in Documents /\ edit.asked \subseteq Parts
         /\ \A part \in Parts \ edit.asked : edit.doc[part] = doc[part]
         /\ \A p \in Providers : edit.doc.providers[p].key = doc.providers[p].key
  <1> DEFINE Good(e) ==
        /\ e.doc \in Documents /\ e.asked \subseteq Parts
        /\ \A part \in Parts \ e.asked : e.doc[part] = doc[part]
        /\ \A p \in Providers : e.doc.providers[p].key = doc.providers[p].key
  <1>1. Good(Edit(doc, "paused", ~doc.paused))
    BY DEF Edit, Documents, Parts
  <1>2. \A ps \in (SUBSET Providers) \ {{}} : Good(Edit(doc, "uses", ps))
    BY DEF Edit, Documents, Parts
  <1>3. ASSUME NEW sizes \in [Repairs -> Nat]
        PROVE  Good(Edit(doc, "num_ctx", sizes))
    BY DEF Edit, Documents, Parts
  <1>4. ASSUME NEW rows \in [Providers -> [is : ProviderStates, url : Urls, key : BOOLEAN]],
               \A p \in Providers : rows[p].key = doc.providers[p].key
        PROVE  Good(Edit(doc, "providers", rows))
    BY <1>4 DEF Edit, Documents, Parts
  <1>5. ASSUME NEW r \in Repairs, NEW n \in Sizes
        PROVE  [doc.num_ctx EXCEPT ![r] = n] \in [Repairs -> Nat]
    BY SettingsAssumption DEF Documents
  <1>6. ASSUME NEW p \in Providers, NEW s \in ProviderStates
        PROVE  LET rows == [doc.providers EXCEPT ![p].is = s]
               IN /\ rows \in [Providers -> [is : ProviderStates, url : Urls, key : BOOLEAN]]
                  /\ \A q \in Providers : rows[q].key = doc.providers[q].key
    BY DEF Documents
  <1>7. ASSUME NEW p \in Providers, NEW u \in Urls
        PROVE  LET rows == [doc.providers EXCEPT ![p].url = u]
               IN /\ rows \in [Providers -> [is : ProviderStates, url : Urls, key : BOOLEAN]]
                  /\ \A q \in Providers : rows[q].key = doc.providers[q].key
    BY DEF Documents
  <1> HIDE DEF Good
  <1>8. Good(edit)
    <2>1. \/ edit = Edit(doc, "paused", ~doc.paused)
          \/ \E ps \in (SUBSET Providers) \ {{}} : edit = Edit(doc, "uses", ps)
          \/ \E r \in Repairs, n \in Sizes : edit = Edit(doc, "num_ctx", [doc.num_ctx EXCEPT ![r] = n])
          \/ \E p \in Providers, s \in ProviderStates :
               edit = Edit(doc, "providers", [doc.providers EXCEPT ![p].is = s])
          \/ \E p \in Providers, u \in Urls :
               edit = Edit(doc, "providers", [doc.providers EXCEPT ![p].url = u])
      <3> DEFINE Sized == {Edit(doc, "num_ctx", [doc.num_ctx EXCEPT ![r] = n]) : r \in Repairs, n \in Sizes}
                 Turned == {Edit(doc, "providers", [doc.providers EXCEPT ![p].is = s]) :
                              p \in Providers, s \in ProviderStates}
                 at(p, u) == Edit(doc, "providers", [doc.providers EXCEPT ![p].url = u])
                 Moved == {at(p, u) : p \in Providers, u \in Urls}
                 Used == {Edit(doc, "uses", ps) : ps \in (SUBSET Providers) \ {{}}}
      <3>1. Edits(doc) = {Edit(doc, "paused", ~doc.paused)} \cup Used \cup Sized \cup Turned \cup Moved
        BY DEF Edits
      <3>2. edit \in Sized =>
              \E r \in Repairs, n \in Sizes : edit = Edit(doc, "num_ctx", [doc.num_ctx EXCEPT ![r] = n])
        OBVIOUS
      <3>3. edit \in Turned => \E p \in Providers, s \in ProviderStates :
              edit = Edit(doc, "providers", [doc.providers EXCEPT ![p].is = s])
        OBVIOUS
      <3> HIDE DEF at
      <3>4. edit \in Moved => \E p \in Providers, u \in Urls : edit = at(p, u)
        OBVIOUS
      <3>5. edit \in Used => \E ps \in (SUBSET Providers) \ {{}} : edit = Edit(doc, "uses", ps)
        OBVIOUS
      <3> HIDE DEF Sized, Turned, Moved, Used
      <3> QED BY <3>1, <3>2, <3>3, <3>4, <3>5 DEF at
    <2>2. ASSUME NEW r \in Repairs, NEW n \in Sizes
          PROVE  Good(Edit(doc, "num_ctx", [doc.num_ctx EXCEPT ![r] = n]))
      BY <1>3, <1>5
    <2>3. ASSUME NEW p \in Providers, NEW s \in ProviderStates
          PROVE  Good(Edit(doc, "providers", [doc.providers EXCEPT ![p].is = s]))
      BY <1>4, <1>6
    <2>4. ASSUME NEW p \in Providers, NEW u \in Urls
          PROVE  Good(Edit(doc, "providers", [doc.providers EXCEPT ![p].url = u]))
      BY <1>4, <1>7
    <2> QED BY <1>1, <1>2, <2>1, <2>2, <2>3, <2>4
  <1> QED BY <1>8 DEF Good

LEMMA AtMostOne ==
  ASSUME NEW S \in SUBSET Providers, Cardinality(S) =< 1, NEW p \in S, NEW q \in S
  PROVE  p = q
  <1> SUFFICES ASSUME p # q
               PROVE  FALSE
    OBVIOUS
  <1>1. IsFiniteSet(S)
    BY SettingsAssumption, FS_Subset
  <1>2. IsFiniteSet({p, q}) /\ Cardinality({p, q}) =< Cardinality(S)
    BY <1>1, FS_Subset
  <1>3. IsFiniteSet({p}) /\ Cardinality({p}) = 1
    BY FS_Singleton
  <1>4. Cardinality({p} \cup {q}) = Cardinality({p}) + 1
    BY <1>3, FS_AddElement
  <1>5. {p, q} = {p} \cup {q} /\ Cardinality(S) \in Nat
    BY <1>1, FS_CardinalityType
  <1> QED BY <1>2, <1>3, <1>4, <1>5

LEMMA SubmitKeeps ==
  ASSUME SettingsIInv, NEW o \in Operators, Submit(o)
  PROVE  SettingsIInv'
  <1> DEFINE old == operator[o]
  <1>1. old \in Drafts /\ old.pc = "editing" /\ old.seen \in Documents /\ NoneGone(old.seen)
        /\ KeysStored(old.seen) /\ TellsApart(old.seen, Parts, old.at) /\ old.at =< writes
        /\ stored \in Documents /\ writes \in Nat
    BY DEF Submit, SettingsIInv, SettingsTyped, Requests, Shows
  <1>2. PICK edit \in Edits(old.seen), entered \in SUBSET Providers :
          LET want == Normalized(edit.doc)
          IN /\ Cardinality(entered) =< 1
             /\ ProvidersValid(want) /\ KeysBound(Normalized(stored), want, entered)
             /\ operator' = [operator EXCEPT ![o].pc = IF entered = {} THEN "ready" ELSE "keys",
                         ![o].asked = edit.asked
                                        \cup IF entered = {} THEN {} ELSE {"providers"},
                         ![o].want = want, ![o].entered = entered, ![o].checked = writes,
                         ![o].seen = Fresh]
    BY DEF Submit
  <1> DEFINE want == Normalized(edit.doc)
             pc == IF entered = {} THEN "ready" ELSE "keys"
             asked == edit.asked \cup IF entered = {} THEN {} ELSE {"providers"}
             k == [old EXCEPT !.pc = pc, !.asked = asked, !.want = want, !.entered = entered,
                              !.checked = writes, !.seen = Fresh]
  <1>3. /\ edit.doc \in Documents /\ edit.asked \subseteq Parts
        /\ \A part \in Parts \ edit.asked : edit.doc[part] = old.seen[part]
        /\ \A p \in Providers : edit.doc.providers[p].key = old.seen.providers[p].key
    BY <1>1, EditFits
  <1>4. want \in Documents /\ NoneGone(want) /\ ProvidersValid(want)
    BY <1>2, <1>3, NormalizedFits
  <1>5. \A part \in Parts \ edit.asked : want[part] = old.seen[part]
    <2>1. \A part \in Parts \ {"providers"} : want[part] = edit.doc[part]
      BY <1>3, NormalizedFits
    <2>2. ASSUME "providers" \notin edit.asked
          PROVE  want["providers"] = old.seen["providers"]
      <3>1. edit.doc.providers = old.seen.providers
        BY <1>1, <1>3, <2>2, PartOf DEF Parts
      <3>2. NoneGone(edit.doc)
        BY <1>1, <3>1 DEF NoneGone
      <3>3. want = edit.doc
        BY <1>3, <3>2, NormalizedSame
      <3> QED BY <1>1, <1>3, <3>1, <3>3, PartOf
    <2> QED BY <1>3, <2>1, <2>2
  <1>6. KeysStored(want)
    BY <1>1, <1>3, NormalizedFits DEF KeysStored
  <1>7. \A p \in Providers \ entered : want.providers[p].key =>
          stored.providers[p].key /\ stored.providers[p].url = want.providers[p].url
    BY <1>1, <1>2, NormalizedFits DEF KeysBound
  <1>8. \A p, q \in entered : p = q
    BY <1>2, AtMostOne
  <1>9. operator' = [operator EXCEPT ![o] = k]
    BY <1>2
  <1>10. pc \in {"ready", "keys"} /\ asked \subseteq Parts /\ edit.asked \subseteq asked
         /\ (pc = "ready" => entered = {}) /\ (entered # {} => "providers" \in asked)
    BY <1>3 DEF Parts
  <1> HIDE DEF want, pc, asked
  <1>11. k \in Drafts /\ k.pc = pc /\ k.asked = asked /\ k.want = want /\ k.entered = entered
         /\ k.checked = writes /\ k.at = old.at
    BY <1>1, <1>4, <1>10 DEF Drafts
  <1> HIDE DEF k
  <1>12. Shows(k)
    BY <1>10, <1>11 DEF Shows
  <1>13. TellsApart(want, Parts \ asked, old.at)
    BY <1>1, <1>5, <1>10 DEF TellsApart
  <1>14. Asks(k)
    BY <1>4, <1>6, <1>7, <1>8, <1>10, <1>11, <1>13 DEF Asks, Sendable, Bound
  <1>15. UNCHANGED <<stored, keyFor, marked, rowLock, replica, writes, since>>
        /\ overlapped' \in BOOLEAN /\ (overlapped => overlapped')
    BY DEF Submit, SettingsIInv, SettingsTyped
  <1>16. k.at =< writes /\ k.checked =< writes
    BY <1>1, <1>11
  <1>17. k.pc = "ready" => k.entered = {}
    BY <1>10, <1>11
  <1>18. operator[o].pc = "ready" /\ operator[o].entered # {} => overlapped'
    BY <1>1
  <1>19. k \in Drafts
    BY <1>11
  <1> QED BY <1>9, <1>12, <1>14, <1>15, <1>16, <1>17, <1>18, <1>19, RequestMoves

LEMMA SwitchWorkflowKeeps ==
  ASSUME SettingsIInv, NEW o \in Operators, NEW part \in {"full_auto", "paused"},
         SwitchWorkflow(o, part)
  PROVE  SettingsIInv'
  <1>1. PICK value \in BOOLEAN :
          operator' = [operator EXCEPT
            ![o] = [Reading("ready") EXCEPT !.asked = {part},
                      !.want = [Normalized(stored) EXCEPT ![part] = value]]]
    BY DEF SwitchWorkflow
  <1> DEFINE doc == Normalized(stored)
             want == [doc EXCEPT ![part] = value]
             k == [Reading("ready") EXCEPT !.asked = {part}, !.want = want]
  <1>2. Sendable(doc) /\ TellsApart(doc, Parts, writes) /\ writes \in Nat /\ stored \in Documents
    BY ReadsSound DEF SettingsIInv, SettingsTyped
  <1>3. /\ want \in Documents /\ want.providers = doc.providers /\ want.uses = doc.uses
        /\ \A other \in Parts \ {part} : want[other] = doc[other]
    <2> HIDE DEF doc
    <2> QED BY <1>2 DEF Sendable, Documents, Parts
  <1>4. Sendable(want)
    BY <1>2, <1>3 DEF Sendable, NoneGone, ProvidersValid, KeysStored
  <1>5. \A p \in Providers : want.providers[p].key =>
          stored.providers[p].key /\ stored.providers[p].url = want.providers[p].url
    BY <1>2, <1>3, NormalizedFits
  <1>6. TellsApart(want, Parts \ {part}, writes)
    BY <1>2, <1>3 DEF TellsApart
  <1>7. operator' = [operator EXCEPT ![o] = k]
    BY <1>1
  <1> HIDE DEF want
  <1>8. Reading("ready") \in Drafts /\ Reading("ready").pc = "ready" /\ Reading("ready").at = writes
        /\ Reading("ready").checked = writes /\ Reading("ready").entered = {}
    BY <1>2, AwayFits DEF SettingsIInv, Reading, Drafts, Sendable, Away
  <1>9. k \in Drafts /\ k.pc = "ready" /\ k.asked = {part} /\ k.want = want /\ k.entered = {}
        /\ k.checked = writes /\ k.at = writes
    BY <1>4, <1>8 DEF Drafts, Sendable, Parts
  <1> HIDE DEF k
  <1>10. Shows(k) /\ Asks(k)
    BY <1>4, <1>5, <1>6, <1>9 DEF Shows, Asks, Bound
  <1>11. operator[o].pc = "away"
    BY DEF SwitchWorkflow
  <1>12. UNCHANGED <<stored, keyFor, marked, rowLock, replica, writes, since>>
        /\ overlapped' \in BOOLEAN /\ (overlapped => overlapped')
    BY DEF SwitchWorkflow, SettingsIInv, SettingsTyped
  <1>13. k.at =< writes /\ k.checked =< writes
    BY <1>2, <1>9
  <1>14. k.pc = "ready" => k.entered = {}
    BY <1>9
  <1>15. operator[o].pc = "ready" /\ operator[o].entered # {} => overlapped'
    BY <1>11
  <1>16. k \in Drafts
    BY <1>9
  <1> QED BY <1>7, <1>10, <1>12, <1>13, <1>14, <1>15, <1>16, RequestMoves

LEMMA GiveUpKeeps ==
  ASSUME SettingsIInv, NEW o \in Operators, GiveUp(o)
  PROVE  SettingsIInv'
  <1>1. Away \in Drafts /\ Away.pc = "away" /\ Away.at = 0 /\ Away.checked = 0
        /\ Shows(Away) /\ Asks(Away)
    BY AwayFits DEF SettingsIInv
  <1>2. writes \in Nat /\ overlapped \in BOOLEAN
    BY DEF SettingsIInv, SettingsTyped
  <1>3. overlapped' = (overlapped \/ (operator[o].pc = "ready" /\ operator[o].entered # {}))
    BY DEF GiveUp
  <1>4. overlapped' \in BOOLEAN
    BY <1>2, <1>3, ZenonT(20)
  <1>5. overlapped => overlapped'
    BY <1>3
  <1>6. operator[o].pc = "ready" /\ operator[o].entered # {} => overlapped'
    BY <1>3
  <1>7. UNCHANGED <<stored, keyFor, marked, rowLock, replica, writes, since>>
        /\ operator' = [operator EXCEPT ![o] = Away]
    BY DEF GiveUp
  <1>8. Away.at =< writes /\ Away.checked =< writes /\ Away.pc # "ready"
    BY <1>1, <1>2
  <1> QED BY <1>1, <1>4, <1>5, <1>6, <1>7, <1>8, RequestMoves

LEMMA StoreKeyKeeps ==
  ASSUME SettingsIInv, NEW o \in Operators, StoreKey(o)
  PROVE  SettingsIInv'
  <1>0. PICK old : old = operator[o]
    OBVIOUS
  <1>1. operator \in [Operators -> Drafts] /\ old \in Drafts /\ old.pc = "keys" /\ old.at =< writes
        /\ old.checked =< writes /\ Asks(old) /\ stored \in Documents /\ writes \in Nat
        /\ since \in [Parts -> Nat] /\ keyFor \in [Providers -> Urls \cup {NoUrl}]
    BY <1>0 DEF StoreKey, SettingsIInv, SettingsTyped, Requests
  <1>2. PICK p \in old.entered :
          /\ keyFor' = [keyFor EXCEPT ![p] = old.want.providers[p].url]
          /\ operator' = [operator EXCEPT ![o].pc = "ready", ![o].want.providers[p].key = TRUE]
    BY <1>0 DEF StoreKey
  <1>19. PICK rows : rows = [old.want.providers EXCEPT ![p].key = TRUE]
    OBVIOUS
  <1>20. PICK want : want = [old.want EXCEPT !.providers = rows]
    OBVIOUS
  <1>21. PICK k : k = [old EXCEPT !.pc = "ready", !.want = want]
    OBVIOUS
  <1>3. p \in Providers /\ Sendable(old.want) /\ TellsApart(old.want, Parts \ old.asked, old.at)
        /\ Bound(old) /\ "providers" \in old.asked /\ \A a, b \in old.entered : a = b
    BY <1>1, <1>2 DEF Asks, Drafts
  <1>4. operator' = [operator EXCEPT ![o] = k]
    BY <1>0, <1>1, <1>2, <1>19, <1>20, <1>21
  <1>5. old.want.providers \in [Providers -> [is : ProviderStates, url : Urls, key : BOOLEAN]]
    BY <1>3 DEF Sendable, Documents
  <1>6. /\ rows \in [Providers -> [is : ProviderStates, url : Urls, key : BOOLEAN]]
        /\ \A q \in Providers : rows[q].is = old.want.providers[q].is /\ rows[q].url = old.want.providers[q].url
        /\ \A q \in Providers \ {p} : rows[q].key = old.want.providers[q].key
    BY <1>3, <1>5, <1>19
  <1>7. /\ want \in Documents /\ want.providers = rows /\ want.uses = old.want.uses
        /\ \A part \in Parts \ {"providers"} : want[part] = old.want[part]
    BY <1>3, <1>6, <1>20 DEF Sendable, Documents, Parts
  <1>8. k \in Drafts /\ k.pc = "ready" /\ k.want = want /\ k.entered = old.entered /\ k.asked = old.asked
        /\ k.at = old.at /\ k.checked = old.checked
    BY <1>1, <1>7, <1>21 DEF Drafts
  <1>9. operator'[o] = k /\ \A q \in Operators \ {o} : operator'[q] = operator[q]
    BY <1>1, <1>4
  <1>10. /\ keyFor' \in [Providers -> Urls \cup {NoUrl}] /\ keyFor'[p] = want.providers[p].url
         /\ keyFor'[p] # NoUrl /\ \A q \in Providers \ {p} : keyFor'[q] = keyFor[q]
    BY <1>1, <1>2, <1>3, <1>5, <1>6, <1>7, SettingsAssumption
  <1>11. UNCHANGED <<stored, marked, rowLock, replica, writes, since, overlapped>>
    BY DEF StoreKey
  <1>12. SettingsTyped'
    BY <1>1, <1>4, <1>8, <1>10, <1>11 DEF SettingsIInv, SettingsTyped
  <1>13. ProvidersResolve'
    BY <1>10, <1>11 DEF SettingsIInv, ProvidersResolve
  <1>14. Raising'
    BY <1>11 DEF SettingsIInv, Raising
  <1>15. EnteredBy(o, p)' /\ \A q \in Operators, s \in Providers : EnteredBy(q, s) => EnteredBy(q, s)'
    BY <1>0, <1>1, <1>2, <1>8, <1>9 DEF EnteredBy
  <1>16. KeysFitEndpoints'
    <2>1. ASSUME NEW s \in Providers \ {p}, ~overlapped', stored'.providers[s].key,
                 keyFor'[s] # stored'.providers[s].url
          PROVE  \E q \in Operators : EnteredBy(q, s)'
      <3>1. PICK q \in Operators : EnteredBy(q, s)
        BY <1>10, <1>11, <2>1 DEF SettingsIInv, KeysFitEndpoints, EnteredBy
      <3> QED BY <1>15, <3>1
    <2> QED BY <1>15, <2>1 DEF KeysFitEndpoints, EnteredBy
  <1>17. ASSUME NEW q \in Operators
         PROVE  Fitting(q)'
    <2>1. CASE q = o
      <3>1. \A s \in Providers : EnteredBy(o, s)' => s = p
        BY <1>2, <1>3, <1>8, <1>9 DEF EnteredBy
      <3>2. keyFor'[p] = operator'[o].want.providers[p].url
        BY <1>8, <1>9, <1>10
      <3> QED BY <2>1, <3>1, <3>2 DEF Fitting
    <2>2. CASE q # o
      <3>1. ASSUME NEW s \in Providers, EnteredBy(q, s)', operator'[q].checked = writes', ~overlapped',
                   keyFor'[s] # operator'[q].want.providers[s].url
            PROVE  \E other \in Operators \ {q} : EnteredBy(other, s)'
        <4>1. CASE s = p
          BY <1>15, <2>2, <4>1
        <4>2. CASE s # p
          <5>1. operator'[q] = operator[q] /\ keyFor'[s] = keyFor[s]
            BY <1>9, <1>10, <2>2, <4>2
          <5>2. EnteredBy(q, s) /\ operator[q].checked = writes /\ ~overlapped
                /\ keyFor[s] # operator[q].want.providers[s].url
            BY <1>11, <3>1, <5>1 DEF EnteredBy
          <5>3. PICK other \in Operators \ {q} : EnteredBy(other, s)
            BY <5>2 DEF SettingsIInv, Requests, Fitting
          <5> QED BY <1>15, <5>3
        <4> QED BY <4>1, <4>2
      <3> QED BY <3>1 DEF Fitting
    <2> QED BY <2>1, <2>2
  <1>18. ASSUME NEW q \in Operators
         PROVE  /\ operator'[q].at =< writes' /\ operator'[q].checked =< writes'
                /\ Shows(operator[q])' /\ Asks(operator[q])'
    <2>1. CASE q = o
      <3>1. Sendable(want)'
        BY <1>3, <1>5, <1>6, <1>7, <1>10 DEF Sendable, NoneGone, ProvidersValid, KeysStored, Documents
      <3>2. \A part \in Parts \ old.asked : want[part] = old.want[part]
        BY <1>3, <1>7
      <3>3. TellsApart(want, Parts \ old.asked, old.at)'
        BY <1>3, <1>11, <3>2 DEF TellsApart
      <3>4. ASSUME old.checked = writes
            PROVE  \A s \in Providers \ old.entered : want.providers[s].key =>
                     stored.providers[s].key /\ stored.providers[s].url = want.providers[s].url
        BY <1>2, <1>3, <1>6, <1>7, <3>4 DEF Bound
      <3>5. Bound(k)'
        BY <1>8, <1>11, <3>4 DEF Bound
      <3>6. Asks(k)'
        BY <1>3, <1>8, <3>1, <3>3, <3>5 DEF Asks
      <3>7. Shows(k)'
        BY <1>8 DEF Shows
      <3>8. Asks(operator[q])' /\ Shows(operator[q])'
        BY <1>9, <2>1, <3>6, <3>7 DEF Asks, Shows, Bound, TellsApart, Sendable, NoneGone, ProvidersValid, KeysStored
      <3> QED BY <1>1, <1>8, <1>9, <1>11, <2>1, <3>8
    <2>2. CASE q # o
      <3>1. operator'[q] = operator[q] /\ Normalized(stored)' = Normalized(stored)
        BY <1>9, <1>11, <2>2
      <3>2. \A s \in Providers : keyFor[s] # NoUrl => keyFor'[s] # NoUrl
        BY <1>10
      <3> QED BY <1>1, <1>11, <3>1, <3>2, RequestStays
    <2> QED BY <2>1, <2>2
  <1> QED BY <1>12, <1>13, <1>14, <1>16, <1>17, <1>18 DEF SettingsIInv, Requests

LEMMA SaveKeeps ==
  ASSUME SettingsIInv, NEW o \in Operators, Save(o)
  PROVE  SettingsIInv'
  <1> DEFINE k == operator[o]
             doc == k.want
  <1>1. operator \in [Operators -> Drafts] /\ k \in Drafts /\ k.pc = "ready" /\ Asks(k) /\ Fitting(o)
        /\ stored \in Documents /\ writes \in Nat /\ since \in [Parts -> Nat] /\ overlapped \in BOOLEAN
    BY DEF Save, SettingsIInv, SettingsTyped, Requests
  <1>2. Sendable(doc) /\ Bound(k) /\ doc \in Documents
    BY <1>1 DEF Asks, Sendable
  <1>3. stored' = doc /\ writes' = writes + 1 /\ rowLock = NoReplica
        /\ since' = [part \in Parts |->
                       IF doc[part] # Normalized(stored)[part] THEN writes + 1 ELSE since[part]]
        /\ operator' = [operator EXCEPT ![o] = Away]
        /\ UNCHANGED <<keyFor, marked, rowLock, replica>>
    BY DEF Save, Write
  <1>4. overlapped' = (overlapped \/ k.checked # writes)
    BY DEF Save
  <1>5. overlapped' \in BOOLEAN /\ (overlapped => overlapped')
    BY <1>1, <1>4, ZenonT(20)
  <1>6. Away \in Drafts /\ Away.pc = "away" /\ Away.at = 0 /\ Away.checked = 0
        /\ Away.entered = {}
    BY AwayFits DEF SettingsIInv, Away
  <1>7. operator'[o] = Away /\ \A q \in Operators \ {o} : operator'[q] = operator[q]
    BY <1>1, <1>3
  <1>8. Normalized(stored)' = doc
    BY <1>2, <1>3, NormalizedSame DEF Sendable
  <1>9. SettingsTyped'
    <2>1. since' \in [Parts -> Nat] /\ writes' \in Nat
      BY <1>1, <1>3
    <2>2. operator' \in [Operators -> Drafts]
      BY <1>1, <1>3, <1>6
    <2> QED BY <1>2, <1>3, <1>5, <2>1, <2>2 DEF SettingsIInv, SettingsTyped
  <1>10. ProvidersResolve'
    <2>1. ProvidersValid(doc) /\ \A p \in Providers : doc.providers[p].key => keyFor[p] # NoUrl
      BY <1>2 DEF Sendable, KeysStored
    <2> QED BY <1>3, <1>8, <2>1 DEF ProvidersResolve, ProvidersValid
  <1>11. Raising'
    <2>1. \A w \in Replicas : /\ rowLock # w /\ replica[w].pc # "raise"
                              /\ \A r, s \in replica[w].repair : r = s
      BY <1>3, SettingsAssumption DEF SettingsIInv, Raising
    <2> QED BY <1>3, <2>1 DEF Raising
  <1>12. \A q \in Operators \ {o}, p \in Providers : EnteredBy(q, p) => EnteredBy(q, p)'
    BY <1>7 DEF EnteredBy
  <1>13. KeysFitEndpoints'
    <2>1. ASSUME NEW p \in Providers, ~overlapped', doc.providers[p].key, keyFor[p] # doc.providers[p].url
          PROVE  \E q \in Operators \ {o} : EnteredBy(q, p)
      <3>1. ~overlapped /\ k.checked = writes
        BY <1>4, <2>1
      <3>2. CASE p \in k.entered
        BY <1>1, <2>1, <3>1, <3>2 DEF Fitting, EnteredBy
      <3>3. CASE p \notin k.entered
        <4>1. stored.providers[p].key /\ stored.providers[p].url = doc.providers[p].url
          BY <1>2, <2>1, <3>1, <3>3 DEF Bound
        <4>2. PICK q \in Operators : EnteredBy(q, p)
          BY <2>1, <3>1, <4>1 DEF SettingsIInv, KeysFitEndpoints, EnteredBy
        <4>3. q # o
          BY <3>3, <4>2 DEF EnteredBy
        <4> QED BY <4>2, <4>3
      <3> QED BY <3>2, <3>3
    <2>2. ASSUME NEW p \in Providers, ~overlapped', stored'.providers[p].key,
                 keyFor'[p] # stored'.providers[p].url
          PROVE  \E q \in Operators : EnteredBy(q, p)'
      BY <1>3, <1>12, <2>1, <2>2
    <2> QED BY <2>2 DEF KeysFitEndpoints, EnteredBy
  <1>14. ASSUME NEW q \in Operators
         PROVE  /\ operator'[q].at =< writes' /\ operator'[q].checked =< writes'
                /\ Shows(operator[q])' /\ Asks(operator[q])' /\ operator'[q].checked # writes'
    <2>1. CASE q = o
      <3>1. Shows(operator[q])' /\ Asks(operator[q])'
        BY <1>6, <1>7, <2>1 DEF Shows, Asks
      <3> QED BY <1>1, <1>3, <1>6, <1>7, <2>1, <3>1
    <2>2. CASE q # o
      <3>1. operator'[q] = operator[q] /\ operator[q].checked \in Nat /\ operator[q].checked =< writes
        BY <1>1, <1>7, <2>2 DEF Drafts, SettingsIInv, Requests
      <3>2. ASSUME NEW part \in Parts
            PROVE  \/ Normalized(stored)'[part] = Normalized(stored)[part] /\ since'[part] = since[part]
                   \/ since'[part] > writes /\ since'[part] \in Nat
        BY <1>1, <1>3, <1>8
      <3>3. writes' \in Nat /\ writes =< writes' /\ writes' # writes
        BY <1>1, <1>3
      <3>4. /\ operator'[q].at =< writes' /\ operator'[q].checked =< writes'
            /\ Shows(operator[q])' /\ Asks(operator[q])'
        BY <1>3, <3>1, <3>2, <3>3, RequestStays
      <3> QED BY <1>1, <1>3, <3>1, <3>4
    <2> QED BY <2>1, <2>2
  <1>15. \A q \in Operators : Fitting(q)'
    BY <1>14 DEF Fitting
  <1> QED BY <1>9, <1>10, <1>11, <1>13, <1>14, <1>15 DEF SettingsIInv, Requests

-----------------------------------------------------------------------------
(* Steps of the replicas.                                                   *)

LEMMA ReplicaTyped ==
  ASSUME SettingsIInv, NEW w \in Replicas
  PROVE  /\ replica \in [Replicas -> Startups] /\ replica[w] \in Startups
         /\ rowLock \in Replicas \cup {NoReplica} /\ marked \subseteq Repairs
         /\ NoReplica \notin Replicas
         /\ \A v \in Replicas : rowLock = v <=> replica[v].pc = "raise"
         /\ \A v \in Replicas : replica[v].pc = "raise" =>
              \A r \in replica[v].repair : stored.num_ctx[r] \in TooSmall[r]
         /\ \A v \in Replicas : \A r, s \in replica[v].repair : r = s
  BY SettingsAssumption DEF SettingsIInv, SettingsTyped, Raising

(* A replica moves outside of its transaction. *)
LEMMA UnlockedMoves ==
  ASSUME SettingsIInv, NEW w \in Replicas, NEW x \in Startups, x.pc # "raise",
         \A r, s \in x.repair : r = s,
         replica[w].pc # "raise", replica' = [replica EXCEPT ![w] = x],
         marked' \subseteq Repairs,
         UNCHANGED <<stored, keyFor, rowLock, operator, writes, since, overlapped>>
  PROVE  SettingsIInv'
  <1>1. replica \in [Replicas -> Startups] /\ rowLock \in Replicas \cup {NoReplica}
    BY ReplicaTyped
  <1>2. replica' \in [Replicas -> Startups] /\ replica'[w] = x
        /\ \A v \in Replicas \ {w} : replica'[v] = replica[v]
    BY <1>1
  <1>3. Raising'
    BY <1>2, ReplicaTyped DEF Raising
  <1> QED BY <1>1, <1>2, <1>3, ReplicaMoves

LEMMA BootKeeps ==
  ASSUME SettingsIInv, NEW w \in Replicas, Boot(w) \/ CheckMarker(w) \/ Record(w)
  PROVE  SettingsIInv'
  <1> DEFINE a == replica[w]
  <1>1. a \in Startups /\ replica \in [Replicas -> Startups] /\ marked \subseteq Repairs
        /\ \A r, s \in a.repair : r = s
    BY ReplicaTyped
  <1>2. CASE Boot(w)
    <2> DEFINE x == [a EXCEPT !.pc = "up", !.todo = Repairs, !.boots = a.boots + 1]
    <2>3. a.boots + 1 \in Nat /\ Repairs \in SUBSET Repairs
      BY <1>1 DEF Startups
    <2>1. x \in Startups /\ x.pc = "up" /\ x.repair = a.repair
      BY <1>1, <2>3 DEF Startups
    <2>2. replica' = [replica EXCEPT ![w] = x]
      BY <1>2 DEF Boot
    <2> HIDE DEF x
    <2>4. \A r, s \in x.repair : r = s
      BY <1>1, <2>1
    <2>5. x.pc # "raise" /\ replica[w].pc # "raise"
      BY <1>2, <2>1 DEF Boot
    <2> QED BY <1>1, <1>2, <2>1, <2>2, <2>4, <2>5, UnlockedMoves DEF Boot
  <1>3. CASE CheckMarker(w)
    <2>1. PICK r \in a.todo :
            replica' = [replica EXCEPT ![w].todo = @ \ {r},
                     ![w].pc = IF r \in marked THEN "up" ELSE "due", ![w].repair = {r}]
      BY <1>3 DEF CheckMarker
    <2> DEFINE pc == IF r \in marked THEN "up" ELSE "due"
               x == [a EXCEPT !.todo = a.todo \ {r}, !.pc = pc, !.repair = {r}]
    <2>2. pc \in {"up", "due"} /\ r \in Repairs
      BY <1>1 DEF Startups
    <2>3. replica' = [replica EXCEPT ![w] = x]
      BY <2>1
    <2> HIDE DEF pc
    <2>4. x \in Startups /\ x.pc = pc /\ x.repair = {r}
      BY <1>1, <2>2 DEF Startups
    <2> HIDE DEF x
    <2> QED BY <1>1, <1>3, <2>2, <2>3, <2>4, UnlockedMoves DEF CheckMarker
  <1>4. CASE Record(w)
    <2> DEFINE x == [a EXCEPT !.pc = "up", !.repair = {}]
    <2>1. x \in Startups /\ x.pc = "up" /\ x.repair = {} /\ a.repair \subseteq Repairs
      BY <1>1 DEF Startups
    <2>2. replica' = [replica EXCEPT ![w] = x] /\ marked' = marked \cup a.repair
      BY <1>4 DEF Record
    <2> HIDE DEF x
    <2>3. marked' \subseteq Repairs
      BY <1>1, <2>1, <2>2
    <2> QED BY <1>4, <2>1, <2>2, <2>3, UnlockedMoves DEF Record
  <1> QED BY <1>2, <1>3, <1>4

LEMMA LockRowKeeps ==
  ASSUME SettingsIInv, NEW w \in Replicas, LockRow(w)
  PROVE  SettingsIInv'
  <1> DEFINE a == replica[w]
  <1>1. a \in Startups /\ replica \in [Replicas -> Startups] /\ marked \subseteq Repairs /\ a.pc = "due"
        /\ rowLock = NoReplica /\ \A r, s \in a.repair : r = s
    BY ReplicaTyped DEF LockRow
  <1>2. PICK r \in a.repair :
          IF stored.num_ctx[r] \in TooSmall[r]
          THEN replica' = [replica EXCEPT ![w].pc = "raise"] /\ rowLock' = w
          ELSE replica' = [replica EXCEPT ![w].pc = "record"] /\ UNCHANGED rowLock
    BY DEF LockRow
  <1>3. CASE stored.num_ctx[r] \notin TooSmall[r]
    <2> DEFINE x == [a EXCEPT !.pc = "record"]
    <2>1. x \in Startups /\ x.pc = "record" /\ x.repair = a.repair
      BY <1>1 DEF Startups
    <2>2. replica' = [replica EXCEPT ![w] = x] /\ rowLock' = rowLock
      BY <1>2, <1>3
    <2> HIDE DEF x
    <2> QED BY <1>1, <2>1, <2>2, UnlockedMoves DEF LockRow
  <1>4. CASE stored.num_ctx[r] \in TooSmall[r]
    <2> DEFINE x == [a EXCEPT !.pc = "raise"]
    <2>1. x \in Startups /\ x.pc = "raise" /\ x.repair = a.repair
      BY <1>1 DEF Startups
    <2>2. replica' = [replica EXCEPT ![w] = x] /\ rowLock' = w
      BY <1>2, <1>4
    <2> HIDE DEF x
    <2>3. replica' \in [Replicas -> Startups] /\ replica'[w] = x
          /\ \A v \in Replicas \ {w} : replica'[v] = replica[v]
      BY <1>1, <2>1, <2>2
    <2>4. \A s \in a.repair : s = r
      BY <1>1
    <2>5. Raising'
      BY <1>1, <1>4, <2>1, <2>2, <2>3, <2>4, ReplicaTyped DEF Raising, LockRow
    <2> QED BY <1>1, <2>2, <2>3, <2>5, ReplicaMoves DEF LockRow
  <1> QED BY <1>3, <1>4

LEMMA RaiseKeeps ==
  ASSUME SettingsIInv, NEW w \in Replicas, Raise(w)
  PROVE  SettingsIInv'
  <1>1. PICK a : a = replica[w]
    OBVIOUS
  <1>2. PICK r \in a.repair :
          /\ stored' = [stored EXCEPT !.num_ctx[r] = Floor]
          /\ since' = [since EXCEPT !["num_ctx"] = writes + 1]
    BY <1>1 DEF Raise
  <1>3. a \in Startups /\ r \in Repairs /\ replica \in [Replicas -> Startups] /\ rowLock = w
        /\ stored \in Documents /\ writes \in Nat /\ since \in [Parts -> Nat]
        /\ a.pc = "raise" /\ \A s, t \in a.repair : s = t
    BY <1>1, <1>2, ReplicaTyped DEF Raise, Startups, SettingsIInv, SettingsTyped
  <1>4. writes' = writes + 1 /\ rowLock' = NoReplica /\ UNCHANGED <<keyFor, marked, operator, overlapped>>
        /\ replica' = [replica EXCEPT ![w].pc = "record"]
    BY DEF Raise
  <1>5. /\ stored' \in Documents /\ stored'.providers = stored.providers
        /\ \A part \in Parts \ {"num_ctx"} : stored'[part] = stored[part]
        /\ stored'.uses = stored.uses
    <2> DEFINE sizes == [stored.num_ctx EXCEPT ![r] = Floor]
    <2>1. sizes \in [Repairs -> Nat]
      BY <1>3, SettingsAssumption DEF Documents
    <2>2. stored' = [stored EXCEPT !.num_ctx = sizes]
      BY <1>2, <1>3 DEF Documents
    <2> HIDE DEF sizes
    <2> QED BY <1>3, <2>1, <2>2 DEF Documents, Parts
  <1>6. /\ Normalized(stored)' \in Documents /\ Normalized(stored)'.providers = Normalized(stored).providers
        /\ Normalized(stored)'.uses = Normalized(stored).uses
        /\ \A part \in Parts \ {"num_ctx"} : Normalized(stored)'[part] = Normalized(stored)[part]
    <2>1. PICK doc \in Documents : doc = stored'
      BY <1>5
    <2>2. Normalized(stored)' = Normalized(doc)
      BY <2>1 DEF Normalized
    <2>3. Normalized(doc).providers = Normalized(stored).providers
      BY <1>3, <1>5, <2>1 DEF Normalized, Documents
    <2>4. ASSUME NEW part \in Parts \ {"num_ctx"}
          PROVE  Normalized(doc)[part] = Normalized(stored)[part]
      <3>1. CASE part = "providers"
        BY <1>3, <2>3, <3>1, NormalizedFits, PartOf
      <3>2. CASE part # "providers"
        BY <1>3, <1>5, <2>1, <3>2, NormalizedFits
      <3> QED BY <3>1, <3>2
    <2> QED BY <1>3, <1>5, <2>1, <2>2, <2>3, <2>4, NormalizedFits
  <1>7. SettingsTyped'
    <2>3. writes + 1 \in Nat
      BY <1>3
    <2>1. since' \in [Parts -> Nat] /\ writes' \in Nat
      BY <1>2, <1>3, <1>4, <2>3
    <2>2. replica' \in [Replicas -> Startups]
      BY <1>3, <1>4 DEF Startups
    <2> QED BY <1>4, <1>5, <2>1, <2>2 DEF SettingsIInv, SettingsTyped
  <1>8. ProvidersResolve'
    BY <1>4, <1>5, <1>6 DEF SettingsIInv, ProvidersResolve, ProvidersValid
  <1>9. Raising'
    <2>1. replica'[w].pc = "record" /\ replica'[w].repair = a.repair
          /\ \A v \in Replicas \ {w} : replica'[v] = replica[v]
      BY <1>1, <1>3, <1>4 DEF Startups
    <2>2. \A v \in Replicas \ {w} : replica[v].pc # "raise" /\ rowLock # v
      BY <1>3, ReplicaTyped
    <2>3. \A v \in Replicas : \A s, t \in replica'[v].repair : s = t
      BY <1>3, <2>1, ReplicaTyped
    <2>4. \A v \in Replicas : replica'[v].pc # "raise" /\ rowLock' # v
      BY <1>3, <1>4, <2>1, <2>2, SettingsAssumption
    <2> QED BY <2>3, <2>4 DEF Raising
  <1>10. \A q \in Operators : operator'[q] = operator[q]
    BY <1>4
  <1>11. ASSUME NEW q \in Operators
         PROVE  operator[q].checked # writes'
    <2>1. operator[q].checked \in Nat /\ operator[q].checked =< writes
      BY DEF SettingsIInv, SettingsTyped, Requests, Drafts
    <2> QED BY <1>3, <1>4, <2>1
  <1>12. KeysFitEndpoints' /\ \A q \in Operators : Fitting(q)'
    <2>1. \A q \in Operators, p \in Providers : EnteredBy(q, p)' <=> EnteredBy(q, p)
      BY <1>10 DEF EnteredBy
    <2>2. KeysFitEndpoints'
      BY <1>4, <1>5 DEF SettingsIInv, KeysFitEndpoints
    <2> QED BY <1>10, <1>11, <2>2 DEF Fitting
  <1>13. ASSUME NEW part \in Parts
         PROVE  \/ Normalized(stored)'[part] = Normalized(stored)[part] /\ since'[part] = since[part]
                \/ since'[part] > writes /\ since'[part] \in Nat
    BY <1>2, <1>3, <1>6 DEF Parts
  <1>14. ASSUME NEW q \in Operators
         PROVE  /\ operator'[q].at =< writes' /\ operator'[q].checked =< writes'
                /\ Shows(operator[q])' /\ Asks(operator[q])'
    <2>1. writes' \in Nat /\ writes =< writes' /\ writes' # writes
      BY <1>3, <1>4
    <2> QED BY <1>4, <1>10, <1>13, <2>1, RequestStays
  <1> QED BY <1>7, <1>8, <1>9, <1>12, <1>14 DEF SettingsIInv, Requests

LEMMA DieKeeps ==
  ASSUME SettingsIInv, NEW w \in Replicas, Die(w)
  PROVE  SettingsIInv'
  <1> DEFINE x == [Down EXCEPT !.boots = replica[w].boots]
  <1>1. replica[w] \in Startups /\ replica \in [Replicas -> Startups] /\ marked \subseteq Repairs
        /\ rowLock \in Replicas \cup {NoReplica} /\ NoReplica \notin Replicas
    BY ReplicaTyped
  <1>2. x \in Startups /\ x.pc = "down" /\ x.repair = {}
    BY <1>1 DEF Startups, Down
  <1>3. replica' = [replica EXCEPT ![w] = x] /\ rowLock' = (IF rowLock = w THEN NoReplica ELSE rowLock)
        /\ UNCHANGED <<stored, keyFor, marked, operator, writes, since, overlapped>>
    BY DEF Die
  <1> HIDE DEF x
  <1>4. replica' \in [Replicas -> Startups] /\ replica'[w] = x
        /\ \A v \in Replicas \ {w} : replica'[v] = replica[v]
    BY <1>1, <1>2, <1>3
  <1>5. rowLock' \in Replicas \cup {NoReplica} /\ rowLock' # w
        /\ \A v \in Replicas \ {w} : rowLock' = v <=> rowLock = v
    BY <1>1, <1>3
  <1>6. Raising'
    <2>1. ASSUME NEW v \in Replicas
          PROVE  /\ \A r, s \in replica'[v].repair : r = s
                 /\ rowLock' = v <=> replica'[v].pc = "raise"
                 /\ replica'[v].pc = "raise" =>
                      \A r \in replica'[v].repair : stored'.num_ctx[r] \in TooSmall[r]
      <3>1. CASE v = w
        BY <1>2, <1>4, <1>5, <3>1
      <3>2. CASE v # w
        BY <1>3, <1>4, <1>5, <3>2, ReplicaTyped
      <3> QED BY <3>1, <3>2
    <2> QED BY <2>1 DEF Raising
  <1>7. marked' \subseteq Repairs /\ UNCHANGED <<stored, keyFor, operator, writes, since, overlapped>>
    BY <1>1, <1>3
  <1> QED BY <1>4, <1>5, <1>6, <1>7, ReplicaMoves

-----------------------------------------------------------------------------
LEMMA InitSettings == SettingsInit => SettingsIInv
  <1> SUFFICES ASSUME SettingsInit
               PROVE  SettingsIInv
    OBVIOUS
  <1> DEFINE row(p, n) == [Fresh EXCEPT !.uses = {p}, !.num_ctx = [r \in Repairs |-> n]]
  <1>1. PICK p \in Providers, n \in Sizes : Presets[p] /\ stored = row(p, n)
    BY DEF SettingsInit
  <1>2. n \in Nat /\ PresetUrl \in Urls
    BY SettingsAssumption
  <1>3. /\ stored \in Documents /\ stored.uses = {p}
        /\ \A q \in Providers : stored.providers[q].is = "gone" /\ ~stored.providers[q].key
    BY <1>1, <1>2 DEF Fresh, Documents, ProviderStates
  <1>4. Normalized(stored).uses = {p} /\ Normalized(stored).providers[p].is = "on"
    BY <1>1, <1>3, NormalizedFits DEF Normalized, Documents
  <1>5. keyFor = [q \in Providers |-> NoUrl] /\ marked = {} /\ rowLock = NoReplica /\ writes = 0
        /\ operator = [o \in Operators |-> Away] /\ replica = [w \in Replicas |-> Down]
        /\ since = [part \in Parts |-> 0] /\ overlapped = FALSE
    BY DEF SettingsInit
  <1>6. Away \in Drafts /\ Down \in Startups /\ Away.pc = "away" /\ Away.at = 0 /\ Away.checked = 0
        /\ Down.pc = "down" /\ Down.repair = {}
    BY DEF Away, Drafts, Down, Startups
  <1>7. SettingsTyped
    BY <1>3, <1>5, <1>6 DEF SettingsTyped
  <1>8. ProvidersResolve
    BY <1>3, <1>4 DEF ProvidersResolve, ProvidersValid
  <1>9. KeysFitEndpoints
    BY <1>3 DEF KeysFitEndpoints
  <1>10. Requests
    BY <1>5, <1>6 DEF Requests, Shows, Asks, Fitting, EnteredBy
  <1>11. Raising
    BY <1>5, <1>6, SettingsAssumption DEF Raising
  <1> QED BY <1>7, <1>8, <1>9, <1>10, <1>11 DEF SettingsIInv

LEMMA NextSettings == SettingsIInv /\ [SettingsNext]_settingsVars => SettingsIInv'
  <1> SUFFICES ASSUME SettingsIInv, [SettingsNext]_settingsVars
               PROVE  SettingsIInv'
    OBVIOUS
  <1>1. CASE UNCHANGED settingsVars
    <2>1. UNCHANGED <<stored, keyFor, marked, rowLock, operator, replica, writes, since, overlapped>>
      BY <1>1 DEF settingsVars
    <2>2. Raising'
      BY <2>1 DEF SettingsIInv, Raising
    <2>3. replica' \in [Replicas -> Startups] /\ rowLock' \in Replicas \cup {NoReplica}
          /\ marked' \subseteq Repairs
      BY <2>1 DEF SettingsIInv, SettingsTyped
    <2> QED BY <2>1, <2>2, <2>3, ReplicaMoves
  <1>2. CASE SettingsNext
    <2>1. CASE \E o \in Operators :
                 \/ OpenForm(o) \/ Submit(o) \/ StoreKey(o) \/ Save(o) \/ GiveUp(o)
                 \/ \E part \in {"full_auto", "paused"} : SwitchWorkflow(o, part)
      BY <2>1, OpenFormKeeps, SubmitKeeps, StoreKeyKeeps, SaveKeeps, GiveUpKeeps, SwitchWorkflowKeeps
    <2>2. CASE \E w \in Replicas :
                 Boot(w) \/ CheckMarker(w) \/ LockRow(w) \/ Raise(w) \/ Record(w) \/ Die(w)
      BY <2>2, BootKeeps, LockRowKeeps, RaiseKeeps, DieKeeps
    <2> QED BY <1>2, <2>1, <2>2 DEF SettingsNext
  <1> QED BY <1>1, <1>2

(***************************************************************************)
(* Whatever people and starting workers do: the settings name enabled       *)
(* providers whose keys are stored, and no save leaves a key with an        *)
(* endpoint it was not entered for, unless two saves crossed.               *)
(***************************************************************************)
THEOREM SettingsAlwaysConsistent == SettingsSpec => []SettingsConsistent
  <1>1. SettingsIInv => SettingsConsistent
    <2> SUFFICES ASSUME SettingsIInv
                 PROVE  SettingsTypeOK
      BY DEF SettingsIInv, SettingsConsistent
    <2> QED BY DEF SettingsIInv, SettingsTyped, Raising, SettingsTypeOK, Drafts, Startups
  <1> QED BY InitSettings, NextSettings, <1>1, PTL DEF SettingsSpec

(***************************************************************************)
(* A save changes the parts it was asked to change, and what others wrote   *)
(* after it had read (the lost update of a document saved whole); a repair  *)
(* of a starting worker loses nothing and lowers no size.                   *)
(***************************************************************************)
THEOREM SavesAlwaysKeepTheRest == SettingsSpec => SavesKeepTheRest
  <1> DEFINE Careful ==
        /\ \A o \in Operators : Save(o) =>
             \A part \in Parts \ operator[o].asked :
               stored'[part] # Normalized(stored)[part] => since[part] > operator[o].at
        /\ \A w \in Replicas : Raise(w) =>
             /\ \A part \in Parts \ {"num_ctx"} : stored'[part] = stored[part]
             /\ \A r \in Repairs : stored.num_ctx[r] # stored'.num_ctx[r] =>
                  stored.num_ctx[r] \in TooSmall[r]
  <1>1. SettingsIInv /\ [SettingsNext]_settingsVars => [Careful]_settingsVars
    <2> SUFFICES ASSUME SettingsIInv
                 PROVE  Careful
      OBVIOUS
    <2>1. ASSUME NEW o \in Operators, Save(o), NEW part \in Parts \ operator[o].asked,
                 stored'[part] # Normalized(stored)[part]
          PROVE  since[part] > operator[o].at
      <3>1. operator[o].pc = "ready" /\ stored' = operator[o].want
        BY <2>1 DEF Save, Write
      <3>2. TellsApart(operator[o].want, Parts \ operator[o].asked, operator[o].at)
        BY <3>1 DEF SettingsIInv, Requests, Asks
      <3> QED BY <2>1, <3>1, <3>2 DEF TellsApart
    <2>2. ASSUME NEW w \in Replicas, Raise(w)
          PROVE  /\ \A part \in Parts \ {"num_ctx"} : stored'[part] = stored[part]
                 /\ \A r \in Repairs : stored.num_ctx[r] # stored'.num_ctx[r] =>
                      stored.num_ctx[r] \in TooSmall[r]
      <3>1. PICK r \in replica[w].repair : stored' = [stored EXCEPT !.num_ctx[r] = Floor]
        BY <2>2 DEF Raise
      <3>2. stored \in Documents /\ stored.num_ctx[r] \in TooSmall[r]
        BY <2>2, ReplicaTyped DEF Raise, SettingsIInv, SettingsTyped
      <3>3. \A part \in Parts \ {"num_ctx"} : stored'[part] = stored[part]
        BY <3>1, <3>2 DEF Documents, Parts
      <3>4. \A s \in Repairs \ {r} : stored'.num_ctx[s] = stored.num_ctx[s]
        BY <3>1, <3>2 DEF Documents
      <3> QED BY <3>2, <3>3, <3>4
    <2> QED BY <2>1, <2>2
  <1>2. SettingsSpec => []SettingsIInv
    BY InitSettings, NextSettings, PTL DEF SettingsSpec
  <1>3. SettingsSpec => [][Careful]_settingsVars
    BY <1>1, <1>2, PTL DEF SettingsSpec
  <1> QED BY <1>3 DEF SavesKeepTheRest
===============================================================================
