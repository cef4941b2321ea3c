--------------------------- MODULE DocumentStagesProofs ---------------------------
(***************************************************************************)
(* What DocumentStages promises, for any tags, vocabulary, rules, settings,  *)
(* and any number of attempts, errors and edits.                            *)
(*                                                                         *)
(* The invariant's parts are stated over a run r, its intents n, an attempt  *)
(* a and the tags of a document, so that most steps are instances of a few   *)
(* lemmas: a step that moves on without touching the run or the tags, one    *)
(* that ends a job, and the four that change an intent or the document.      *)
(***************************************************************************)
EXTENDS DocumentStages, TLAPS

(* The initial triggers and the marks of the outcome are different tags.     *)
TagsDistinct ==
  /\ TriggerTags \cap ({ProcessedTag} \cup UNION {{DoneTag[s]} \cup FailedTags[s] : s \in Stages}) = {}
  /\ \A s \in Stages : DoneTag[s] # ProcessedTag

(* The document, an answer, a patch and an attempt. *)
Papers == [tags : SUBSET Tags, fields : [Fields -> {"unset", "theirs", "ours"}]]
Saids ==
  [fields : [Fields -> [value : {"none", "known", "gone", "foreign"}, sure : BOOLEAN]],
   newName : BOOLEAN,
   tags : [said : BOOLEAN, named : SUBSET Tags, new : SUBSET Tags, sure : BOOLEAN]]
Patches ==
  [set : SUBSET Fields, lists : BOOLEAN, tags : SUBSET Tags, newTags : SUBSET Tags, newName : BOOLEAN]
Attempts ==
  [pc : {"idle", "read", "ask", "route", "decide", "prepare", "send", "complete",
         "failing", "retire", "retiring"},
   stage : Stages, auto : BOOLEAN, seen : Papers, said : Saids, differs : SUBSET Fields,
   patch : Patches, final : BOOLEAN, failed : BOOLEAN]
Statuses == Active \cup {"none", "succeeded", "failed", "cancelled"}

(* Types. *)
Typed ==
  /\ policy \in Policies /\ auto \in BOOLEAN /\ paper \in Papers
  /\ run \in [Stages -> Statuses] /\ tries \in [Stages -> 0..MaxTries]
  /\ intent \in [Stages -> [open : BOOLEAN, landed : BOOLEAN, patch : Patches]]
  /\ attempt \in Attempts
  /\ \A i \in items : i.tags \cup i.new \cup i.seen \subseteq Tags
  /\ touched \subseteq Tags /\ excused \in BOOLEAN
  /\ faults \in [errors : 0..MaxErrors, edits : 0..MaxPaperEdits]

(* is_last_active_job. *)
LastOf(r, s) == \A t \in Stages \ {s} : r[t] \notin Active
(* A job is worked on while it runs, and closed once it is over. *)
Working(a) == a.pc \in {"read", "ask", "route", "decide", "prepare", "send", "complete", "failing"}
Closing(a) == a.pc \in {"retire", "retiring"}

(* One stage after the other: metadata waits, without an intent, as long as OCR has work
   to do, so that no two jobs have an intent open; and what the attempt knows of its job,
   of its intent and of being the last is so. *)
OrderOk(r, n, a) ==
  /\ r["ocr"] \in Active => r["metadata"] \in {"queued", "none"} /\ ~n["metadata"].open
  /\ a.pc # "idle" /\ a.stage = "ocr" => ~n["metadata"].open
  /\ a.pc = "read" => a.stage = "metadata"
  /\ Working(a) => r[a.stage] = "running"
  /\ Closing(a) => r[a.stage] \in {"succeeded", "failed"}
  /\ Working(a) /\ a.pc # "failing" => ~a.failed
  /\ Closing(a) /\ a.failed => \A s \in Stages : r[s] \notin Active
  /\ \A s \in Stages : n[s].landed => n[s].open
  /\ a.pc = "send" => n[a.stage].open
  /\ a.pc = "complete" => n[a.stage].landed
  /\ a.pc = "prepare" => (a.final <=> LastOf(r, a.stage))
  /\ a.pc = "retiring" => (a.final <=> a.failed \/ LastOf(r, a.stage))

(* A metadata attempt that has read the document and not yet written its intent, and one
   that has a plan. *)
Read(a) == a.stage = "metadata" /\ a.pc \in {"ask", "route", "decide", "prepare"}
Planned(a) == a.pc \in {"decide", "prepare"}

(* A plan that is vetted, in terms of what was read, answered and contradicted. *)
MayFill(a, f) ==
  /\ a.seen.fields[f] # "unset" /\ f \in Guarded => f \in policy.overwrite
  /\ \/ a.said.fields[f] = [value |-> "known", sure |-> TRUE] /\ f \notin a.differs
     \/ f = "correspondent" /\ policy.newCorrespondents /\ a.said.newName
Vetted(a) ==
  /\ \A f \in a.patch.set : MayFill(a, f)
  /\ \A t \in a.patch.tags \ a.seen.tags :
       a.said.tags.sure /\ t \in (a.said.tags.named \cup a.said.tags.new) \ Workflow
  /\ \A t \in a.patch.newTags : a.said.tags.sure /\ t \in a.said.tags.new \ Workflow
  /\ a.patch.newName => MayFill(a, "correspondent")

(* A plan is vetted, an OCR job plans nothing, and a tag that the document has and that
   was not there when it was read has been touched. *)
PlanOk(a, tags) ==
  /\ Read(a) => tags \subseteq a.seen.tags \cup touched
  /\ Planned(a) /\ a.stage = "metadata" => Vetted(a)
  /\ Planned(a) /\ a.stage = "ocr" =>
       ~a.patch.lists /\ a.patch.set = {} /\ a.patch.newTags = {} /\ ~a.patch.newName

(* A stage has settled when it is over and no attempt is about to retire its triggers. *)
Owes(a, s) == Closing(a) /\ (a.stage = s \/ a.failed)
Settled(r, a, s) == r[s] \in {"succeeded", "failed", "cancelled"} /\ ~Owes(a, s)
(* Tags without a trigger of the stage, but for touched ones. *)
Clean(tags, s) == tags \cap TriggersOf[s] \subseteq touched

(* No trigger of a settled stage is on the document, in what an attempt will write back
   from, nor in an open intent that is still to be written: nothing can bring it back. A
   job that has an intent will leave its own triggers settled, and the last one that of
   the pipeline. *)
TriggersOk(r, n, a, tags) ==
  /\ \A s \in Stages : Settled(r, a, s) =>
       /\ Clean(tags, s)
       /\ Read(a) \/ a.pc = "retiring" => Clean(a.seen.tags, s)
       /\ \A t \in Stages : r[t] \in Active /\ n[t].open => Clean(n[t].patch.tags, s)
  /\ \A t \in Stages : r[t] \in Active /\ n[t].open =>
       /\ Clean(n[t].patch.tags, t)
       /\ n[t].landed => Clean(tags, t)
       /\ LastOf(r, t) => /\ ProcessTag \notin n[t].patch.tags
                          /\ n[t].landed => ProcessTag \notin tags \ touched
  /\ (\A s \in Stages : r[s] \notin Active) /\ ~Closing(a) => ProcessTag \notin tags \ touched

(* The mark of a processed document that nobody put there. *)
Marked(tags) == ProcessedTag \in tags \ touched
(* Only the last active job may bring the mark, and where it is, or was seen by one who
   may write it back, that job has written. *)
ProcessedOk(r, n, a, tags) ==
  /\ Marked(tags) \/ ((Read(a) \/ a.pc = "retiring") /\ Marked(a.seen.tags)) =>
       \A s \in Stages : r[s] \in Active => n[s].landed
  /\ \A t \in Stages : r[t] \in Active /\ n[t].open /\ Marked(n[t].patch.tags) => LastOf(r, t)

(* A dry run retires nothing, and an attempt that was cut off may not have. *)
IInv ==
  /\ Typed
  /\ OrderOk(run, intent, attempt)
  /\ PlanOk(attempt, paper.tags)
  /\ TagsDistinct => /\ ~policy.dryRun /\ ~excused => TriggersOk(run, intent, attempt, paper.tags)
                     /\ ProcessedOk(run, intent, attempt, paper.tags)

-----------------------------------------------------------------------------
(* Types.                                                                  *)

LEMMA StageFacts ==
  /\ Stages = {"ocr", "metadata"}
  /\ \A s \in Stages : DoneTag[s] \in Workflow /\ TriggersOf[s] \subseteq Workflow /\ FailedTags[s] \subseteq Workflow
  /\ ProcessTag \in Workflow /\ ProcessedTag \in Workflow
  /\ Workflow \subseteq Tags /\ TriggerTags \subseteq Workflow
  BY StagesAssumption DEF Stages, Workflow, TriggerTags

LEMMA NoAttemptTyped == NoAttempt \in Attempts /\ NoPatch \in Patches /\ NoIntent \in [open : BOOLEAN, landed : BOOLEAN, patch : Patches]
  BY DEF NoAttempt, Attempts, Papers, Saids, Patches, NoPatch, Silence, NoTags, Unsaid, Stages, NoIntent

LEMMA ClaimTyped ==
  ASSUME Typed, NEW s \in Stages, ClaimStage(s)
  PROVE  Typed'
  <1> DEFINE pc == IF s = "ocr" THEN "ask" ELSE "read"
             live == auto /\ ~(s = "metadata" /\ policy.reviewRetry)
  <1>1. attempt' \in Attempts
    <2>1. pc \in {"ask", "read"} /\ live \in BOOLEAN
      BY DEF Typed
    <2>2. attempt' = [NoAttempt EXCEPT !.stage = s, !.pc = pc, !.auto = live]
      BY DEF ClaimStage
    <2> HIDE DEF pc, live
    <2> QED BY <2>1, <2>2, NoAttemptTyped DEF Attempts
  <1>2. run' \in [Stages -> Statuses]
    BY DEF Typed, ClaimStage, Statuses, Active
  <1>3. tries' \in [Stages -> 0..MaxTries]
    BY StagesAssumption DEF Typed, ClaimStage
  <1> QED BY <1>1, <1>2, <1>3 DEF Typed, ClaimStage

LEMMA ReadTyped ==
  ASSUME Typed, ReadDocument
  PROVE  Typed'
  <1>1. attempt' \in Attempts
    <2>1. \/ attempt' = [attempt EXCEPT !.pc = "retire"]
          \/ attempt' = [attempt EXCEPT !.pc = "ask", !.seen = paper]
          \/ attempt' = [attempt EXCEPT !.pc = "failing"]
      BY DEF ReadDocument, GoTo
    <2> QED BY <2>1, ZenonT(40) DEF Typed, Attempts
  <1>2. run' \in [Stages -> Statuses]
    BY DEF Typed, ReadDocument, Ended, GoTo, Statuses
  <1>3. faults' \in [errors : 0..MaxErrors, edits : 0..MaxPaperEdits]
    BY StagesAssumption DEF Typed, ReadDocument, GoTo, Error
  <1> QED BY <1>1, <1>2, <1>3 DEF Typed, ReadDocument, GoTo

(* What an answer says of a field. *)
Answers == [value : {"none", "known", "gone", "foreign"}, sure : BOOLEAN]

LEMMA FieldAnswerTyped ==
  ASSUME NEW f, NEW x \in FieldAnswers(f)
  PROVE  x \in Answers
  <1> DEFINE known == {"known", "foreign"} \cup IF f \in {"document_type", "correspondent"} THEN {"gone"} ELSE {}
  <1>1. known \subseteq {"none", "known", "gone", "foreign"}
    OBVIOUS
  <1>2. x = Unsaid \/ x \in [value : known, sure : BOOLEAN]
    BY DEF FieldAnswers
  <1> HIDE DEF known
  <1>3. CASE x \in [value : known, sure : BOOLEAN]
    BY <1>1, <1>3 DEF Answers
  <1>4. CASE x = Unsaid
    BY <1>4 DEF Unsaid, Answers
  <1> QED BY <1>2, <1>3, <1>4

LEMMA SuggestionsTyped ==
  ASSUME NEW said \in Suggestions
  PROVE  said \in Saids
  <1> DEFINE asked == policy.enabled \cap Fields
             AnyAnswer == UNION {FieldAnswers(f) : f \in asked}
             Heard == {h \in [asked -> AnyAnswer] : \A f \in asked : h[f] \in FieldAnswers(f)}
             names == IF "correspondent" \in asked THEN BOOLEAN ELSE {FALSE}
             Filled(h) == [f \in Fields |-> IF f \in asked THEN h[f] ELSE Unsaid]
  <1>1. said \in [fields : {Filled(h) : h \in Heard}, newName : names, tags : TagAnswers]
    BY DEF Suggestions
  <1>2. \A h \in Heard : Filled(h) \in [Fields -> Answers]
    <2>1. \A h \in Heard : \A f \in asked : h[f] \in Answers
      BY FieldAnswerTyped
    <2>2. Unsaid \in Answers
      BY DEF Unsaid, Answers
    <2> QED BY <2>1, <2>2
  <1>3. TagAnswers \subseteq [said : BOOLEAN, named : SUBSET Tags, new : SUBSET Tags, sure : BOOLEAN]
    <2>1. Named \subseteq Tags
      BY StagesAssumption
    <2>2. \A t \in TagAnswers : t = NoTags \/ t \in [said : {TRUE}, named : SUBSET Named, new : SUBSET Named, sure : BOOLEAN]
      BY DEF TagAnswers
    <2>3. NoTags \in [said : BOOLEAN, named : SUBSET Tags, new : SUBSET Tags, sure : BOOLEAN]
      BY DEF NoTags
    <2>4. \A t \in [said : {TRUE}, named : SUBSET Named, new : SUBSET Named, sure : BOOLEAN] :
            t \in [said : BOOLEAN, named : SUBSET Tags, new : SUBSET Tags, sure : BOOLEAN]
      BY <2>1
    <2> QED BY <2>2, <2>3, <2>4
  <1>4. names \subseteq BOOLEAN
    OBVIOUS
  <1> HIDE DEF Filled, Heard, names
  <1> QED BY <1>1, <1>2, <1>3, <1>4 DEF Saids, Answers

LEMMA AskTyped ==
  ASSUME Typed, Ask
  PROVE  Typed'
  <1>1. attempt' \in Attempts
    <2>1. ASSUME NEW said \in Suggestions, NEW differs \in Contradicted(said),
                 attempt' = [attempt EXCEPT !.pc = "route", !.said = said, !.differs = differs]
          PROVE  attempt' \in Attempts
      <3>1. said \in Saids /\ differs \subseteq Fields
        BY SuggestionsTyped DEF Contradicted, Fields
      <3> QED BY <2>1, <3>1 DEF Typed, Attempts
    <2>2. CASE GoTo("route") \/ GoTo("retire") \/ Fails
      BY <2>2, ZenonT(40) DEF Typed, GoTo, Fails, Attempts
    <2> QED BY <2>1, <2>2 DEF Ask
  <1>2. run' \in [Stages -> Statuses]
    BY DEF Typed, Ask, Ended, Statuses
  <1> QED BY <1>1, <1>2 DEF Typed, Ask

LEMMA PlanTyped ==
  ASSUME Typed
  PROVE  /\ Plan \in Patches /\ StrategyTags(attempt.seen.tags, attempt.said.tags.named) \subseteq Tags
         /\ \A i \in PlannedItems : i.tags \cup i.new \cup i.seen \subseteq Tags
  <1> DEFINE named == attempt.said.tags.named
             fresh == attempt.said.tags.new
             seen == attempt.seen.tags
  <1>1. named \subseteq Tags /\ fresh \subseteq Tags /\ seen \subseteq Tags
    BY DEF Typed, Attempts, Saids, Papers
  <1> HIDE DEF named, fresh, seen
  <1>2. StrategyTags(seen, named) \subseteq Tags
    BY <1>1 DEF StrategyTags
  <1>3. AppliedFields \subseteq Fields /\ NewCorrespondent \in BOOLEAN /\ TagsApply \in BOOLEAN
    BY DEF AppliedFields, NewCorrespondent, TagsApply
  <1>4. Plan.tags \subseteq Tags /\ Plan.newTags \subseteq Tags
    BY <1>1, <1>2 DEF Plan, named, fresh, seen
  <1>5. Plan \in Patches
    <2>1. /\ Plan.set = AppliedFields /\ Plan.lists = TagsApply /\ Plan.newName = NewCorrespondent
          /\ Plan = [set |-> Plan.set, lists |-> Plan.lists, tags |-> Plan.tags,
                     newTags |-> Plan.newTags, newName |-> Plan.newName]
      BY DEF Plan
    <2> QED BY <1>3, <1>4, <2>1 DEF Patches
  <1>6. \A i \in PlannedItems : i.tags \cup i.new \cup i.seen \subseteq Tags
    <2> TAKE i \in PlannedItems
    <2>1. CASE i = RefusedTagItem
      BY <1>1, <2>1 DEF RefusedTagItem, TagItem, named, fresh, seen
    <2>2. CASE i = TagItem(Plan.tags, Plan.newTags)
      BY <1>1, <1>4, <2>2 DEF TagItem, seen
    <2> QED BY <2>1, <2>2 DEF PlannedItems
  <1> QED BY <1>2, <1>5, <1>6 DEF named, seen

LEMMA RouteTyped ==
  ASSUME Typed, Route
  PROVE  Typed'
  <1>1. attempt' \in Attempts
    <2>1. \/ attempt' = NoAttempt
          \/ attempt' = [attempt EXCEPT !.pc = "decide", !.patch = NoPatch]
          \/ attempt' = [attempt EXCEPT !.pc = "decide", !.patch = Plan]
          \/ attempt' = [attempt EXCEPT !.pc = "retire"]
      BY DEF Route, GoTo
    <2>2. attempt \in Attempts /\ Plan \in Patches
      BY PlanTyped DEF Typed
    <2>3. ASSUME NEW q \in Patches, attempt' = [attempt EXCEPT !.pc = "decide", !.patch = q]
          PROVE  attempt' \in Attempts
      BY <2>2, <2>3 DEF Attempts
    <2>4. CASE attempt' = [attempt EXCEPT !.pc = "retire"]
      BY <2>2, <2>4 DEF Attempts
    <2> QED BY <2>1, <2>2, <2>3, <2>4, NoAttemptTyped
  <1>2. run' \in [Stages -> Statuses]
    <2>1. \E x \in {"review", "succeeded"} : run' = [run EXCEPT ![attempt.stage] = x] \/ run' = run
      BY DEF Route, Ended
    <2> QED BY <2>1 DEF Typed, Statuses, Active
  <1>3. \A i \in items' : i.tags \cup i.new \cup i.seen \subseteq Tags
    <2>1. items' = items \/ items' = items \cup PlannedItems
      BY DEF Route
    <2> QED BY <2>1, PlanTyped DEF Typed
  <1>4. UNCHANGED <<policy, auto, paper, tries, intent, touched, excused, faults>>
    BY DEF Route
  <1> QED BY <1>1, <1>2, <1>3, <1>4 DEF Typed

LEMMA DecideTyped ==
  ASSUME Typed, Decide
  PROVE  Typed'
  <1> DEFINE p == attempt.patch
             created == [p EXCEPT !.lists = @ \/ p.newTags # {},
                                  !.tags = (IF p.lists THEN @ ELSE attempt.seen.tags) \cup p.newTags,
                                  !.set = IF p.newName THEN @ \cup {"correspondent"} ELSE @]
  <1>1. attempt' \in Attempts
    <2>1. PICK made \in BOOLEAN :
            attempt' = [attempt EXCEPT !.pc = "prepare", !.final = LastActive,
                          !.patch = IF made /\ (p.newTags # {} \/ p.newName) THEN created ELSE p]
      BY DEF Decide
    <2>2. p \in Patches /\ attempt.seen.tags \subseteq Tags
      BY DEF Typed, Attempts, Papers
    <2>3. created \in Patches
      <3> DEFINE lists == p.lists \/ p.newTags # {}
                 tags == (IF p.lists THEN p.tags ELSE attempt.seen.tags) \cup p.newTags
                 set == IF p.newName THEN p.set \cup {"correspondent"} ELSE p.set
      <3>1. lists \in BOOLEAN /\ tags \subseteq Tags /\ set \subseteq Fields
        BY <2>2 DEF Patches, Fields
      <3>2. created = [p EXCEPT !.lists = lists, !.tags = tags, !.set = set]
        OBVIOUS
      <3> HIDE DEF lists, tags, set
      <3> QED BY <2>2, <3>1, <3>2, ZenonT(40) DEF Patches
    <2>4. LastActive \in BOOLEAN
      BY DEF LastActive
    <2> HIDE DEF created, p
    <2>5. PICK q \in Patches : attempt' = [attempt EXCEPT !.pc = "prepare", !.final = LastActive, !.patch = q]
      BY <2>1, <2>2, <2>3
    <2> QED BY <2>4, <2>5 DEF Typed, Attempts
  <1> QED BY <1>1 DEF Typed, Decide

LEMMA PrepareTyped ==
  ASSUME Typed, Prepare
  PROVE  Typed'
  <1> DEFINE base == IF attempt.patch.lists THEN attempt.patch.tags ELSE paper.tags
             marks == {DoneTag[attempt.stage]} \cup IF attempt.final THEN {ProcessedTag} ELSE {}
             tags == (base \cup marks) \ Retired(attempt.stage, attempt.final)
             body == [attempt.patch EXCEPT !.lists = TRUE, !.tags = tags]
  <1>1. attempt' \in Attempts
    <2>1. \E x \in {"complete", "send", "failing"} : attempt' = [attempt EXCEPT !.pc = x]
      BY DEF Prepare, GoTo
    <2> QED BY <2>1 DEF Typed, Attempts
  <1>2. body \in Patches
    <2>1. attempt.patch \in Patches /\ attempt.patch.tags \subseteq Tags /\ paper.tags \subseteq Tags /\ attempt.stage \in Stages
      BY DEF Typed, Attempts, Papers, Patches
    <2>2. tags \subseteq Tags
      BY <2>1, StageFacts
    <2> HIDE DEF tags
    <2> QED BY <2>1, <2>2 DEF Patches
  <1>3. intent' \in [Stages -> [open : BOOLEAN, landed : BOOLEAN, patch : Patches]]
    <2>1. \/ intent' = intent
          \/ intent' = [intent EXCEPT ![attempt.stage] = [open |-> TRUE, landed |-> FALSE, patch |-> body]]
      BY DEF Prepare
    <2> HIDE DEF body
    <2>2. [open |-> TRUE, landed |-> FALSE, patch |-> body] \in [open : BOOLEAN, landed : BOOLEAN, patch : Patches]
      BY <1>2
    <2> QED BY <2>1, <2>2 DEF Typed
  <1>4. faults' \in [errors : 0..MaxErrors, edits : 0..MaxPaperEdits]
    BY StagesAssumption DEF Typed, Prepare, Error
  <1>5. UNCHANGED <<policy, auto, paper, run, tries, items, touched, excused>>
    BY DEF Prepare
  <1> QED BY <1>1, <1>3, <1>4, <1>5 DEF Typed

LEMMA FailsTyped ==
  ASSUME Typed, Fails
  PROVE  attempt' \in Attempts
  BY DEF Typed, Fails, Attempts

LEMMA PatchedTyped ==
  ASSUME Typed, NEW p \in Patches
  PROVE  Patched(p) \in Papers
  <1>1. p.tags \subseteq Tags /\ paper.fields \in [Fields -> {"unset", "theirs", "ours"}]
    BY DEF Typed, Papers, Patches
  <1>2. [f \in Fields |-> IF f \in p.set THEN "ours" ELSE paper.fields[f]]
          \in [Fields -> {"unset", "theirs", "ours"}]
    BY <1>1
  <1> QED BY <1>1, <1>2 DEF Patched, Papers

LEMMA SendTyped ==
  ASSUME Typed, SendPatch
  PROVE  Typed'
  <1>1. attempt' \in Attempts
    <2>1. CASE \E x \in {"complete", "failing"} : attempt' = [attempt EXCEPT !.pc = x]
      BY <2>1 DEF Typed, Attempts
    <2> QED BY <2>1, FailsTyped DEF SendPatch, GoTo
  <1>2. paper' \in Papers
    <2>1. intent[attempt.stage].patch \in Patches
      BY DEF Typed, Attempts
    <2> QED BY <2>1, PatchedTyped DEF SendPatch, Typed
  <1>3. intent' \in [Stages -> [open : BOOLEAN, landed : BOOLEAN, patch : Patches]]
    <2>1. intent' = intent \/ intent' = [intent EXCEPT ![attempt.stage] = [intent[attempt.stage] EXCEPT !.landed = TRUE]]
      BY DEF SendPatch
    <2>2. attempt.stage \in Stages
      BY DEF Typed, Attempts
    <2>3. [intent[attempt.stage] EXCEPT !.landed = TRUE] \in [open : BOOLEAN, landed : BOOLEAN, patch : Patches]
      BY <2>2 DEF Typed
    <2> QED BY <2>1, <2>3 DEF Typed
  <1>4. faults' \in [errors : 0..MaxErrors, edits : 0..MaxPaperEdits]
    BY StagesAssumption DEF Typed, SendPatch, Error
  <1>5. UNCHANGED <<policy, auto, run, tries, items, touched, excused>>
    BY DEF SendPatch
  <1> QED BY <1>1, <1>2, <1>3, <1>4, <1>5 DEF Typed

LEMMA CompleteTyped ==
  ASSUME Typed, CompleteStage
  PROVE  Typed'
  <1>1. run' \in [Stages -> Statuses]
    BY DEF Typed, CompleteStage, Ended, Statuses
  <1>2. intent' \in [Stages -> [open : BOOLEAN, landed : BOOLEAN, patch : Patches]]
    BY NoAttemptTyped DEF Typed, CompleteStage
  <1> QED BY <1>1, <1>2, NoAttemptTyped DEF Typed, CompleteStage

LEMMA FailTyped ==
  ASSUME Typed, FailStage
  PROVE  Typed'
  <1>1. attempt' \in Attempts
    <2>1. attempt' = NoAttempt \/ attempt' = [attempt EXCEPT !.pc = "retire", !.failed = TRUE]
      BY DEF FailStage
    <2> QED BY <2>1, NoAttemptTyped, ZenonT(40) DEF Typed, Attempts
  <1>2. run' \in [Stages -> Statuses]
    BY DEF Typed, FailStage, Ended, Statuses, Active
  <1> QED BY <1>1, <1>2 DEF Typed, FailStage

LEMMA RetireReadTyped ==
  ASSUME Typed, RetireRead
  PROVE  Typed'
  <1>1. attempt' \in Attempts
    <2>1. attempt.failed \/ LastActive \in BOOLEAN
      BY DEF Typed, Attempts, LastActive
    <2>2. \/ attempt' = NoAttempt
          \/ attempt' = [attempt EXCEPT !.pc = "retiring", !.seen = paper, !.final = attempt.failed \/ LastActive]
      BY DEF RetireRead
    <2>3. (attempt.failed \/ LastActive) \in BOOLEAN
      OBVIOUS
    <2> QED BY <2>2, <2>3, NoAttemptTyped, ZenonT(40) DEF Typed, Attempts
  <1> QED BY <1>1 DEF Typed, RetireRead

LEMMA RetireWriteTyped ==
  ASSUME Typed, RetireWrite
  PROVE  Typed'
  <1>1. paper' \in Papers
    <2>1. Additions \subseteq Tags
      BY StageFacts DEF Additions, Typed, Attempts
    <2>2. attempt.seen.tags \subseteq Tags
      BY DEF Typed, Attempts, Papers
    <2>3. paper' = paper \/ paper' = [paper EXCEPT !.tags = (attempt.seen.tags \ Removals) \cup Additions]
      BY DEF RetireWrite
    <2> DEFINE tags == (attempt.seen.tags \ Removals) \cup Additions
    <2>4. tags \subseteq Tags /\ paper \in Papers
      BY <2>1, <2>2 DEF Typed
    <2>5. paper' = paper \/ paper' = [paper EXCEPT !.tags = tags]
      BY <2>3
    <2> HIDE DEF tags
    <2> QED BY <2>4, <2>5 DEF Papers
  <1>2. excused' \in BOOLEAN /\ faults' \in [errors : 0..MaxErrors, edits : 0..MaxPaperEdits]
    <2>1. faults' = faults \/ Error
      BY DEF RetireWrite
    <2>2. excused' = excused \/ excused' = TRUE
      BY DEF RetireWrite
    <2>3. faults' \in [errors : 0..MaxErrors, edits : 0..MaxPaperEdits]
      BY <2>1, StagesAssumption DEF Typed, Error
    <2> QED BY <2>2, <2>3 DEF Typed
  <1>3. UNCHANGED <<policy, auto, run, tries, intent, items, touched>> /\ attempt' = NoAttempt
    BY DEF RetireWrite
  <1> QED BY <1>1, <1>2, <1>3, NoAttemptTyped DEF Typed

LEMMA LostTyped ==
  ASSUME Typed, Lost
  PROVE  Typed'
  <1>1. run' \in [Stages -> Statuses]
    BY DEF Typed, Lost, Statuses, Active
  <1>2. excused' \in BOOLEAN
    BY DEF Typed, Lost
  <1> QED BY <1>1, <1>2, NoAttemptTyped DEF Typed, Lost

LEMMA PeopleTyped ==
  ASSUME Typed, SwitchMode \/ (\E t \in Tags : EditTag(t)) \/ (\E f \in Fields : EditField(f))
  PROVE  Typed'
  <1>0. ASSUME Edited PROVE faults' \in [errors : 0..MaxErrors, edits : 0..MaxPaperEdits]
    BY <1>0, StagesAssumption DEF Typed, Edited
  <1>1. CASE SwitchMode
    BY <1>0, <1>1 DEF Typed, SwitchMode
  <1>2. ASSUME NEW t \in Tags, EditTag(t) PROVE Typed'
    BY <1>0, <1>2 DEF Typed, EditTag, Papers
  <1>3. ASSUME NEW f \in Fields, EditField(f) PROVE Typed'
    BY <1>0, <1>3 DEF Typed, EditField, Papers
  <1> QED BY <1>1, <1>2, <1>3

-----------------------------------------------------------------------------
(* The order of the stages.                                                *)

LEMMA AttemptFacts ==
  ASSUME Typed
  PROVE  /\ attempt \in Attempts /\ attempt.stage \in Stages
         /\ \A s \in Stages : run[s] \in Statuses
         /\ run = [s \in Stages |-> run[s]] /\ intent = [s \in Stages |-> intent[s]]
         /\ attempt.failed \in BOOLEAN /\ attempt.final \in BOOLEAN
         /\ \A s \in Stages : intent[s].open \in BOOLEAN /\ intent[s].landed \in BOOLEAN
  BY DEF Typed, Attempts

LEMMA NoAttemptOrder ==
  ASSUME NEW r, NEW n,
         r["ocr"] \in Active => r["metadata"] \in {"queued", "none"} /\ ~n["metadata"].open,
         \A s \in Stages : n[s].landed => n[s].open
  PROVE  OrderOk(r, n, NoAttempt)
  BY DEF OrderOk, NoAttempt, Working, Closing

LEMMA ClaimOrder ==
  ASSUME Typed, OrderOk(run, intent, attempt), NEW s \in Stages, ClaimStage(s)
  PROVE  OrderOk(run', intent', attempt')
  <1>1. /\ attempt'.pc = (IF s = "ocr" THEN "ask" ELSE "read") /\ attempt'.stage = s
        /\ attempt'.failed = FALSE
    BY DEF ClaimStage, NoAttempt
  <1>2. run'[s] = "running" /\ \A t \in Stages \ {s} : run'[t] = run[t]
    BY AttemptFacts DEF ClaimStage
  <1>3. intent' = intent /\ run[s] = "queued" /\ (s = "metadata" => run["ocr"] \notin Active)
    BY DEF ClaimStage
  <1> QED BY <1>1, <1>2, <1>3, StageFacts DEF OrderOk, Working, Closing, Active

LEMMA ReadOrder ==
  ASSUME Typed, OrderOk(run, intent, attempt), ReadDocument
  PROVE  OrderOk(run', intent', attempt')
  <1>1. intent' = intent /\ attempt.pc = "read"
    BY DEF ReadDocument, At
  <1>2. CASE Ended("metadata", "succeeded") /\ GoTo("retire")
    BY <1>1, <1>2, AttemptFacts, StageFacts DEF Ended, GoTo, OrderOk, Working, Closing, Active, Attempts
  <1>3. CASE run' = run /\ attempt' = [attempt EXCEPT !.pc = "ask", !.seen = paper]
    BY <1>1, <1>3, AttemptFacts, StageFacts DEF OrderOk, Working, Closing, Active, Attempts
  <1>4. CASE run' = run /\ GoTo("failing")
    BY <1>1, <1>4, AttemptFacts, StageFacts DEF GoTo, OrderOk, Working, Closing, Active, Attempts
  <1> QED BY <1>2, <1>3, <1>4 DEF ReadDocument

LEMMA FailsOrder ==
  ASSUME Typed, OrderOk(run, intent, attempt), NEW n, Fails, Working(attempt),
         \A s \in Stages : n[s].open = intent[s].open /\ (n[s].landed => n[s].open)
  PROVE  OrderOk(run, n, attempt')
  BY AttemptFacts, StageFacts DEF Fails, OrderOk, Working, Closing, Attempts

LEMMA AskOrder ==
  ASSUME Typed, OrderOk(run, intent, attempt), Ask
  PROVE  OrderOk(run', intent', attempt')
  <1>1. intent' = intent /\ attempt.pc = "ask"
    BY DEF Ask, At
  <1>2. CASE Ended("metadata", "succeeded") /\ GoTo("retire") /\ attempt.stage = "metadata"
    BY <1>1, <1>2, AttemptFacts, StageFacts DEF Ended, GoTo, OrderOk, Working, Closing, Active, Attempts
  <1>3. ASSUME run' = run, NEW said, NEW differs,
               attempt' = [attempt EXCEPT !.pc = "route", !.said = said, !.differs = differs]
        PROVE  OrderOk(run', intent', attempt')
    BY <1>1, <1>3, AttemptFacts, StageFacts DEF OrderOk, Working, Closing, Active, Attempts
  <1>4. CASE run' = run /\ GoTo("route")
    BY <1>1, <1>4, AttemptFacts, StageFacts DEF GoTo, OrderOk, Working, Closing, Active, Attempts
  <1>5. CASE run' = run /\ Fails
    <2>1. OrderOk(run, intent, attempt')
      BY <1>1, <1>5, FailsOrder DEF Working, OrderOk
    <2> QED BY <2>1, <1>1, <1>5
  <1> QED BY <1>2, <1>3, <1>4, <1>5 DEF Ask

LEMMA RouteOrder ==
  ASSUME Typed, OrderOk(run, intent, attempt), Route
  PROVE  OrderOk(run', intent', attempt')
  <1>1. intent' = intent /\ attempt.pc = "route"
    BY DEF Route, At
  <1>2. CASE Ended(attempt.stage, "review") /\ attempt' = NoAttempt
    <2>1. run'["ocr"] \in Active => run'["metadata"] \in {"queued", "none"} /\ ~intent["metadata"].open
      BY <1>1, <1>2, AttemptFacts, StageFacts DEF Ended, OrderOk, Working, Active
    <2>2. \A s \in Stages : intent[s].landed => intent[s].open
      BY DEF OrderOk
    <2> QED BY <1>1, <1>2, <2>1, <2>2, NoAttemptOrder
  <1>3. CASE Ended(attempt.stage, "succeeded") /\ GoTo("retire")
    BY <1>1, <1>3, AttemptFacts, StageFacts DEF Ended, GoTo, OrderOk, Working, Closing, Active, Attempts
  <1>4. ASSUME run' = run, NEW q, attempt' = [attempt EXCEPT !.pc = "decide", !.patch = q]
        PROVE  OrderOk(run', intent', attempt')
    BY <1>1, <1>4, AttemptFacts, StageFacts DEF OrderOk, Working, Closing, Active, Attempts
  <1> QED BY <1>2, <1>3, <1>4 DEF Route

LEMMA DecideOrder ==
  ASSUME Typed, OrderOk(run, intent, attempt), Decide
  PROVE  OrderOk(run', intent', attempt')
  <1>1. PICK q : attempt' = [attempt EXCEPT !.pc = "prepare", !.final = LastActive, !.patch = q]
    BY DEF Decide
  <1>2. intent' = intent /\ run' = run /\ attempt.pc = "decide"
    BY DEF Decide, At
  <1>3. LastActive <=> LastOf(run, attempt.stage)
    BY DEF LastActive, LastOf
  <1>4. /\ attempt'.pc = "prepare" /\ attempt'.final = LastActive /\ attempt'.stage = attempt.stage
        /\ attempt'.failed = attempt.failed
    BY <1>1, AttemptFacts DEF Attempts
  <1> QED BY <1>2, <1>3, <1>4, AttemptFacts, StageFacts DEF OrderOk, Working, Closing

LEMMA PrepareOrder ==
  ASSUME Typed, OrderOk(run, intent, attempt), Prepare
  PROVE  OrderOk(run', intent', attempt')
  <1> DEFINE s == attempt.stage
  <1>1. run' = run /\ attempt.pc = "prepare" /\ s \in Stages
    BY AttemptFacts DEF Prepare, At
  <1>2. ASSUME NEW x \in {"complete", "send", "failing"}, GoTo(x)
        PROVE  /\ attempt'.pc = x /\ attempt'.stage = s /\ attempt'.failed = attempt.failed
               /\ attempt'.final = attempt.final
    BY <1>2, AttemptFacts DEF GoTo, Attempts
  <1>3. CASE intent' = intent /\ intent[s].landed /\ GoTo("complete")
    BY <1>1, <1>2, <1>3, StageFacts DEF OrderOk, Working, Closing
  <1>4. CASE intent' = intent /\ intent[s].open /\ GoTo("send")
    BY <1>1, <1>2, <1>4, StageFacts DEF OrderOk, Working, Closing
  <1>5. CASE intent' = intent /\ GoTo("failing")
    BY <1>1, <1>2, <1>5, StageFacts DEF OrderOk, Working, Closing
  <1>6. ASSUME NEW q, intent' = [intent EXCEPT ![s] = [open |-> TRUE, landed |-> FALSE, patch |-> q]], GoTo("send")
        PROVE  OrderOk(run', intent', attempt')
    <2>1. intent'[s].open /\ ~intent'[s].landed /\ \A t \in Stages \ {s} : intent'[t] = intent[t]
      BY <1>1, <1>6, AttemptFacts
    <2> QED BY <1>1, <1>2, <1>6, <2>1, StageFacts DEF OrderOk, Working, Closing, Active
  <1> QED BY <1>3, <1>4, <1>5, <1>6 DEF Prepare

LEMMA SendOrder ==
  ASSUME Typed, OrderOk(run, intent, attempt), SendPatch
  PROVE  OrderOk(run', intent', attempt')
  <1> DEFINE s == attempt.stage
  <1>1. run' = run /\ attempt.pc = "send" /\ s \in Stages
    BY AttemptFacts DEF SendPatch, At
  <1>2. intent[s].open
    BY <1>1 DEF OrderOk
  <1>3. CASE intent' = [intent EXCEPT ![s].landed = TRUE] /\ \E x \in {"complete", "failing"} : GoTo(x)
    <2>1. /\ intent'[s].landed /\ intent'[s].open = intent[s].open
          /\ \A t \in Stages \ {s} : intent'[t] = intent[t]
      <3>1. intent' = [intent EXCEPT ![s] = [intent[s] EXCEPT !.landed = TRUE]]
        BY <1>3
      <3>2. intent[s] \in [open : BOOLEAN, landed : BOOLEAN, patch : Patches]
        BY <1>1 DEF Typed
      <3> QED BY <3>1, <3>2, <1>1, AttemptFacts
    <2> QED BY <1>1, <1>2, <1>3, <2>1, AttemptFacts, StageFacts DEF GoTo, Attempts, OrderOk, Working, Closing
  <1>4. CASE intent' = intent /\ Fails
    BY <1>1, <1>4, FailsOrder DEF Working, OrderOk
  <1> QED BY <1>3, <1>4 DEF SendPatch

LEMMA CompleteOrder ==
  ASSUME Typed, OrderOk(run, intent, attempt), CompleteStage
  PROVE  OrderOk(run', intent', attempt')
  <1> DEFINE s == attempt.stage
  <1>1. /\ s \in Stages /\ run'[s] = "succeeded" /\ intent'[s] = NoIntent
        /\ \A t \in Stages \ {s} : run'[t] = run[t] /\ intent'[t] = intent[t]
    BY AttemptFacts DEF CompleteStage, Ended
  <1>2. attempt' = NoAttempt /\ run[s] = "running"
    BY DEF CompleteStage, At, OrderOk, Working
  <1>3. /\ run'["ocr"] \in Active => run'["metadata"] \in {"queued", "none"} /\ ~intent'["metadata"].open
        /\ \A t \in Stages : intent'[t].landed => intent'[t].open
    BY <1>1, <1>2, StageFacts DEF OrderOk, NoIntent, Active
  <1> QED BY <1>2, <1>3, NoAttemptOrder

LEMMA FailOrder ==
  ASSUME Typed, OrderOk(run, intent, attempt), FailStage
  PROVE  OrderOk(run', intent', attempt')
  <1> DEFINE s == attempt.stage
  <1>1. s \in Stages /\ attempt.pc = "failing" /\ intent' = intent /\ run[s] = "running"
    BY AttemptFacts DEF FailStage, At, OrderOk, Working
  <1>2. CASE Ended(s, "queued") /\ attempt' = NoAttempt
    <2>1. run'["ocr"] \in Active => run'["metadata"] \in {"queued", "none"} /\ ~intent["metadata"].open
      BY <1>1, <1>2, AttemptFacts, StageFacts DEF Ended, OrderOk, Active
    <2>2. \A t \in Stages : intent[t].landed => intent[t].open
      BY DEF OrderOk
    <2> QED BY <1>1, <1>2, <2>1, <2>2, NoAttemptOrder
  <1>3. CASE /\ run' = [t \in Stages |-> IF t = s THEN "failed"
                                         ELSE IF run[t] \in Active THEN "cancelled" ELSE run[t]]
             /\ attempt' = [attempt EXCEPT !.pc = "retire", !.failed = TRUE]
    <2>1. run'[s] = "failed" /\ \A t \in Stages : run'[t] \notin Active
      BY <1>1, <1>3 DEF Active
    <2>2. attempt'.pc = "retire" /\ attempt'.stage = s
      BY <1>3, AttemptFacts DEF Attempts
    <2> QED BY <1>1, <2>1, <2>2, StageFacts DEF OrderOk, Working, Closing
  <1> QED BY <1>2, <1>3 DEF FailStage

LEMMA RetireOrder ==
  ASSUME Typed, OrderOk(run, intent, attempt), RetireRead \/ RetireWrite
  PROVE  OrderOk(run', intent', attempt')
  <1>1. run' = run /\ intent' = intent
    BY DEF RetireRead, RetireWrite
  <1>2. CASE attempt' = NoAttempt
    BY <1>1, <1>2, NoAttemptOrder DEF OrderOk
  <1>3. CASE attempt' = [attempt EXCEPT !.pc = "retiring", !.seen = paper, !.final = attempt.failed \/ LastActive]
             /\ attempt.pc = "retire"
    <2>1. /\ attempt'.pc = "retiring" /\ attempt'.stage = attempt.stage /\ attempt'.failed = attempt.failed
          /\ attempt'.final = (attempt.failed \/ LastActive)
      BY <1>3, AttemptFacts DEF Attempts
    <2>2. LastActive <=> LastOf(run, attempt.stage)
      BY DEF LastActive, LastOf
    <2> QED BY <1>1, <1>3, <2>1, <2>2, StageFacts DEF OrderOk, Working, Closing
  <1> QED BY <1>2, <1>3 DEF RetireRead, RetireWrite, At

LEMMA LostOrder ==
  ASSUME Typed, OrderOk(run, intent, attempt), Lost
  PROVE  OrderOk(run', intent', attempt')
  <1>1. attempt' = NoAttempt /\ intent' = intent /\ attempt.stage \in Stages
    BY AttemptFacts DEF Lost
  <1>2. run'["ocr"] \in Active => run'["metadata"] \in {"queued", "none"} /\ ~intent["metadata"].open
    BY AttemptFacts, StageFacts DEF Lost, OrderOk, Active
  <1> QED BY <1>1, <1>2, NoAttemptOrder DEF OrderOk

LEMMA NextOrder ==
  ASSUME IInv, StagesNext
  PROVE  OrderOk(run', intent', attempt')
  <1> USE DEF IInv
  <1>1. CASE (\E t \in Tags : EditTag(t)) \/ (\E f \in Fields : EditField(f)) \/ SwitchMode
    BY <1>1 DEF EditTag, EditField, SwitchMode
  <1> QED BY <1>1, ClaimOrder, ReadOrder, AskOrder, RouteOrder, DecideOrder, PrepareOrder, SendOrder,
             CompleteOrder, FailOrder, RetireOrder, LostOrder DEF StagesNext

LEMMA NextTyped ==
  ASSUME IInv, StagesNext
  PROVE  Typed'
  BY ClaimTyped, ReadTyped, AskTyped, RouteTyped, DecideTyped, PrepareTyped, SendTyped,
     CompleteTyped, FailTyped, RetireReadTyped, RetireWriteTyped, LostTyped, PeopleTyped
  DEF IInv, StagesNext

-----------------------------------------------------------------------------
(* What is planned is vetted.                                              *)

LEMMA PlanVetted ==
  ASSUME Typed, NEW a, a.patch = Plan, a.seen = attempt.seen, a.said = attempt.said,
         a.differs = attempt.differs
  PROVE  Vetted(a)
  <1> DEFINE said == attempt.said
  <1>1. \A f \in Fields : Overwrites(f) =>
          (a.seen.fields[f] # "unset" /\ f \in Guarded => f \in policy.overwrite)
    BY DEF Overwrites
  <1>2. ASSUME NEW f \in AppliedFields PROVE MayFill(a, f)
    <2>1. /\ f \in Fields /\ Overwrites(f) /\ Validated(Agreed(said, attempt.differs)[f])
          /\ Agreed(said, attempt.differs)[f].value # "gone"
      BY DEF AppliedFields
    <2>2. Agreed(said, attempt.differs)[f] = IF f \in attempt.differs THEN Unsaid ELSE said.fields[f]
      BY <2>1 DEF Agreed
    <2>3. f \notin attempt.differs
      BY <2>1, <2>2 DEF Validated, Unsaid
    <2>4. said.fields[f].value = "known" /\ said.fields[f].sure
      BY <2>1, <2>2, <2>3 DEF Validated
    <2>5. said.fields[f] \in Answers
      BY <2>1 DEF Typed, Attempts, Saids, Answers
    <2>6. said.fields[f] = [value |-> "known", sure |-> TRUE]
      BY <2>4, <2>5 DEF Answers
    <2> QED BY <2>1, <2>3, <2>6, <1>1 DEF MayFill
  <1>3. Plan.set = AppliedFields
    BY DEF Plan
  <1>4. ASSUME NEW t \in Plan.tags \ attempt.seen.tags
        PROVE  said.tags.sure /\ t \in (said.tags.named \cup said.tags.new) \ Workflow
    <2>1. TagsApply /\ t \in StrategyTags(attempt.seen.tags, said.tags.named)
      BY <1>4 DEF Plan
    <2>2. t \in said.tags.named
      BY <1>4, <2>1 DEF StrategyTags
    <2> QED BY <2>1, <2>2 DEF TagsApply, TagsValidated
  <1>5. ASSUME NEW t \in Plan.newTags PROVE said.tags.sure /\ t \in said.tags.new \ Workflow
    BY <1>5 DEF Plan, TagsApply, TagsValidated
  <1>6. Plan.newName => MayFill(a, "correspondent")
    BY <1>1 DEF Plan, NewCorrespondent, MayFill, Fields
  <1> QED BY <1>2, <1>3, <1>4, <1>5, <1>6 DEF Vetted

LEMMA CreatedVetted ==
  ASSUME NEW a, NEW b, Vetted(a), b.seen = a.seen, b.said = a.said, b.differs = a.differs,
         b.patch.set \subseteq a.patch.set \cup (IF a.patch.newName THEN {"correspondent"} ELSE {}),
         b.patch.tags \subseteq a.patch.tags \cup a.seen.tags \cup a.patch.newTags,
         b.patch.newTags = a.patch.newTags, b.patch.newName = a.patch.newName
  PROVE  Vetted(b)
  <1>1. \A f : MayFill(b, f) <=> MayFill(a, f)
    BY DEF MayFill
  <1>2. \A f \in b.patch.set : MayFill(b, f)
    BY <1>1 DEF Vetted
  <1>3. ASSUME NEW t \in b.patch.tags \ b.seen.tags
        PROVE  b.said.tags.sure /\ t \in (b.said.tags.named \cup b.said.tags.new) \ Workflow
    <2>1. t \in a.patch.tags \ a.seen.tags \/ t \in a.patch.newTags
      BY <1>3
    <2> QED BY <2>1 DEF Vetted
  <1> QED BY <1>1, <1>2, <1>3 DEF Vetted

LEMMA Unplanned ==
  ASSUME NEW a, NEW tags, a.pc \notin {"ask", "route", "decide", "prepare"}
  PROVE  PlanOk(a, tags)
  BY DEF PlanOk, Read, Planned

LEMMA RoutePlan ==
  ASSUME Typed, PlanOk(attempt, paper.tags), Route
  PROVE  PlanOk(attempt', paper.tags)
  <1>1. CASE attempt' = NoAttempt
    BY <1>1, Unplanned DEF NoAttempt
  <1>2. CASE GoTo("retire")
    BY <1>2, AttemptFacts, Unplanned DEF GoTo, Attempts
  <1>3. ASSUME NEW q, q = (IF attempt.stage = "ocr" THEN NoPatch ELSE Plan),
               attempt' = [attempt EXCEPT !.pc = "decide", !.patch = q], attempt.pc = "route"
        PROVE  PlanOk(attempt', paper.tags)
    <2>1. /\ attempt'.pc = "decide" /\ attempt'.stage = attempt.stage /\ attempt'.patch = q
          /\ attempt'.seen = attempt.seen /\ attempt'.said = attempt.said
          /\ attempt'.differs = attempt.differs
      BY <1>3, AttemptFacts DEF Attempts
    <2>2. Read(attempt') => paper.tags \subseteq attempt'.seen.tags \cup touched
      BY <1>3, <2>1 DEF PlanOk, Read
    <2>3. attempt'.stage = "metadata" => Vetted(attempt')
      BY <1>3, <2>1, PlanVetted
    <2>4. attempt'.stage = "ocr" => q = NoPatch
      BY <1>3, <2>1
    <2> QED BY <2>1, <2>2, <2>3, <2>4 DEF PlanOk, Planned, NoPatch
  <1> QED BY <1>1, <1>2, <1>3 DEF Route, At

LEMMA DecidePlan ==
  ASSUME Typed, PlanOk(attempt, paper.tags), Decide
  PROVE  PlanOk(attempt', paper.tags)
  <1> DEFINE p == attempt.patch
             created == [p EXCEPT !.lists = @ \/ p.newTags # {},
                                  !.tags = (IF p.lists THEN @ ELSE attempt.seen.tags) \cup p.newTags,
                                  !.set = IF p.newName THEN @ \cup {"correspondent"} ELSE @]
  <1>1. PICK q : /\ q = p \/ (q = created /\ (p.newTags # {} \/ p.newName))
                 /\ attempt' = [attempt EXCEPT !.pc = "prepare", !.final = LastActive, !.patch = q]
    BY DEF Decide
  <1>2. /\ attempt'.pc = "prepare" /\ attempt'.stage = attempt.stage /\ attempt'.patch = q
        /\ attempt'.seen = attempt.seen /\ attempt'.said = attempt.said
        /\ attempt'.differs = attempt.differs /\ attempt.pc = "decide"
    BY <1>1, AttemptFacts DEF Attempts, Decide, At
  <1>3. Read(attempt') => paper.tags \subseteq attempt'.seen.tags \cup touched
    BY <1>2 DEF PlanOk, Read
  <1>4. attempt.stage = "ocr" => q = p
    BY <1>1, <1>2 DEF PlanOk, Planned
  <1>5. /\ q.set \subseteq p.set \cup (IF p.newName THEN {"correspondent"} ELSE {})
        /\ q.tags \subseteq p.tags \cup attempt.seen.tags \cup p.newTags
        /\ q.newTags = p.newTags /\ q.newName = p.newName
    <2>1. CASE q = created
      <3>1. p \in Patches
        BY AttemptFacts DEF Attempts
      <3> DEFINE lists == p.lists \/ p.newTags # {}
                 tags == (IF p.lists THEN p.tags ELSE attempt.seen.tags) \cup p.newTags
                 set == IF p.newName THEN p.set \cup {"correspondent"} ELSE p.set
      <3>2. tags \subseteq p.tags \cup attempt.seen.tags \cup p.newTags
        OBVIOUS
      <3>3. set \subseteq p.set \cup (IF p.newName THEN {"correspondent"} ELSE {})
        OBVIOUS
      <3>4. q = [p EXCEPT !.lists = lists, !.tags = tags, !.set = set]
        BY <2>1
      <3> HIDE DEF lists, tags, set, p
      <3>5. q.tags = tags /\ q.set = set /\ q.newTags = p.newTags /\ q.newName = p.newName
        BY <3>1, <3>4 DEF Patches
      <3> QED BY <3>2, <3>3, <3>5
    <2>2. CASE q = p
      BY <2>2
    <2> QED BY <1>1, <2>1, <2>2
  <1>6. attempt'.stage = "metadata" => Vetted(attempt')
    <2> HAVE attempt'.stage = "metadata"
    <2>1. Vetted(attempt)
      BY <1>2 DEF PlanOk, Planned
    <2> HIDE DEF created
    <2> QED BY <1>2, <1>5, <2>1, CreatedVetted
  <1> HIDE DEF created
  <1>7. attempt'.stage = "ocr" =>
          ~q.lists /\ q.set = {} /\ q.newTags = {} /\ ~q.newName
    BY <1>2, <1>4 DEF PlanOk, Planned
  <1> QED BY <1>2, <1>3, <1>6, <1>7 DEF PlanOk, Planned

LEMMA NextPlan ==
  ASSUME IInv, StagesNext, touched' = touched
  PROVE  PlanOk(attempt', paper'.tags)
  <1> USE DEF IInv
  <1>1. ASSUME NEW s \in Stages, ClaimStage(s) PROVE PlanOk(attempt', paper'.tags)
    <2>1. attempt'.pc = (IF s = "ocr" THEN "ask" ELSE "read") /\ attempt'.stage = s
      BY <1>1 DEF ClaimStage, NoAttempt
    <2> QED BY <2>1 DEF PlanOk, Read, Planned
  <1>2. CASE ReadDocument
    <2>1. CASE attempt' = [attempt EXCEPT !.pc = "ask", !.seen = paper]
      <3>1. attempt'.pc = "ask" /\ attempt'.seen.tags = paper.tags /\ paper' = paper
        BY <1>2, <2>1, AttemptFacts DEF Attempts, ReadDocument
      <3> QED BY <3>1 DEF PlanOk, Planned
    <2>2. CASE GoTo("retire") \/ GoTo("failing")
      BY <2>2, AttemptFacts, Unplanned DEF GoTo, Attempts
    <2> QED BY <1>2, <2>1, <2>2 DEF ReadDocument
  <1>3. CASE Ask
    <2>0. paper' = paper /\ attempt.pc = "ask"
      BY <1>3 DEF Ask, At
    <2>1. CASE Fails \/ GoTo("retire")
      BY <2>1, AttemptFacts, Unplanned DEF Fails, GoTo, Attempts
    <2>2. CASE GoTo("route")
      <3>1. attempt'.pc = "route" /\ attempt'.stage = attempt.stage /\ attempt'.seen = attempt.seen
        BY <2>2, AttemptFacts DEF GoTo, Attempts
      <3> QED BY <2>0, <3>1 DEF PlanOk, Read, Planned
    <2>3. ASSUME NEW said, NEW differs,
                 attempt' = [attempt EXCEPT !.pc = "route", !.said = said, !.differs = differs]
          PROVE  PlanOk(attempt', paper'.tags)
      <3>1. attempt'.pc = "route" /\ attempt'.stage = attempt.stage /\ attempt'.seen = attempt.seen
        BY <2>3, AttemptFacts DEF Attempts
      <3> QED BY <2>0, <3>1 DEF PlanOk, Read, Planned
    <2> QED BY <1>3, <2>1, <2>2, <2>3 DEF Ask
  <1>4. CASE Route
    BY <1>4, RoutePlan DEF Route
  <1>5. CASE Decide
    BY <1>5, DecidePlan DEF Decide
  <1>6. CASE Prepare
    <2>1. \E x \in {"complete", "send", "failing"} : attempt' = [attempt EXCEPT !.pc = x]
      BY <1>6 DEF Prepare, GoTo
    <2> QED BY <2>1, AttemptFacts, Unplanned DEF Attempts
  <1>7. CASE SendPatch
    <2>1. Fails \/ \E x \in {"complete", "failing"} : attempt' = [attempt EXCEPT !.pc = x]
      BY <1>7 DEF SendPatch, GoTo
    <2> QED BY <2>1, AttemptFacts, Unplanned DEF Attempts, Fails
  <1>8. CASE CompleteStage \/ RetireWrite \/ Lost
    BY <1>8, Unplanned DEF CompleteStage, RetireWrite, Lost, NoAttempt
  <1>9. CASE FailStage
    <2>1. attempt' = NoAttempt \/ attempt' = [attempt EXCEPT !.pc = "retire", !.failed = TRUE]
      BY <1>9 DEF FailStage
    <2>2. attempt'.pc \in {"idle", "retire"}
      <3>1. NoAttempt.pc = "idle"
        BY DEF NoAttempt
      <3>2. [attempt EXCEPT !.pc = "retire", !.failed = TRUE].pc = "retire"
        BY AttemptFacts DEF Attempts
      <3> QED BY <2>1, <3>1, <3>2
    <2> QED BY <2>2, Unplanned
  <1>10. CASE RetireRead
    <2>1. \/ attempt' = NoAttempt
          \/ attempt' = [attempt EXCEPT !.pc = "retiring", !.seen = paper, !.final = attempt.failed \/ LastActive]
      BY <1>10 DEF RetireRead
    <2>2. attempt'.pc \in {"idle", "retiring"}
      <3> DEFINE final == attempt.failed \/ LastActive
      <3>1. attempt' = NoAttempt \/ attempt' = [attempt EXCEPT !.pc = "retiring", !.seen = paper, !.final = final]
        BY <2>1
      <3> HIDE DEF final
      <3>2. NoAttempt.pc = "idle"
        BY DEF NoAttempt
      <3>3. [attempt EXCEPT !.pc = "retiring", !.seen = paper, !.final = final].pc = "retiring"
        BY AttemptFacts DEF Attempts
      <3> QED BY <3>1, <3>2, <3>3
    <2> QED BY <2>2, Unplanned
  <1>11. CASE (\E t \in Tags : EditTag(t)) \/ (\E f \in Fields : EditField(f)) \/ SwitchMode
    <2>1. CASE SwitchMode
      BY <2>1 DEF SwitchMode
    <2>2. ASSUME NEW f \in Fields, EditField(f) PROVE PlanOk(attempt', paper'.tags)
      BY <2>2 DEF EditField, Typed, Papers
    <2>3. ASSUME NEW t \in Tags, EditTag(t) PROVE PlanOk(attempt', paper'.tags)
      <3>1. paper'.tags \subseteq paper.tags \cup touched' /\ attempt' = attempt
        BY <2>3 DEF EditTag, Typed, Papers
      <3> QED BY <3>1 DEF PlanOk
    <2> QED BY <1>11, <2>1, <2>2, <2>3
  <1> QED BY <1>1, <1>2, <1>3, <1>4, <1>5, <1>6, <1>7, <1>8, <1>9, <1>10, <1>11 DEF StagesNext

-----------------------------------------------------------------------------
(* The tags of the workflow, one kind of step at a time.                    *)

(* A run that is over. *)
Over == {"succeeded", "failed", "cancelled"}
\* The runs of two states that are active or over alike.
SameRun(r, q) ==
  \A s \in Stages : (r[s] \in Active <=> q[s] \in Active) /\ (r[s] \in Over <=> q[s] \in Over)
\* What an attempt has seen is what its predecessor had, or what there is.
SeenFrom(a, b, tags) ==
  Read(b) \/ b.pc = "retiring" =>
    b.seen.tags = tags \/ ((Read(a) \/ a.pc = "retiring") /\ b.seen.tags = a.seen.tags)

LEMMA MoveTriggers ==
  ASSUME NEW r, NEW q, NEW n, NEW a, NEW b, NEW tags, TriggersOk(r, n, a, tags),
         SameRun(r, q), SeenFrom(a, b, tags),
         \/ ~Closing(a) /\ ~Closing(b)
         \/ Closing(a) /\ Closing(b) /\ a.stage = b.stage /\ a.failed = b.failed
  PROVE  TriggersOk(q, n, b, tags)
  <1>1. \A s \in Stages : Settled(q, b, s) => Settled(r, a, s)
    BY DEF Settled, SameRun, Over, Owes
  <1>2. \A s \in Stages : LastOf(q, s) <=> LastOf(r, s)
    BY DEF LastOf, SameRun
  <1>3. \A s \in Stages : q[s] \in Active <=> r[s] \in Active
    BY DEF SameRun
  <1>4. ASSUME NEW s \in Stages, Settled(q, b, s)
        PROVE  /\ Clean(tags, s) /\ (Read(b) \/ b.pc = "retiring" => Clean(b.seen.tags, s))
               /\ \A t \in Stages : q[t] \in Active /\ n[t].open => Clean(n[t].patch.tags, s)
    BY <1>1, <1>3, <1>4 DEF TriggersOk, SeenFrom
  <1>5. ASSUME NEW t \in Stages, q[t] \in Active, n[t].open
        PROVE  /\ Clean(n[t].patch.tags, t) /\ (n[t].landed => Clean(tags, t))
               /\ LastOf(q, t) => /\ ProcessTag \notin n[t].patch.tags
                                  /\ n[t].landed => ProcessTag \notin tags \ touched
    BY <1>2, <1>3, <1>5 DEF TriggersOk
  <1>6. (\A s \in Stages : q[s] \notin Active) /\ ~Closing(b) => ProcessTag \notin tags \ touched
    BY <1>3 DEF TriggersOk
  <1> QED BY <1>4, <1>5, <1>6 DEF TriggersOk

LEMMA MoveProcessed ==
  ASSUME NEW r, NEW q, NEW n, NEW a, NEW b, NEW tags, ProcessedOk(r, n, a, tags),
         SameRun(r, q), SeenFrom(a, b, tags)
  PROVE  ProcessedOk(q, n, b, tags)
  <1>1. \A s \in Stages : LastOf(q, s) <=> LastOf(r, s)
    BY DEF LastOf, SameRun
  <1>2. \A s \in Stages : q[s] \in Active <=> r[s] \in Active
    BY DEF SameRun
  <1>3. Marked(tags) \/ ((Read(b) \/ b.pc = "retiring") /\ Marked(b.seen.tags)) =>
          \A s \in Stages : q[s] \in Active => n[s].landed
    BY <1>2 DEF ProcessedOk, SeenFrom
  <1> QED BY <1>1, <1>2, <1>3 DEF ProcessedOk

(* While an attempt works or retires, no other active job has an intent open. *)
LEMMA NoOtherIntent ==
  ASSUME NEW r, NEW n, NEW a, OrderOk(r, n, a), Working(a) \/ Closing(a), a.stage \in Stages,
         NEW t \in Stages \ {a.stage}
  PROVE  ~(r[t] \in Active /\ n[t].open)
  <1>1. a.pc # "idle"
    BY DEF Working, Closing
  <1>2. CASE a.stage = "ocr" /\ t = "metadata"
    BY <1>1, <1>2 DEF OrderOk
  <1>3. CASE a.stage = "metadata" /\ t = "ocr"
    BY <1>3 DEF OrderOk
  <1> QED BY <1>2, <1>3, StageFacts

(* A job that ends without a write, or fails for good, still owes its triggers. *)
LEMMA EndTriggers ==
  ASSUME NEW r, NEW q, NEW n, NEW a, NEW b, NEW tags, TriggersOk(r, n, a, tags),
         OrderOk(r, n, a), Working(a), a.stage \in Stages, b.pc = "retire", b.stage = a.stage,
         q[a.stage] \notin Active,
         \/ b.failed /\ \A t \in Stages : q[t] \notin Active
         \/ \A t \in Stages \ {a.stage} : q[t] = r[t]
  PROVE  TriggersOk(q, n, b, tags)
  <1>1. Closing(b) /\ ~Read(b) /\ ~Closing(a) /\ b.pc # "retiring"
    BY DEF Closing, Read, Working
  <1>2. \A t \in Stages : ~(q[t] \in Active /\ n[t].open)
    BY NoOtherIntent
  <1>3. ASSUME NEW s \in Stages, Settled(q, b, s) PROVE Clean(tags, s)
    <2>1. s # a.stage /\ ~b.failed
      BY <1>1, <1>3 DEF Settled, Owes
    <2>2. Settled(r, a, s)
      BY <1>1, <1>3, <2>1 DEF Settled, Owes
    <2> QED BY <2>2 DEF TriggersOk
  <1> QED BY <1>1, <1>2, <1>3 DEF TriggersOk

LEMMA EndProcessed ==
  ASSUME NEW r, NEW q, NEW n, NEW a, NEW b, NEW tags, ProcessedOk(r, n, a, tags),
         OrderOk(r, n, a), Working(a), a.stage \in Stages, b.pc \in {"retire", "idle"},
         q[a.stage] \notin Active,
         \/ \A t \in Stages : q[t] \notin Active
         \/ \A t \in Stages \ {a.stage} : q[t] = r[t]
  PROVE  ProcessedOk(q, n, b, tags)
  <1>1. ~Read(b) /\ b.pc # "retiring"
    BY DEF Read
  <1>2. \A t \in Stages : ~(q[t] \in Active /\ n[t].open)
    BY NoOtherIntent
  <1>3. \A t \in Stages : q[t] \in Active => r[t] \in Active
    OBVIOUS
  <1> QED BY <1>1, <1>2, <1>3 DEF ProcessedOk

LEMMA CompleteTags ==
  ASSUME NEW r, NEW q, NEW n, NEW m, NEW a, NEW b, NEW tags, OrderOk(r, n, a),
         a.pc = "complete", a.stage \in Stages, b.pc = "idle",
         q[a.stage] = "succeeded", ~m[a.stage].open,
         \A t \in Stages \ {a.stage} : q[t] = r[t] /\ m[t] = n[t]
  PROVE  /\ TriggersOk(r, n, a, tags) => TriggersOk(q, m, b, tags)
         /\ ProcessedOk(r, n, a, tags) => ProcessedOk(q, m, b, tags)
  <1> DEFINE s == a.stage
  <1>1. /\ ~Closing(a) /\ ~Closing(b) /\ ~Read(b) /\ b.pc # "retiring" /\ Working(a)
        /\ r[s] = "running" /\ n[s].landed /\ n[s].open
    BY DEF Closing, Read, Working, OrderOk
  <1>2. \A t \in Stages : ~(q[t] \in Active /\ m[t].open)
    BY <1>1, NoOtherIntent
  <1>3. \A t \in Stages : q[t] \in Active => t # s /\ r[t] \in Active
    BY DEF Active
  <1>4. ASSUME TriggersOk(r, n, a, tags)
        PROVE  TriggersOk(q, m, b, tags)
    <2>1. Clean(tags, s) /\ (LastOf(r, s) => ProcessTag \notin tags \ touched)
      BY <1>1, <1>4 DEF TriggersOk, Active
    <2>2. ASSUME NEW t \in Stages, Settled(q, b, t) PROVE Clean(tags, t)
      <3>1. CASE t = s
        BY <2>1, <3>1
      <3>2. CASE t # s
        <4>1. Settled(r, a, t)
          BY <1>1, <2>2, <3>2 DEF Settled, Owes
        <4> QED BY <4>1, <1>4 DEF TriggersOk
      <3> QED BY <3>1, <3>2
    <2>3. (\A t \in Stages : q[t] \notin Active) => LastOf(r, s)
      BY DEF LastOf
    <2> QED BY <1>1, <1>2, <2>1, <2>2, <2>3 DEF TriggersOk
  <1>5. ASSUME ProcessedOk(r, n, a, tags)
        PROVE  ProcessedOk(q, m, b, tags)
    BY <1>1, <1>2, <1>3, <1>5 DEF ProcessedOk
  <1> QED BY <1>4, <1>5

(* An intent is opened: its tags are those of the plan or of the document, with the
   marks of the stage and without its triggers. *)
LEMMA OpenTags ==
  ASSUME Typed, NEW n, NEW b, TagsDistinct, OrderOk(run, intent, attempt), PlanOk(attempt, paper.tags),
         attempt.pc = "prepare", b.pc = "send", b.stage = attempt.stage,
         ~intent[attempt.stage].open, n[attempt.stage].open, ~n[attempt.stage].landed,
         \A t \in Stages \ {attempt.stage} : n[t] = intent[t],
         n[attempt.stage].patch.tags =
           ((IF attempt.patch.lists THEN attempt.patch.tags ELSE paper.tags)
              \cup {DoneTag[attempt.stage]} \cup (IF attempt.final THEN {ProcessedTag} ELSE {}))
             \ Retired(attempt.stage, attempt.final)
  PROVE  /\ TriggersOk(run, intent, attempt, paper.tags) => TriggersOk(run, n, b, paper.tags)
         /\ ProcessedOk(run, intent, attempt, paper.tags) => ProcessedOk(run, n, b, paper.tags)
  <1> DEFINE s == attempt.stage
             base == IF attempt.patch.lists THEN attempt.patch.tags ELSE paper.tags
             tags == n[s].patch.tags
  <1>1. /\ s \in Stages /\ ~Closing(attempt) /\ ~Closing(b) /\ ~Read(b) /\ b.pc # "retiring"
        /\ run[s] = "running" /\ ~intent[s].landed /\ (attempt.final <=> LastOf(run, s))
    BY AttemptFacts DEF Closing, Read, OrderOk, Working
  <1>2. attempt.patch.lists => Read(attempt) /\ Vetted(attempt)
    BY <1>1, StageFacts DEF PlanOk, Planned, Read
  <1>3. \A t \in base : t \in Workflow =>
          t \in paper.tags \/ (Read(attempt) /\ t \in attempt.seen.tags)
    BY <1>2 DEF Vetted
  <1>4. \A t \in tags : t \in base \/ t = DoneTag[s] \/ (t = ProcessedTag /\ attempt.final)
    OBVIOUS
  <1>5. \A u \in Stages : TriggersOf[u] \cap ({ProcessedTag} \cup {DoneTag[s]}) = {}
    BY <1>1, StageFacts DEF TagsDistinct, TriggerTags
  <1> HIDE DEF base
  <1>6. ASSUME TriggersOk(run, intent, attempt, paper.tags)
        PROVE  TriggersOk(run, n, b, paper.tags)
    <2>1. \A u \in Stages : Settled(run, b, u) => Settled(run, attempt, u) /\ u # s
      BY <1>1 DEF Settled, Owes
    <2>2. ASSUME NEW u \in Stages, Settled(run, b, u) PROVE Clean(tags, u)
      <3>1. Clean(paper.tags, u) /\ (Read(attempt) => Clean(attempt.seen.tags, u))
        BY <2>1, <2>2, <1>6 DEF TriggersOk
      <3> HIDE DEF tags
      <3> QED BY <3>1, <1>3, <1>4, <1>5, StageFacts DEF Clean
    <2>3. ASSUME NEW u \in Stages, Settled(run, b, u)
          PROVE  /\ Clean(paper.tags, u)
                 /\ \A t \in Stages : run[t] \in Active /\ n[t].open => Clean(n[t].patch.tags, u)
      <3>1. Clean(tags, u)
        BY <2>2, <2>3
      <3>2. /\ Clean(paper.tags, u)
            /\ \A t \in Stages : run[t] \in Active /\ intent[t].open => Clean(intent[t].patch.tags, u)
        BY <2>1, <2>3, <1>6 DEF TriggersOk
      <3> QED BY <3>1, <3>2
    <2>4. Clean(tags, s) /\ (LastOf(run, s) => ProcessTag \notin tags)
      BY <1>1 DEF Clean, Retired
    <2>5. ASSUME NEW t \in Stages, run[t] \in Active, n[t].open
          PROVE  /\ Clean(n[t].patch.tags, t) /\ (n[t].landed => Clean(paper.tags, t))
                 /\ LastOf(run, t) => /\ ProcessTag \notin n[t].patch.tags
                                      /\ n[t].landed => ProcessTag \notin paper.tags \ touched
      <3>1. CASE t = s
        BY <2>4, <3>1
      <3>2. CASE t # s
        BY <2>5, <3>2, <1>6 DEF TriggersOk
      <3> QED BY <3>1, <3>2
    <2>6. run[s] \in Active
      BY <1>1 DEF Active
    <2> HIDE DEF tags
    <2> QED BY <1>1, <2>3, <2>5, <2>6 DEF TriggersOk
  <1>7. ASSUME ProcessedOk(run, intent, attempt, paper.tags)
        PROVE  ProcessedOk(run, n, b, paper.tags)
    <2>1. run[s] \in Active
      BY <1>1 DEF Active
    <2>2. ~Marked(paper.tags) /\ (Read(attempt) => ~Marked(attempt.seen.tags))
      BY <1>1, <1>7, <2>1 DEF ProcessedOk
    <2>3. DoneTag[s] # ProcessedTag
      BY <1>1 DEF TagsDistinct
    <2>4. Marked(tags) => LastOf(run, s)
      <3> HIDE DEF tags
      <3> QED BY <2>2, <2>3, <1>1, <1>3, <1>4, StageFacts DEF Marked
    <2>5. \A t \in Stages : run[t] \in Active /\ n[t].open /\ Marked(n[t].patch.tags) => LastOf(run, t)
      <3> TAKE t \in Stages
      <3>1. CASE t = s
        BY <2>4, <3>1
      <3>2. CASE t # s
        BY <3>2, <1>7 DEF ProcessedOk
      <3> QED BY <3>1, <3>2
    <2> QED BY <1>1, <2>2, <2>5 DEF ProcessedOk
  <1> QED BY <1>6, <1>7

LEMMA LandTags ==
  ASSUME NEW r, NEW n, NEW m, NEW a, NEW b, NEW tags, OrderOk(r, n, a),
         a.pc = "send", a.stage \in Stages, ~Closing(b), ~Read(b),
         \A t \in Stages : m[t].open = n[t].open /\ m[t].patch = n[t].patch,
         \A t \in Stages \ {a.stage} : m[t] = n[t], m[a.stage].landed
  PROVE  /\ TriggersOk(r, n, a, tags) => TriggersOk(r, m, b, n[a.stage].patch.tags)
         /\ ProcessedOk(r, n, a, tags) => ProcessedOk(r, m, b, n[a.stage].patch.tags)
  <1> DEFINE s == a.stage
             new == n[s].patch.tags
  <1>1. /\ ~Closing(a) /\ Working(a) /\ r[s] = "running" /\ n[s].open /\ b.pc # "retiring"
    BY DEF Closing, Working, OrderOk
  <1>2. r[s] \in Active
    BY <1>1 DEF Active
  <1>3. \A t \in Stages \ {s} : ~(r[t] \in Active /\ n[t].open)
    BY <1>1, NoOtherIntent
  <1>4. ASSUME TriggersOk(r, n, a, tags)
        PROVE  TriggersOk(r, m, b, new)
    <2>1. \A u \in Stages : Settled(r, b, u) => Settled(r, a, u)
      BY <1>1 DEF Settled, Owes
    <2>2. ASSUME NEW u \in Stages, Settled(r, b, u)
          PROVE  /\ Clean(new, u)
                 /\ \A t \in Stages : r[t] \in Active /\ m[t].open => Clean(m[t].patch.tags, u)
      BY <1>1, <1>2, <1>4, <2>1, <2>2 DEF TriggersOk
    <2>3. Clean(new, s) /\ (LastOf(r, s) => ProcessTag \notin new)
      BY <1>1, <1>2, <1>4 DEF TriggersOk
    <2>4. \A t \in Stages : r[t] \in Active /\ m[t].open => t = s
      BY <1>3
    <2>5. m[s].patch.tags = new
      OBVIOUS
    <2> HIDE DEF new
    <2> QED BY <1>1, <1>2, <2>2, <2>3, <2>4, <2>5 DEF TriggersOk
  <1>5. ASSUME ProcessedOk(r, n, a, tags)
        PROVE  ProcessedOk(r, m, b, new)
    <2>1. Marked(new) => LastOf(r, s)
      BY <1>1, <1>2, <1>5 DEF ProcessedOk
    <2>2. LastOf(r, s) => \A t \in Stages : r[t] \in Active => m[t].landed
      BY DEF LastOf
    <2>3. \A t \in Stages : r[t] \in Active /\ m[t].open => t = s
      BY <1>3
    <2>4. m[s].patch.tags = new
      OBVIOUS
    <2> HIDE DEF new
    <2> QED BY <1>1, <2>1, <2>2, <2>3, <2>4 DEF ProcessedOk
  <1> QED BY <1>4, <1>5

(* The triggers are retired after an outcome without a write. *)
LEMMA RetireTags ==
  ASSUME Typed, NEW b, NEW tags, TagsDistinct, OrderOk(run, intent, attempt), attempt.pc = "retiring",
         b.pc = "idle", tags = (attempt.seen.tags \ Removals) \cup Additions
  PROVE  /\ TriggersOk(run, intent, attempt, paper.tags) => TriggersOk(run, intent, b, tags)
         /\ ProcessedOk(run, intent, attempt, paper.tags) => ProcessedOk(run, intent, b, tags)
  <1> DEFINE s == attempt.stage
  <1>1. /\ s \in Stages /\ Closing(attempt) /\ ~Closing(b) /\ ~Read(b) /\ b.pc # "retiring"
        /\ run[s] \in {"succeeded", "failed"} /\ (attempt.final <=> attempt.failed \/ LastOf(run, s))
        /\ (attempt.failed => \A t \in Stages : run[t] \notin Active)
    BY AttemptFacts DEF Closing, Read, OrderOk
  <1>2. \A t \in Stages : ~(run[t] \in Active /\ intent[t].open)
    BY <1>1, NoOtherIntent DEF Active
  <1>3. \A u \in Stages : TriggersOf[u] \subseteq TriggerTags /\ ProcessTag \in TriggerTags
    BY DEF TriggerTags
  <1>4. TriggerTags \cap Additions = {}
    BY <1>1 DEF Additions, TagsDistinct
  <1>5. ASSUME TriggersOk(run, intent, attempt, paper.tags)
        PROVE  TriggersOk(run, intent, b, tags)
    <2>1. ASSUME NEW u \in Stages, Settled(run, b, u) PROVE Clean(tags, u)
      <3>1. CASE attempt.failed
        BY <3>1, <1>3, <1>4 DEF Removals, Clean
      <3>2. CASE ~attempt.failed /\ u = s
        BY <3>2, <1>3, <1>4 DEF Removals, Retired, Clean
      <3>3. CASE ~attempt.failed /\ u # s
        <4>1. Settled(run, attempt, u)
          BY <2>1, <3>3 DEF Settled, Owes
        <4>2. Clean(attempt.seen.tags, u)
          BY <1>5, <4>1 DEF TriggersOk
        <4> QED BY <4>2, <1>3, <1>4 DEF Clean
      <3> QED BY <3>1, <3>2, <3>3
    <2>2. ASSUME \A t \in Stages : run[t] \notin Active PROVE ProcessTag \notin tags
      <3>1. attempt.final
        BY <1>1, <2>2 DEF LastOf
      <3>2. ProcessTag \in Removals
        BY <3>1 DEF Removals, Retired, TriggerTags
      <3>3. ProcessTag \notin Additions
        BY <1>4 DEF TriggerTags
      <3> QED BY <3>2, <3>3
    <2> QED BY <1>1, <1>2, <2>1, <2>2 DEF TriggersOk
  <1>6. ASSUME ProcessedOk(run, intent, attempt, paper.tags)
        PROVE  ProcessedOk(run, intent, b, tags)
    <2>1. CASE attempt.failed
      BY <2>1, <1>1, <1>2 DEF ProcessedOk
    <2>2. CASE ~attempt.failed
      <3>1. Marked(tags) => Marked(attempt.seen.tags)
        BY <2>2 DEF Marked, Additions
      <3> QED BY <3>1, <1>1, <1>2, <1>6 DEF ProcessedOk
    <2> QED BY <2>1, <2>2
  <1> QED BY <1>5, <1>6

(* A tag somebody changes is touched, and nothing the invariant says is about it. *)
LEMMA EditTriggers ==
  ASSUME Typed, NEW t \in Tags, EditTag(t)
  PROVE  /\ TriggersOk(run, intent, attempt, paper.tags) => TriggersOk(run, intent, attempt, paper.tags)'
         /\ ProcessedOk(run, intent, attempt, paper.tags) => ProcessedOk(run, intent, attempt, paper.tags)'
  <1>1. /\ touched' = touched \cup {t} /\ UNCHANGED <<run, intent, attempt>>
        /\ paper.tags' \ {t} = paper.tags \ {t}
    BY DEF EditTag, Typed, Papers
  <1>2. \A x, s : Clean(x, s) => Clean(x, s)'
    BY <1>1 DEF Clean
  <1>3. \A s : Clean(paper.tags, s) => Clean(paper.tags, s)'
    BY <1>1 DEF Clean
  <1>4. \A x : Marked(x)' => Marked(x)
    BY <1>1 DEF Marked
  <1>5. Marked(paper.tags)' => Marked(paper.tags)
    BY <1>1 DEF Marked
  <1>6. ProcessTag \notin paper.tags \ touched => ProcessTag \notin paper.tags' \ touched'
    BY <1>1
  <1>7. ASSUME TriggersOk(run, intent, attempt, paper.tags)
        PROVE  TriggersOk(run, intent, attempt, paper.tags)'
    <2>1. ASSUME NEW s \in Stages, Settled(run, attempt, s)
          PROVE  /\ Clean(paper.tags, s)'
                 /\ Read(attempt) \/ attempt.pc = "retiring" => Clean(attempt.seen.tags, s)'
                 /\ \A u \in Stages : run[u] \in Active /\ intent[u].open => Clean(intent[u].patch.tags, s)'
      BY <1>1, <1>2, <1>3, <1>7, <2>1 DEF TriggersOk, Clean
    <2>2. ASSUME NEW s \in Stages, run[s] \in Active, intent[s].open
          PROVE  /\ Clean(intent[s].patch.tags, s)' /\ (intent[s].landed => Clean(paper.tags, s)')
                 /\ LastOf(run, s) => /\ ProcessTag \notin intent[s].patch.tags
                                      /\ intent[s].landed => ProcessTag \notin paper.tags' \ touched'
      BY <1>1, <1>3, <1>6, <1>7, <2>2 DEF TriggersOk, Clean
    <2>3. (\A s \in Stages : run[s] \notin Active) /\ ~Closing(attempt) => ProcessTag \notin paper.tags' \ touched'
      BY <1>6, <1>7 DEF TriggersOk
    <2> QED BY <1>1, <2>1, <2>2, <2>3 DEF TriggersOk, Settled, Owes, Closing, Read, LastOf, Clean
  <1>8. ASSUME ProcessedOk(run, intent, attempt, paper.tags)
        PROVE  ProcessedOk(run, intent, attempt, paper.tags)'
    BY <1>1, <1>4, <1>5, <1>8 DEF ProcessedOk, Marked, Read, LastOf
  <1> QED BY <1>7, <1>8

-----------------------------------------------------------------------------
(* The tags of the workflow through every step.                             *)

(* The two parts about tags, out telling that an attempt was cut off. *)
TagsOk(r, n, a, tags, out) ==
  /\ ~policy.dryRun /\ ~out => TriggersOk(r, n, a, tags)
  /\ ProcessedOk(r, n, a, tags)

LEMMA MoveTags ==
  ASSUME NEW r, NEW q, NEW n, NEW a, NEW b, NEW tags, TagsOk(r, n, a, tags, excused),
         SameRun(r, q), ~Closing(a), ~Closing(b),
         Read(b) => b.seen.tags = tags \/ (Read(a) /\ b.seen.tags = a.seen.tags)
  PROVE  TagsOk(q, n, b, tags, excused)
  <1>1. SeenFrom(a, b, tags)
    BY DEF SeenFrom, Closing
  <1> QED BY <1>1, MoveTriggers, MoveProcessed DEF TagsOk

LEMMA EndTags ==
  ASSUME NEW q, Typed, OrderOk(run, intent, attempt), TagsOk(run, intent, attempt, paper.tags, excused),
         Working(attempt), NEW b, b.pc = "retire", b.stage = attempt.stage, q[attempt.stage] \notin Active,
         \/ b.failed /\ \A t \in Stages : q[t] \notin Active
         \/ \A t \in Stages \ {attempt.stage} : q[t] = run[t]
  PROVE  TagsOk(q, intent, b, paper.tags, excused)
  BY AttemptFacts, EndTriggers, EndProcessed DEF TagsOk

LEMMA SameRunSelf ==
  ASSUME NEW r
  PROVE  SameRun(r, r)
  BY DEF SameRun

LEMMA ClaimTags ==
  ASSUME Typed, OrderOk(run, intent, attempt), TagsOk(run, intent, attempt, paper.tags, excused),
         NEW s \in Stages, ClaimStage(s)
  PROVE  TagsOk(run', intent', attempt', paper'.tags, excused')
  <1>1. attempt'.pc = (IF s = "ocr" THEN "ask" ELSE "read") /\ attempt'.stage = s
    BY DEF ClaimStage, NoAttempt
  <1>2. attempt.pc = "idle" /\ run[s] = "queued" /\ UNCHANGED <<intent, paper, excused>>
    BY DEF ClaimStage, At
  <1>3. SameRun(run, run')
    BY <1>2, AttemptFacts DEF ClaimStage, SameRun, Active, Over
  <1>4. ~Closing(attempt) /\ ~Closing(attempt') /\ ~Read(attempt')
    BY <1>1, <1>2 DEF Closing, Read
  <1> QED BY <1>2, <1>3, <1>4, MoveTags

LEMMA StepTags ==
  ASSUME Typed, OrderOk(run, intent, attempt), TagsOk(run, intent, attempt, paper.tags, excused),
         ReadDocument \/ Ask \/ Route \/ Decide
  PROVE  TagsOk(run', intent', attempt', paper'.tags, excused')
  <1>1. UNCHANGED <<intent, paper, excused>> /\ attempt.pc \in {"read", "ask", "route", "decide"}
    BY DEF ReadDocument, Ask, Route, Decide, At
  <1>2. Working(attempt) /\ ~Closing(attempt) /\ attempt.pc # "retiring" /\ run[attempt.stage] = "running"
    BY <1>1 DEF Working, Closing, OrderOk
  <1>3. ASSUME run' = run, ~Closing(attempt'),
               Read(attempt') => attempt'.seen.tags = paper.tags \/ (Read(attempt) /\ attempt'.seen.tags = attempt.seen.tags)
        PROVE  TagsOk(run', intent', attempt', paper'.tags, excused')
    BY <1>1, <1>2, <1>3, SameRunSelf, MoveTags
  <1>4. CASE Ended(attempt.stage, "succeeded") /\ GoTo("retire")
    <2>1. attempt'.pc = "retire" /\ attempt'.stage = attempt.stage
      BY <1>4, AttemptFacts DEF GoTo, Attempts
    <2>2. run'[attempt.stage] \notin Active /\ \A t \in Stages \ {attempt.stage} : run'[t] = run[t]
      BY <1>4, AttemptFacts DEF Ended, Active
    <2> QED BY <1>1, <1>2, <2>1, <2>2, EndTags
  <1>5. CASE ReadDocument
    <2>1. attempt.stage = "metadata"
      BY <1>5 DEF ReadDocument, At, OrderOk
    <2>2. CASE attempt' = [attempt EXCEPT !.pc = "ask", !.seen = paper] /\ run' = run
      <3>1. attempt'.pc = "ask" /\ attempt'.seen = paper
        BY <2>2, AttemptFacts DEF Attempts
      <3> QED BY <3>1, <2>2, <1>3 DEF Closing
    <2>3. CASE GoTo("failing") /\ run' = run
      <3>1. attempt'.pc = "failing"
        BY <2>3, AttemptFacts DEF GoTo, Attempts
      <3> QED BY <3>1, <2>3, <1>3 DEF Closing, Read
    <2> QED BY <1>4, <1>5, <2>1, <2>2, <2>3 DEF ReadDocument
  <1>6. CASE Ask
    <2>0. attempt.pc = "ask"
      BY <1>6 DEF Ask, At
    <2>1. CASE Fails /\ run' = run
      <3>1. attempt'.pc = "failing"
        BY <2>1, AttemptFacts DEF Fails, Attempts
      <3> QED BY <3>1, <2>1, <1>3 DEF Closing, Read
    <2>2. ASSUME run' = run, attempt'.pc = "route", attempt'.stage = attempt.stage, attempt'.seen = attempt.seen
          PROVE  TagsOk(run', intent', attempt', paper'.tags, excused')
      BY <2>0, <2>2, <1>3 DEF Closing, Read
    <2>3. CASE GoTo("route") /\ run' = run
      BY <2>2, <2>3, AttemptFacts DEF GoTo, Attempts
    <2>4. ASSUME run' = run, NEW said, NEW differs,
                 attempt' = [attempt EXCEPT !.pc = "route", !.said = said, !.differs = differs]
          PROVE  TagsOk(run', intent', attempt', paper'.tags, excused')
      BY <2>2, <2>4, AttemptFacts DEF Attempts
    <2> QED BY <1>4, <1>6, <2>1, <2>3, <2>4 DEF Ask
  <1>7. CASE Route
    <2>1. CASE Ended(attempt.stage, "review") /\ attempt' = NoAttempt
      <3>1. SameRun(run, run')
        BY <1>2, <2>1, AttemptFacts DEF Ended, SameRun, Active, Over
      <3>2. ~Closing(attempt') /\ ~Read(attempt')
        BY <2>1 DEF NoAttempt, Closing, Read
      <3> QED BY <1>1, <1>2, <3>1, <3>2, MoveTags
    <2>2. ASSUME run' = run, NEW q, attempt' = [attempt EXCEPT !.pc = "decide", !.patch = q],
                 attempt.pc = "route"
          PROVE  TagsOk(run', intent', attempt', paper'.tags, excused')
      <3>1. attempt'.pc = "decide" /\ attempt'.stage = attempt.stage /\ attempt'.seen = attempt.seen
        BY <2>2, AttemptFacts DEF Attempts
      <3> QED BY <2>2, <3>1, <1>3 DEF Closing, Read
    <2> QED BY <1>4, <1>7, <2>1, <2>2 DEF Route, At
  <1>8. CASE Decide
    <2>1. PICK q : attempt' = [attempt EXCEPT !.pc = "prepare", !.final = LastActive, !.patch = q]
      BY <1>8 DEF Decide
    <2>2. attempt'.pc = "prepare" /\ attempt'.stage = attempt.stage /\ attempt'.seen = attempt.seen
      BY <2>1, AttemptFacts DEF Attempts
    <2>3. run' = run /\ attempt.pc = "decide"
      BY <1>8 DEF Decide, At
    <2> QED BY <2>2, <2>3, <1>3 DEF Closing, Read
  <1> QED BY <1>5, <1>6, <1>7, <1>8

LEMMA PrepareTags ==
  ASSUME IInv, TagsDistinct, Prepare
  PROVE  TagsOk(run', intent', attempt', paper'.tags, excused')
  <1> DEFINE s == attempt.stage
             base == IF attempt.patch.lists THEN attempt.patch.tags ELSE paper.tags
             marks == {DoneTag[s]} \cup IF attempt.final THEN {ProcessedTag} ELSE {}
             body == [attempt.patch EXCEPT !.lists = TRUE, !.tags = (base \cup marks) \ Retired(s, attempt.final)]
  <1>1. /\ Typed /\ OrderOk(run, intent, attempt) /\ PlanOk(attempt, paper.tags)
        /\ TagsOk(run, intent, attempt, paper.tags, excused)
        /\ UNCHANGED <<run, paper, excused>> /\ attempt.pc = "prepare" /\ s \in Stages
    BY AttemptFacts DEF IInv, TagsOk, Prepare, At
  <1>2. PICK x \in {"complete", "send", "failing"} : attempt' = [attempt EXCEPT !.pc = x]
    BY DEF Prepare, GoTo
  <1>3. attempt'.pc = x /\ attempt'.stage = s /\ ~Closing(attempt) /\ ~Closing(attempt') /\ ~Read(attempt')
    BY <1>1, <1>2, AttemptFacts DEF Attempts, Closing, Read
  <1>4. CASE intent' = intent
    BY <1>1, <1>3, <1>4, SameRunSelf, MoveTags
  <1>5. CASE /\ ~intent[s].open /\ GoTo("send")
             /\ intent' = [intent EXCEPT ![s] = [open |-> TRUE, landed |-> FALSE, patch |-> body]]
    <2>1. attempt'.pc = "send"
      BY <1>1, <1>5, AttemptFacts DEF GoTo, Attempts
    <2>2. /\ intent'[s].open /\ ~intent'[s].landed /\ intent'[s].patch = body
          /\ \A t \in Stages \ {s} : intent'[t] = intent[t]
      BY <1>1, <1>5, AttemptFacts
    <2>3. body.tags = (base \cup marks) \ Retired(s, attempt.final)
      BY <1>1, AttemptFacts DEF Attempts, Patches
    <2>4. /\ TriggersOk(run, intent, attempt, paper.tags) => TriggersOk(run, intent', attempt', paper.tags)
          /\ ProcessedOk(run, intent, attempt, paper.tags) => ProcessedOk(run, intent', attempt', paper.tags)
      <3>1. intent'[s].patch.tags =
              ((IF attempt.patch.lists THEN attempt.patch.tags ELSE paper.tags)
                 \cup {DoneTag[s]} \cup (IF attempt.final THEN {ProcessedTag} ELSE {}))
                \ Retired(s, attempt.final)
        BY <2>2, <2>3
      <3> HIDE DEF body, base, marks
      <3> QED BY <1>1, <1>3, <1>5, <2>1, <2>2, <3>1, OpenTags
    <2> QED BY <1>1, <2>4 DEF TagsOk
  <1> QED BY <1>4, <1>5 DEF Prepare

LEMMA SendTags ==
  ASSUME IInv, TagsDistinct, SendPatch
  PROVE  TagsOk(run', intent', attempt', paper'.tags, excused')
  <1> DEFINE s == attempt.stage
  <1>1. /\ Typed /\ OrderOk(run, intent, attempt) /\ TagsOk(run, intent, attempt, paper.tags, excused)
        /\ UNCHANGED <<run, excused>> /\ attempt.pc = "send" /\ s \in Stages
    BY AttemptFacts DEF IInv, TagsOk, SendPatch, At
  <1>2. attempt'.pc \in {"complete", "failing"}
    <2>1. CASE Fails
      BY <2>1, AttemptFacts, <1>1 DEF Fails, Attempts
    <2> QED BY <2>1, AttemptFacts, <1>1 DEF SendPatch, GoTo, Attempts
  <1>3. ~Closing(attempt) /\ ~Closing(attempt') /\ ~Read(attempt')
    BY <1>1, <1>2 DEF Closing, Read
  <1>4. CASE UNCHANGED <<paper, intent>>
    BY <1>1, <1>3, <1>4, SameRunSelf, MoveTags
  <1>5. CASE paper' = Patched(intent[s].patch) /\ intent' = [intent EXCEPT ![s].landed = TRUE]
    <2>1. intent' = [intent EXCEPT ![s] = [intent[s] EXCEPT !.landed = TRUE]]
      BY <1>5
    <2>2. \A t \in Stages : intent[t] \in [open : BOOLEAN, landed : BOOLEAN, patch : Patches]
      BY <1>1 DEF Typed
    <2>3. /\ \A t \in Stages : intent'[t].open = intent[t].open /\ intent'[t].patch = intent[t].patch
          /\ \A t \in Stages \ {s} : intent'[t] = intent[t]
          /\ intent'[s].landed
      BY <1>1, <2>1, <2>2, AttemptFacts
    <2>4. paper'.tags = intent[s].patch.tags
      BY <1>5 DEF Patched
    <2>5. /\ TriggersOk(run, intent, attempt, paper.tags) => TriggersOk(run, intent', attempt', paper'.tags)
          /\ ProcessedOk(run, intent, attempt, paper.tags) => ProcessedOk(run, intent', attempt', paper'.tags)
      BY <1>1, <1>3, <2>3, <2>4, LandTags
    <2> QED BY <1>1, <2>5 DEF TagsOk
  <1> QED BY <1>4, <1>5 DEF SendPatch

LEMMA CloseTags ==
  ASSUME IInv, TagsDistinct, CompleteStage \/ FailStage \/ RetireRead \/ RetireWrite \/ Lost
  PROVE  TagsOk(run', intent', attempt', paper'.tags, excused')
  <1> DEFINE s == attempt.stage
  <1>1. /\ Typed /\ OrderOk(run, intent, attempt) /\ TagsOk(run, intent, attempt, paper.tags, excused)
        /\ s \in Stages
    BY AttemptFacts DEF IInv, TagsOk
  <1>2. NoAttempt.pc = "idle" /\ ~Closing(NoAttempt) /\ ~Read(NoAttempt)
    BY DEF NoAttempt, Closing, Read
  <1>3. CASE CompleteStage
    <2>1. /\ attempt.pc = "complete" /\ attempt' = NoAttempt /\ UNCHANGED <<paper, excused>>
          /\ run'[s] = "succeeded" /\ ~intent'[s].open
          /\ \A t \in Stages \ {s} : run'[t] = run[t] /\ intent'[t] = intent[t]
      BY <1>3, AttemptFacts, <1>1 DEF CompleteStage, At, Ended, NoIntent
    <2> QED BY <1>1, <1>2, <2>1, CompleteTags DEF TagsOk
  <1>4. CASE FailStage
    <2>1. attempt.pc = "failing" /\ UNCHANGED <<paper, intent, excused>>
      BY <1>4 DEF FailStage, At
    <2>2. Working(attempt) /\ ~Closing(attempt) /\ run[s] = "running"
      BY <1>1, <2>1 DEF Working, Closing, OrderOk
    <2>3. CASE Ended(s, "queued") /\ attempt' = NoAttempt
      <3>1. SameRun(run, run')
        BY <1>1, <2>2, <2>3, AttemptFacts DEF Ended, SameRun, Active, Over
      <3> QED BY <1>1, <1>2, <2>1, <2>2, <2>3, <3>1, MoveTags
    <2>4. CASE /\ run' = [t \in Stages |-> IF t = s THEN "failed"
                                           ELSE IF run[t] \in Active THEN "cancelled" ELSE run[t]]
               /\ attempt' = [attempt EXCEPT !.pc = "retire", !.failed = TRUE]
      <3>1. \A t \in Stages : run'[t] \notin Active
        BY <2>4 DEF Active
      <3>2. attempt'.pc = "retire" /\ attempt'.stage = s /\ attempt'.failed
        BY <1>1, <2>4, AttemptFacts DEF Attempts
      <3> QED BY <1>1, <2>1, <2>2, <3>1, <3>2, EndTags
    <2> QED BY <1>4, <2>3, <2>4 DEF FailStage
  <1>5. CASE RetireRead
    <2>1. attempt.pc = "retire" /\ UNCHANGED <<run, paper, intent, excused>> /\ Closing(attempt)
      BY <1>5 DEF RetireRead, At, Closing
    <2>2. CASE policy.dryRun /\ attempt' = NoAttempt
      BY <1>1, <1>2, <2>1, <2>2, SameRunSelf, MoveProcessed DEF TagsOk, SeenFrom
    <2>3. CASE attempt' = [attempt EXCEPT !.pc = "retiring", !.seen = paper,
                                          !.final = attempt.failed \/ LastActive]
      <3> DEFINE final == attempt.failed \/ LastActive
      <3>1. attempt' = [attempt EXCEPT !.pc = "retiring", !.seen = paper, !.final = final]
        BY <2>3
      <3> HIDE DEF final
      <3>2. attempt'.pc = "retiring" /\ attempt'.seen = paper /\ attempt'.stage = s /\ attempt'.failed = attempt.failed
        BY <1>1, <3>1, AttemptFacts DEF Attempts
      <3>3. SeenFrom(attempt, attempt', paper.tags) /\ Closing(attempt')
        BY <3>2 DEF SeenFrom, Closing
      <3> QED BY <1>1, <2>1, <3>2, <3>3, SameRunSelf, MoveTriggers, MoveProcessed DEF TagsOk
    <2> QED BY <1>5, <2>2, <2>3 DEF RetireRead
  <1>6. CASE RetireWrite
    <2>1. attempt.pc = "retiring" /\ UNCHANGED <<run, intent>> /\ attempt' = NoAttempt
      BY <1>6 DEF RetireWrite, At
    <2>2. CASE paper' = [paper EXCEPT !.tags = (attempt.seen.tags \ Removals) \cup Additions] /\ excused' = excused
      <3>1. paper'.tags = (attempt.seen.tags \ Removals) \cup Additions
        BY <1>1, <2>2 DEF Typed, Papers
      <3> QED BY <1>1, <1>2, <2>1, <2>2, <3>1, RetireTags DEF TagsOk
    <2>3. CASE excused' = TRUE /\ paper' = paper
      BY <1>1, <1>2, <2>1, <2>3, SameRunSelf, MoveProcessed DEF TagsOk, SeenFrom
    <2> QED BY <1>6, <2>2, <2>3 DEF RetireWrite
  <1>7. CASE Lost
    <2>1. attempt.pc # "idle" /\ attempt' = NoAttempt /\ UNCHANGED <<paper, intent>>
      BY <1>7 DEF Lost, At
    <2>2. excused' = (excused \/ run[s] # "running" \/ tries[s] = MaxTries)
      BY <1>7 DEF Lost
    <2>3. CASE run[s] # "running"
      <3>1. run' = run
        BY <1>1, <1>7, <2>3, AttemptFacts DEF Lost
      <3> QED BY <1>1, <1>2, <2>1, <2>2, <2>3, <3>1, SameRunSelf, MoveProcessed DEF TagsOk, SeenFrom
    <2>4. CASE run[s] = "running" /\ tries[s] < MaxTries
      <3>1. SameRun(run, run')
        BY <1>1, <1>7, <2>4, AttemptFacts DEF Lost, SameRun, Active, Over
      <3>2. ~Closing(attempt)
        BY <1>1, <2>4 DEF OrderOk, Closing
      <3>3. TagsOk(run', intent, NoAttempt, paper.tags, excused)
        BY <1>1, <1>2, <3>1, <3>2, MoveTags
      <3> QED BY <2>1, <2>2, <3>3 DEF TagsOk
    <2>5. CASE run[s] = "running" /\ ~(tries[s] < MaxTries)
      <3>1. tries[s] = MaxTries
        <4>1. tries[s] \in 0..MaxTries
          BY <1>1 DEF Typed
        <4>2. MaxTries \in Nat
          BY StagesAssumption
        <4> QED BY <4>1, <4>2, <2>5
      <3>2. \A t \in Stages : run'[t] \notin Active
        BY <1>7, <2>5 DEF Lost, Active
      <3>3. ProcessedOk(run', intent, NoAttempt, paper.tags)
        BY <3>2 DEF ProcessedOk
      <3> QED BY <2>1, <2>2, <3>1, <3>3 DEF TagsOk
    <2> QED BY <2>3, <2>4, <2>5
  <1> QED BY <1>3, <1>4, <1>5, <1>6, <1>7

-----------------------------------------------------------------------------
(* The invariant.                                                          *)

LEMMA SameTouched ==
  ASSUME touched' = touched, policy' = policy
  PROVE  /\ PlanOk(attempt', paper'.tags) => PlanOk(attempt, paper.tags)'
         /\ TagsOk(run', intent', attempt', paper'.tags, excused')
              => TagsOk(run, intent, attempt, paper.tags, excused)'
  <1>1. PlanOk(attempt', paper'.tags) => PlanOk(attempt, paper.tags)'
    BY DEF PlanOk, Vetted, MayFill, Planned, Read
  <1>2. TriggersOk(run', intent', attempt', paper'.tags) => TriggersOk(run, intent, attempt, paper.tags)'
    BY DEF TriggersOk, Settled, Owes, Closing, Read, LastOf, Clean
  <1>3. ProcessedOk(run', intent', attempt', paper'.tags) => ProcessedOk(run, intent, attempt, paper.tags)'
    BY DEF ProcessedOk, Marked, Read, LastOf
  <1> QED BY <1>1, <1>2, <1>3 DEF TagsOk

LEMMA InitIInv == StagesInit => IInv
  <1> SUFFICES ASSUME StagesInit PROVE IInv
    OBVIOUS
  <1> USE DEF StagesInit
  <1>1. Typed
    <2>1. paper \in Papers
      BY DEF Papers
    <2>2. run \in [Stages -> Statuses] /\ tries \in [Stages -> 0..MaxTries]
      BY StagesAssumption DEF Statuses, Active
    <2> QED BY <2>1, <2>2, NoAttemptTyped DEF Typed
  <1>2. /\ attempt.pc = "idle" /\ \A s \in Stages : ~intent[s].open /\ ~intent[s].landed
        /\ \A s \in Stages : run[s] \in {"queued", "none"}
    BY DEF NoAttempt, NoIntent
  <1>3. OrderOk(run, intent, attempt)
    <2>1. run["ocr"] \in Active => run["metadata"] \in {"queued", "none"} /\ ~intent["metadata"].open
      BY <1>2, StageFacts
    <2> QED BY <1>2, <2>1, NoAttemptOrder
  <1>4. PlanOk(attempt, paper.tags)
    BY <1>2, Unplanned
  <1>5. TriggersOk(run, intent, attempt, paper.tags)
    BY <1>2 DEF TriggersOk, Settled, Closing, Active
  <1>6. ProcessedOk(run, intent, attempt, paper.tags)
    BY <1>2 DEF ProcessedOk, Marked, Read
  <1> QED BY <1>1, <1>3, <1>4, <1>5, <1>6 DEF IInv

LEMMA NextIInv ==
  ASSUME IInv, [StagesNext]_stageVars
  PROVE  IInv'
  <1>1. CASE UNCHANGED stageVars
    BY <1>1, SameTouched DEF stageVars, IInv, Typed, TagsOk
  <1>2. CASE StagesNext
    <2>1. policy' = policy
      BY <1>2 DEF StagesNext, ClaimStage, ReadDocument, Ask, Route, Decide, Prepare, SendPatch, CompleteStage,
                  FailStage, RetireRead, RetireWrite, Lost, EditTag, EditField, SwitchMode
    <2>2. Typed' /\ OrderOk(run', intent', attempt')
      BY <1>2, NextTyped, NextOrder
    <2>3. IInv => /\ Typed /\ OrderOk(run, intent, attempt)
                  /\ TagsDistinct => TagsOk(run, intent, attempt, paper.tags, excused)
      BY DEF IInv, TagsOk
    <2>4. ASSUME NEW t \in Tags, EditTag(t) PROVE IInv'
      <3>1. UNCHANGED <<run, intent, attempt, excused>> /\ touched \subseteq touched'
        BY <2>4 DEF EditTag
      <3>2. PlanOk(attempt, paper.tags)'
        <4>1. paper.tags' \subseteq paper.tags \cup touched'
          BY <2>3, <2>4 DEF EditTag, Typed, Papers
        <4> QED BY <2>1, <3>1, <4>1 DEF IInv, PlanOk, Vetted, MayFill, Planned, Read
      <3>3. TagsDistinct => TagsOk(run, intent, attempt, paper.tags, excused)'
        BY <2>1, <2>3, <2>4, <3>1, EditTriggers DEF TagsOk
      <3> QED BY <2>2, <3>1, <3>2, <3>3 DEF IInv, TagsOk, OrderOk, Working, Closing, LastOf
    <2>5. ASSUME touched' = touched,
                 TagsDistinct => TagsOk(run', intent', attempt', paper'.tags, excused')
          PROVE  IInv'
      <3>1. PlanOk(attempt, paper.tags)'
        BY <1>2, <2>1, <2>5, NextPlan, SameTouched
      <3>2. TagsDistinct => TagsOk(run, intent, attempt, paper.tags, excused)'
        BY <2>1, <2>5, SameTouched
      <3>3. OrderOk(run, intent, attempt)'
        BY <2>2 DEF OrderOk, Working, Closing, LastOf
      <3> QED BY <2>2, <3>1, <3>2, <3>3 DEF IInv, TagsOk
    <2>6. ASSUME NEW s \in Stages, ClaimStage(s) PROVE IInv'
      BY <2>3, <2>5, <2>6, ClaimTags DEF ClaimStage
    <2>7. CASE ReadDocument \/ Ask \/ Route \/ Decide
      <3>1. touched' = touched
        BY <2>7 DEF ReadDocument, Ask, Route, Decide
      <3> QED BY <2>3, <2>5, <2>7, <3>1, StepTags
    <2>8. CASE Prepare
      BY <2>5, <2>8, PrepareTags DEF Prepare
    <2>9. CASE SendPatch
      BY <2>5, <2>9, SendTags DEF SendPatch
    <2>10. CASE CompleteStage \/ FailStage \/ RetireRead \/ RetireWrite \/ Lost
      <3>1. touched' = touched
        BY <2>10 DEF CompleteStage, FailStage, RetireRead, RetireWrite, Lost
      <3> QED BY <2>5, <2>10, <3>1, CloseTags
    <2>11. ASSUME SwitchMode \/ \E f \in Fields : EditField(f) PROVE IInv'
      <3>1. UNCHANGED <<run, intent, attempt, excused, touched>> /\ paper'.tags = paper.tags
        BY <2>3, <2>11 DEF SwitchMode, EditField, Typed, Papers
      <3> QED BY <2>3, <2>5, <3>1
    <2> QED BY <1>2, <2>4, <2>6, <2>7, <2>8, <2>9, <2>10, <2>11 DEF StagesNext
  <1> QED BY <1>1, <1>2

LEMMA Inductive == StagesSpec => []IInv
  BY InitIInv, NextIInv, PTL DEF StagesSpec

-----------------------------------------------------------------------------
(* What the stages promise.                                                *)

(* What a finished run leaves on the document is so: no trigger of a stage that has
   ended and that nobody touched is left, and the mark of a processed document comes
   with the last write.  It needs the trigger tags to be others than the marks of an
   outcome, as they are by default (WorkflowTags::default) and as no validation of the
   settings demands. *)
THEOREM TagsAlwaysTellOutcome == TagsDistinct => (StagesSpec => []TagsTellOutcome)
  <1>1. ASSUME TagsDistinct, IInv PROVE TriggersRetired
    <2> SUFFICES ASSUME RunOver, NEW s \in Stages, run[s] # "none"
                 PROVE  paper.tags \cap (TriggersOf[s] \cup {ProcessTag}) \subseteq touched
      BY DEF TriggersRetired
    <2>1. ~Closing(attempt) /\ \A t \in Stages : run[t] \notin Active
      BY DEF RunOver, At, Closing
    <2>2. TriggersOk(run, intent, attempt, paper.tags)
      BY <1>1 DEF IInv, RunOver
    <2>3. run[s] \in Statuses
      BY <1>1, AttemptFacts DEF IInv
    <2>4. Settled(run, attempt, s)
      BY <2>1, <2>3 DEF Settled, Owes, Statuses
    <2> QED BY <2>1, <2>2, <2>4 DEF TriggersOk, Clean
  <1>2. ASSUME TagsDistinct, IInv PROVE ProcessedAtEnd
    BY <1>2 DEF IInv, ProcessedOk, Marked, ProcessedAtEnd
  <1>3. TagsDistinct /\ IInv => TagsTellOutcome
    BY <1>1, <1>2 DEF TagsTellOutcome
  <1> SUFFICES ASSUME TagsDistinct PROVE StagesSpec => []TagsTellOutcome
    OBVIOUS
  <1>4. IInv => TagsTellOutcome
    BY <1>3
  <1> QED BY <1>4, Inductive, PTL

(* A metadata stage writes unseen only what was vetted, however the document changed
   since it was read, for any tags, vocabulary, settings and rules (metadata_stage.rs). *)
THEOREM OnlyVettedEverWritten == StagesSpec => OnlyVettedWritten
  <1>1. ASSUME IInv, attempt.stage = "metadata", Prepare, intent' # intent
        PROVE  LET body == intent'["metadata"].patch
                   said == attempt.said
               IN /\ \A f \in body.set :
                       /\ attempt.seen.fields[f] # "unset" /\ f \in Guarded => f \in policy.overwrite
                       /\ \/ said.fields[f] = [value |-> "known", sure |-> TRUE] /\ f \notin attempt.differs
                          \/ f = "correspondent" /\ policy.newCorrespondents /\ said.newName
                  /\ \A t \in body.tags \ (attempt.seen.tags \cup touched) :
                       \/ t \in {DoneTag["metadata"], ProcessedTag}
                       \/ said.tags.sure /\ t \in (said.tags.named \cup said.tags.new) \ Workflow
    <2> DEFINE base == IF attempt.patch.lists THEN attempt.patch.tags ELSE paper.tags
               marks == {DoneTag["metadata"]} \cup IF attempt.final THEN {ProcessedTag} ELSE {}
               tags == (base \cup marks) \ Retired("metadata", attempt.final)
               body == [attempt.patch EXCEPT !.lists = TRUE, !.tags = tags]
    <2>1. Vetted(attempt) /\ paper.tags \subseteq attempt.seen.tags \cup touched
      BY <1>1 DEF IInv, PlanOk, Planned, Read, Prepare, At
    <2>2. intent' = [intent EXCEPT !["metadata"] = [open |-> TRUE, landed |-> FALSE, patch |-> body]]
      BY <1>1 DEF Prepare
    <2>3. intent'["metadata"].patch = body
      BY <1>1, <2>2, AttemptFacts, StageFacts DEF IInv
    <2>4. body.set = attempt.patch.set /\ body.tags = tags
      <3>1. attempt.patch \in Patches
        BY <1>1, AttemptFacts DEF IInv, Attempts
      <3> HIDE DEF tags
      <3> QED BY <3>1 DEF Patches
    <2>5. \A f \in attempt.patch.set : MayFill(attempt, f)
      BY <2>1 DEF Vetted
    <2>6. ASSUME NEW t \in tags \ (attempt.seen.tags \cup touched)
          PROVE  \/ t \in {DoneTag["metadata"], ProcessedTag}
                 \/ /\ attempt.said.tags.sure
                    /\ t \in (attempt.said.tags.named \cup attempt.said.tags.new) \ Workflow
      <3>1. CASE t \in marks
        BY <3>1
      <3>2. CASE t \in base
        <4>1. t \in attempt.patch.tags \ attempt.seen.tags
          BY <2>1, <2>6, <3>2
        <4> QED BY <2>1, <4>1 DEF Vetted
      <3> QED BY <2>6, <3>1, <3>2
    <2> HIDE DEF tags, body
    <2> QED BY <2>3, <2>4, <2>5, <2>6 DEF MayFill
  <1>2. IInv => (attempt.stage = "metadata" /\ Prepare /\ intent' # intent =>
       LET body == intent'["metadata"].patch
           said == attempt.said
       IN /\ \A f \in body.set :
               /\ attempt.seen.fields[f] # "unset" /\ f \in Guarded => f \in policy.overwrite
               /\ \/ said.fields[f] = [value |-> "known", sure |-> TRUE] /\ f \notin attempt.differs
                  \/ f = "correspondent" /\ policy.newCorrespondents /\ said.newName
          /\ \A t \in body.tags \ (attempt.seen.tags \cup touched) :
               \/ t \in {DoneTag["metadata"], ProcessedTag}
               \/ said.tags.sure /\ t \in (said.tags.named \cup said.tags.new) \ Workflow)
    BY <1>1
  <1> QED BY <1>2, Inductive, PTL DEF OnlyVettedWritten

(* A list of tags put before a reviewer leaves every workflow tag as the document had
   it and drops no rule tag, whatever the model names and whatever strategy the settings
   choose (merge_tags_for_strategy, metadata_stage.rs). *)
THEOREM ReviewAlwaysKeepsWorkflowTags == StagesSpec => []ReviewKeepsWorkflowTags
  <1> DEFINE Keeps(i) == /\ (i.tags \cup i.new) \cap Workflow = i.seen \cap Workflow
                         /\ i.seen \cap RuleTags \subseteq i.tags
  <1>1. ASSUME NEW i \in PlannedItems PROVE Keeps(i)
    <2> DEFINE seen == attempt.seen.tags
               named == attempt.said.tags.named
    <2>1. CASE i = RefusedTagItem
      BY <2>1 DEF RefusedTagItem, TagItem
    <2>2. CASE TagsApply /\ i = TagItem(Plan.tags, Plan.newTags)
      <3>1. Plan.tags = StrategyTags(seen, named) /\ Plan.newTags \cap Workflow = {}
        BY <2>2 DEF Plan
      <3>2. i.tags = Plan.tags /\ i.new = Plan.newTags /\ i.seen = seen
        BY <2>2 DEF TagItem
      <3>3. named \cap Workflow = {}
        BY <2>2 DEF TagsApply, TagsValidated
      <3>4. seen \cap (Workflow \cup RuleTags) \subseteq StrategyTags(seen, named)
        BY DEF StrategyTags, Protected
      <3>5. StrategyTags(seen, named) \subseteq seen \cup named
        BY DEF StrategyTags
      <3> HIDE DEF seen, named
      <3> QED BY <3>1, <3>2, <3>3, <3>4, <3>5
    <2> QED BY <2>1, <2>2 DEF PlannedItems
  <1>2. StagesInit => ReviewKeepsWorkflowTags
    BY DEF StagesInit, ReviewKeepsWorkflowTags
  <1>3. ReviewKeepsWorkflowTags /\ [StagesNext]_stageVars => ReviewKeepsWorkflowTags'
    <2> SUFFICES ASSUME ReviewKeepsWorkflowTags, [StagesNext]_stageVars, NEW i \in items' PROVE Keeps(i)
      BY DEF ReviewKeepsWorkflowTags
    <2>1. items' = items \/ items' = items \cup PlannedItems
      <3>1. CASE Route
        BY <3>1 DEF Route
      <3> QED BY <3>1 DEF StagesNext, stageVars, ClaimStage, ReadDocument, Ask, Decide, Prepare, SendPatch,
                 CompleteStage, FailStage, RetireRead, RetireWrite, Lost, EditTag, EditField, SwitchMode
    <2>2. CASE i \in items
      BY <2>2 DEF ReviewKeepsWorkflowTags
    <2> QED BY <1>1, <2>1, <2>2
  <1> QED BY <1>2, <1>3, PTL DEF StagesSpec

(* The variables of the stages keep their types. *)
THEOREM StageTypeAlwaysOK == StagesSpec => []StageTypeOK
  <1>1. IInv => StageTypeOK
    BY DEF IInv, Typed, StageTypeOK, Papers, Statuses, Attempts, Patches
  <1> QED BY <1>1, Inductive, PTL
====================================================================================
