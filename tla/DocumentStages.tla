----------------------------- MODULE DocumentStages -----------------------------
(***************************************************************************)
(* What the OCR and metadata stages of one run do with the model's answer:  *)
(* which suggestions are vetted, what is written to the document at once,   *)
(* what waits for a reviewer, and which workflow tags come and go.          *)
(*                                                                         *)
(* One document in Paperless, which people edit meanwhile, and one run.     *)
(* The claim protocol is JobQueue's, the intent protocol of a PATCH is      *)
(* ReviewApply's and the provider calls are ProviderCalls': here a lease    *)
(* may be lost at each renewal, a PATCH lands, fails or fails after it      *)
(* landed, and an answer is any suggestion over the vocabulary.             *)
(***************************************************************************)
EXTENDS WorkflowTags, Integers, FiniteSets

CONSTANTS Tags,        \* tag names, also those Paperless does not have yet
          Catalog,     \* the tags in the local mirror
          Named,       \* tags a suggestion may name
          RuleTags,    \* include and exclude tags of the workflow rules
          AiManaged,   \* tags Archivist added to the document in earlier applies
          Policies,    \* the settings of a metadata stage
          MaxTags,     \* tagging.max_tags
          MaxTries,    \* jobs.max_attempts
          MaxErrors,   \* bound: failed calls to Paperless
          MaxPaperEdits \* bound: edits made in Paperless, switches of the mode

Fields == {"title", "document_type", "correspondent", "document_date", "fields"}
\* Left alone when set, unless the settings say to overwrite.
Guarded == {"document_type", "correspondent", "document_date"}
Active == {"queued", "running", "review"}

ASSUME StagesAssumption ==
  /\ Workflow \cup Catalog \cup Named \cup RuleTags \cup AiManaged \subseteq Tags
  /\ Workflow \cap (RuleTags \cup AiManaged) = {}
  /\ {MaxTags, MaxErrors, MaxPaperEdits} \subseteq Nat /\ MaxTries \in Nat \ {0}
  /\ \A p \in Policies :
       p \in [enabled : SUBSET (Fields \cup {"tags"}), overwrite : SUBSET Guarded,
              newCorrespondents : BOOLEAN, newTags : BOOLEAN, consensus : BOOLEAN,
              dryRun : BOOLEAN, reviewRetry : BOOLEAN,
              strategy : {"keep_existing", "replace_ai_managed", "remove_all_business"}]

-----------------------------------------------------------------------------
VARIABLES policy,   \* the settings, but for the mode; they stay as they are
          auto,     \* the live mode applies validated suggestions (full_auto)
          paper,    \* the document in Paperless: its tags, whose value a field has
          run,      \* Stages -> jobs.status, "none" without a job
          tries,    \* Stages -> jobs.attempts
          intent,   \* Stages -> the apply intent of the job
          attempt,  \* the attempt in progress; one worker holds the run's lease
          items,    \* the tag lists in the review items created
          touched,  \* history: tags people added or removed
          excused,  \* history: the tags could not be retired
          faults    \* errors and edits so far

stageVars == <<policy, auto, paper, run, tries, intent, attempt, items, touched, excused, faults>>

Unsaid == [value |-> "none", sure |-> FALSE]
NoTags == [said |-> FALSE, named |-> {}, new |-> {}, sure |-> FALSE]
Silence == [fields |-> [f \in Fields |-> Unsaid], newName |-> FALSE, tags |-> NoTags]

NoPatch == [set |-> {}, lists |-> FALSE, tags |-> {}, newTags |-> {}, newName |-> FALSE]
NoIntent == [open |-> FALSE, landed |-> FALSE, patch |-> NoPatch]
NoAttempt == [pc |-> "idle", stage |-> "ocr", auto |-> FALSE,
         seen |-> [tags |-> {}, fields |-> [f \in Fields |-> "unset"]],
         said |-> Silence, differs |-> {}, patch |-> NoPatch, final |-> FALSE, failed |-> FALSE]

-----------------------------------------------------------------------------
(* Suggestions.  A value is what validation makes of it: known, or in the   *)
(* list the prompt offered but gone from the mirror since, or neither.      *)

FieldAnswers(f) ==
  {Unsaid} \cup [value : {"known", "foreign"} \cup (IF f \in {"document_type", "correspondent"}
                                                    THEN {"gone"} ELSE {}),
                 sure : BOOLEAN]

\* The closed vocabulary is a request: the answer may name any tag of Named.
TagAnswers ==
  {NoTags} \cup
    IF "tags" \in policy.enabled
    THEN [said : {TRUE}, named : SUBSET Named, new : SUBSET Named, sure : BOOLEAN] ELSE {}

\* prompt_for_metadata and schema_for_metadata ask for the enabled fields only.
Suggestions ==
  LET asked == policy.enabled \cap Fields
      AnyAnswer == UNION {FieldAnswers(f) : f \in asked}
      Heard == {h \in [asked -> AnyAnswer] : \A f \in asked : h[f] \in FieldAnswers(f)}
  IN [fields : {[f \in Fields |-> IF f \in asked THEN h[f] ELSE Unsaid] : h \in Heard},
      newName : IF "correspondent" \in asked THEN BOOLEAN ELSE {FALSE},
      tags : TagAnswers]

\* validate_title, _choice, _document_date and _field_suggestion.
Validated(answer) == answer.value \in {"known", "gone"} /\ answer.sure

\* validate_tag_suggestion.
TagsValidated(answer) ==
  LET total == Cardinality(answer.named) + (IF policy.newTags THEN Cardinality(answer.new) ELSE 0)
  IN /\ answer.named \subseteq Catalog \ Workflow /\ answer.new \cap Workflow = {}
     /\ total \in 1..MaxTags /\ answer.sure

\* Workflow tags, rule tags and tags the mirror does not know survive a strategy.
Protected(tags) == {t \in tags : t \in Workflow \cup RuleTags \/ t \notin Catalog}

\* merge_tags_for_strategy.
StrategyTags(tags, selected) ==
  LET dropped == CASE policy.strategy = "keep_existing" -> {}
                   [] policy.strategy = "replace_ai_managed" -> AiManaged
                   [] policy.strategy = "remove_all_business" -> tags
  IN (tags \ (dropped \ Protected(tags))) \cup selected

\* Mutation: a disagreement is recorded and the field kept.
Recorded(said, differs) == said.fields

\* run_consensus_check wipes the fields the second model contradicts.
Agreed(said, differs) == [f \in Fields |-> IF f \in differs THEN Unsaid ELSE said.fields[f]]

-----------------------------------------------------------------------------
(* The plan of a metadata stage: from the document as it was read.          *)

Overwrites(f) == attempt.seen.fields[f] = "unset" \/ f \notin Guarded \/ f \in policy.overwrite

AppliedFields ==
  LET answers == Agreed(attempt.said, attempt.differs)
  IN {f \in Fields : Validated(answers[f]) /\ answers[f].value # "gone" /\ Overwrites(f)}

RefusedFields ==
  LET answers == Agreed(attempt.said, attempt.differs)
  IN {f \in Fields : answers[f] # Unsaid /\ ~Validated(answers[f]) /\ Overwrites(f)}

\* A proposed sender, when no listed correspondent is left.
NewCorrespondent ==
  /\ policy.newCorrespondents /\ attempt.said.newName
  /\ Agreed(attempt.said, attempt.differs)["correspondent"] = Unsaid
  /\ Overwrites("correspondent")

TagsApply  == attempt.said.tags.said /\ TagsValidated(attempt.said.tags)
TagsRefused == attempt.said.tags.said /\ ~TagsValidated(attempt.said.tags)

Plan ==
  LET answer == attempt.said.tags
  IN [set |-> AppliedFields, lists |-> TagsApply,
      tags |-> IF TagsApply THEN StrategyTags(attempt.seen.tags, answer.named) ELSE {},
      newTags |-> IF TagsApply /\ policy.newTags THEN answer.new \ Workflow ELSE {},
      newName |-> NewCorrespondent]

TagItem(tags, new) == [tags |-> tags, new |-> new, seen |-> attempt.seen.tags]

\* Mutation: a refused suggestion replaces the tags.
SuggestedOnly ==
  TagItem(attempt.said.tags.named \cap Catalog,
          IF policy.newTags THEN (attempt.said.tags.named \ Catalog) \cup attempt.said.tags.new
          ELSE {})

\* Approving a refused suggestion may only add tags, and no workflow tag.
RefusedTagItem ==
  LET answer == attempt.said.tags
  IN TagItem(attempt.seen.tags \cup ((answer.named \cap Catalog) \ Workflow),
             IF policy.newTags THEN ((answer.named \ Catalog) \cup answer.new) \ Workflow ELSE {})

PlannedItems ==
  (IF TagsRefused THEN {RefusedTagItem} ELSE {})
    \cup (IF TagsApply THEN {TagItem(Plan.tags, Plan.newTags)} ELSE {})

-----------------------------------------------------------------------------
(* An attempt.                                                              *)

StageTypeOK ==
  /\ policy \in Policies /\ auto \in BOOLEAN
  /\ paper \in [tags : SUBSET Tags, fields : [Fields -> {"unset", "theirs", "ours"}]]
  /\ run \in [Stages -> Active \cup {"none", "succeeded", "failed", "cancelled"}]
  /\ tries \in [Stages -> 0..MaxTries]
  /\ attempt.pc \in {"idle", "read", "ask", "route", "decide", "prepare", "send", "complete",
                     "failing", "retire", "retiring"}
  /\ attempt.stage \in Stages /\ attempt.differs \subseteq Fields
  /\ \A i \in items : i.tags \cup i.new \cup i.seen \subseteq Tags
  /\ touched \subseteq Tags /\ excused \in BOOLEAN
  /\ faults \in [errors : 0..MaxErrors, edits : 0..MaxPaperEdits]
  /\ \A s \in Stages : intent[s].patch.set \subseteq Fields /\ intent[s].patch.tags \subseteq Tags

StagesInit ==
  /\ policy \in Policies /\ auto \in BOOLEAN
  /\ paper \in [tags : SUBSET (Tags \ {ProcessedTag}), fields : [Fields -> {"unset", "theirs"}]]
  /\ run \in [Stages -> {"queued", "none"}] /\ \E s \in Stages : run[s] = "queued"
  /\ tries = [s \in Stages |-> 0] /\ intent = [s \in Stages |-> NoIntent]
  /\ attempt = NoAttempt /\ items = {} /\ touched = {} /\ excused = FALSE
  /\ faults \in [errors : 0..MaxErrors, edits : 0..MaxPaperEdits]

At(pc) == attempt.pc = pc
GoTo(pc) == attempt' = [attempt EXCEPT !.pc = pc]
Error == faults.errors < MaxErrors /\ faults' = [faults EXCEPT !.errors = @ + 1]
\* A failure that may be permanent; one that is worth a retry only goes to "failing".
Fails == \E permanent \in BOOLEAN : attempt' = [attempt EXCEPT !.pc = "failing", !.failed = permanent]
Applies == attempt.auto /\ ~policy.dryRun

\* Mutation: a job that waits for its turn does not count.
NoneRunning == \A s \in Stages \ {attempt.stage} : run[s] # "running"

\* is_last_active_job.
LastActive == \A s \in Stages \ {attempt.stage} : run[s] \notin Active

\* A review "retry with ..." is forced into manual review.
ClaimStage(s) ==
  /\ At("idle") /\ run[s] = "queued" /\ tries[s] < MaxTries
  /\ s = "metadata" => run["ocr"] \notin Active
  /\ run' = [run EXCEPT ![s] = "running"] /\ tries' = [tries EXCEPT ![s] = @ + 1]
  /\ attempt' = [NoAttempt EXCEPT !.stage = s, !.pc = IF s = "ocr" THEN "ask" ELSE "read",
                             !.auto = auto /\ ~(s = "metadata" /\ policy.reviewRetry)]
  /\ UNCHANGED <<policy, auto, paper, intent, items, touched, excused, faults>>

Ended(s, status) == run' = [run EXCEPT ![s] = status]

\* Nothing to ask for ends the job; else the document is read.
ReadDocument ==
  /\ At("read")
  /\ \/ policy.enabled = {} /\ Ended("metadata", "succeeded") /\ GoTo("retire") /\ UNCHANGED faults
     \/ /\ policy.enabled # {}
        /\ attempt' = [attempt EXCEPT !.pc = "ask", !.seen = paper]
        /\ UNCHANGED <<run, faults>>
     \/ policy.enabled # {} /\ Error /\ GoTo("failing") /\ UNCHANGED run
  /\ UNCHANGED <<policy, auto, paper, tries, intent, items, touched, excused>>

\* The second model is asked when the first one's answer may be applied at once.
Contradicted(said) ==
  IF policy.consensus /\ Applies
  THEN SUBSET {f \in {"correspondent", "document_date"} :
                 said.fields[f].value \notin (IF f = "document_date" THEN {"none", "foreign"} ELSE {"none"})}
  ELSE {{}}

\* process_ocr, and the main call of process_metadata with its parse route.
Ask ==
  /\ At("ask")
  /\ \/ attempt.stage = "ocr" /\ GoTo("route") /\ UNCHANGED run
     \/ Fails /\ UNCHANGED run
     \/ attempt.stage = "metadata" /\ Ended("metadata", "succeeded") /\ GoTo("retire")
     \/ /\ attempt.stage = "metadata"
        /\ \E said \in Suggestions : \E differs \in Contradicted(said) :
             attempt' = [attempt EXCEPT !.pc = "route", !.said = said, !.differs = differs]
        /\ UNCHANGED run
  /\ UNCHANGED <<policy, auto, paper, tries, intent, items, touched, excused, faults>>

\* handle_patch_result, and the routing of process_metadata.
Route ==
  LET s == attempt.stage
      warned == s = "metadata" /\ (TagsRefused \/ RefusedFields # {})
      applied == s = "ocr" \/ TagsApply \/ AppliedFields # {} \/ NewCorrespondent
  IN /\ At("route")
     /\ \/ /\ ~Applies /\ (warned \/ applied)
           /\ items' = IF s = "metadata" THEN items \cup PlannedItems ELSE items
           /\ Ended(s, "review") /\ attempt' = NoAttempt
        \/ /\ Applies /\ applied
           /\ attempt' = [attempt EXCEPT !.pc = "decide", !.patch = IF s = "ocr" THEN NoPatch ELSE Plan]
           /\ UNCHANGED <<run, items>>
        \/ /\ ~applied /\ (Applies \/ ~warned)
           /\ Ended(s, "succeeded") /\ GoTo("retire") /\ UNCHANGED items
     /\ UNCHANGED <<policy, auto, paper, tries, intent, touched, excused, faults>>

-----------------------------------------------------------------------------
(* Writing to Paperless.                                                    *)

\* materialize_pending_new_objects, which may fail, then is_last_active_job.
Decide ==
  LET p == attempt.patch
      created == [p EXCEPT !.lists = @ \/ p.newTags # {},
                           !.tags = (IF p.lists THEN @ ELSE attempt.seen.tags) \cup p.newTags,
                           !.set = IF p.newName THEN @ \cup {"correspondent"} ELSE @]
  IN /\ At("decide")
     /\ \E made \in BOOLEAN :
          attempt' = [attempt EXCEPT !.pc = "prepare", !.final = LastActive,
                        !.patch = IF made /\ (p.newTags # {} \/ p.newName) THEN created ELSE p]
     /\ UNCHANGED <<policy, auto, paper, run, tries, intent, items, touched, excused, faults>>

\* trigger_tags_requesting_stage, and trigger_process with the last stage.
Retired(s, final) == TriggersOf[s] \cup IF final THEN {ProcessTag} ELSE {}

\* apply_patch_with_workflow_tags: an open intent is resumed as it was written.
Prepare ==
  LET s == attempt.stage
      base == IF attempt.patch.lists THEN attempt.patch.tags ELSE paper.tags
      marks == {DoneTag[s]} \cup IF attempt.final THEN {ProcessedTag} ELSE {}
      body == [attempt.patch EXCEPT !.lists = TRUE,
                 !.tags = (base \cup marks) \ Retired(s, attempt.final)]
  IN /\ At("prepare")
     /\ \/ intent[s].open /\ intent[s].landed /\ GoTo("complete") /\ UNCHANGED <<intent, faults>>
        \/ intent[s].open /\ ~intent[s].landed /\ GoTo("send") /\ UNCHANGED <<intent, faults>>
        \/ /\ ~intent[s].open /\ GoTo("send") /\ UNCHANGED faults
           /\ intent' = [intent EXCEPT ![s] = [open |-> TRUE, landed |-> FALSE, patch |-> body]]
        \/ Error /\ GoTo("failing") /\ UNCHANGED intent
     /\ UNCHANGED <<policy, auto, paper, run, tries, items, touched, excused>>

Patched(patch) ==
  [tags |-> patch.tags,
   fields |-> [f \in Fields |-> IF f \in patch.set THEN "ours" ELSE paper.fields[f]]]

SendPatch ==
  LET s == attempt.stage
  IN /\ At("send")
     /\ \/ /\ paper' = Patched(intent[s].patch)
           /\ intent' = [intent EXCEPT ![s].landed = TRUE]
           /\ \/ GoTo("complete") /\ UNCHANGED faults
              \/ Error /\ GoTo("failing")
        \/ Error /\ Fails /\ UNCHANGED <<paper, intent>>
     /\ UNCHANGED <<policy, auto, run, tries, items, touched, excused>>

\* complete_job and finalize_apply_intent.
CompleteStage ==
  /\ At("complete") /\ Ended(attempt.stage, "succeeded") /\ attempt' = NoAttempt
  /\ intent' = [intent EXCEPT ![attempt.stage] = NoIntent]
  /\ UNCHANGED <<policy, auto, paper, tries, items, touched, excused, faults>>

\* fail_job: a permanent failure ends the run.
FailStage ==
  LET s == attempt.stage
      again == ~attempt.failed /\ tries[s] < MaxTries
  IN /\ At("failing")
     /\ IF again THEN Ended(s, "queued") /\ attempt' = NoAttempt
        ELSE /\ run' = [t \in Stages |-> IF t = s THEN "failed"
                                         ELSE IF run[t] \in Active THEN "cancelled" ELSE run[t]]
             /\ attempt' = [attempt EXCEPT !.pc = "retire", !.failed = TRUE]
     /\ UNCHANGED <<policy, auto, paper, tries, intent, items, touched, excused, faults>>

-----------------------------------------------------------------------------
(* retire_trigger_tags_after_terminal_outcome, after a job that wrote nothing. *)

Removals ==
  IF attempt.failed THEN TriggerTags
  ELSE Retired(attempt.stage, attempt.final)
Additions == IF attempt.failed THEN FailedTags[attempt.stage] ELSE {}

RetireRead ==
  /\ At("retire")
  /\ attempt' = IF policy.dryRun THEN NoAttempt
                ELSE [attempt EXCEPT !.pc = "retiring", !.seen = paper,
                                     !.final = attempt.failed \/ LastActive]
  /\ UNCHANGED <<policy, auto, paper, run, tries, intent, items, touched, excused, faults>>

RetireWrite ==
  /\ At("retiring") /\ attempt' = NoAttempt
  /\ \/ paper' = [paper EXCEPT !.tags = (attempt.seen.tags \ Removals) \cup Additions]
        /\ UNCHANGED <<excused, faults>>
     \/ Error /\ excused' = TRUE /\ UNCHANGED paper
  /\ UNCHANGED <<policy, auto, run, tries, intent, items, touched>>

\* A lease that is lost at a renewal, or a worker that dies: the job is taken over,
\* or swept once it has no attempt left.
Lost ==
  LET s == attempt.stage
  IN /\ ~At("idle") /\ attempt' = NoAttempt
     /\ run' = [t \in Stages |-> IF run[s] # "running" THEN run[t]
                                 ELSE IF tries[s] < MaxTries THEN IF t = s THEN "queued" ELSE run[t]
                                 ELSE IF t = s THEN "failed"
                                 ELSE IF run[t] \in Active THEN "cancelled" ELSE run[t]]
     /\ excused' = (excused \/ run[s] # "running" \/ tries[s] = MaxTries)
     /\ UNCHANGED <<policy, auto, paper, tries, intent, items, touched, faults>>

-----------------------------------------------------------------------------
(* People.                                                                  *)

Edited == faults.edits < MaxPaperEdits /\ faults' = [faults EXCEPT !.edits = @ + 1]

EditTag(t) ==
  /\ Edited /\ touched' = touched \cup {t}
  /\ paper' = [paper EXCEPT !.tags = IF t \in @ THEN @ \ {t} ELSE @ \cup {t}]
  /\ UNCHANGED <<policy, auto, run, tries, intent, attempt, items, excused>>

EditField(f) ==
  /\ Edited /\ paper' = [paper EXCEPT !.fields[f] = "theirs"]
  /\ UNCHANGED <<policy, auto, run, tries, intent, attempt, items, touched, excused>>

SwitchMode ==
  /\ Edited /\ auto' = ~auto
  /\ UNCHANGED <<policy, paper, run, tries, intent, attempt, items, touched, excused>>

StagesNext ==
  \/ \E s \in Stages : ClaimStage(s)
  \/ ReadDocument \/ Ask \/ Route \/ Decide \/ Prepare \/ SendPatch \/ CompleteStage \/ FailStage
  \/ RetireRead \/ RetireWrite \/ Lost
  \/ \E t \in Tags : EditTag(t)
  \/ \E f \in Fields : EditField(f)
  \/ SwitchMode

StagesSpec == StagesInit /\ [][StagesNext]_stageVars

-----------------------------------------------------------------------------
(* A metadata stage writes on its own only what was vetted: a field some    *)
(* confident answer filled with a value in the vocabulary, over no value the *)
(* stage had found and may not overwrite, and that the second model did not  *)
(* contradict, a proposed new sender apart; a tag the document had, the      *)
(* stage's own marks, or a confident suggestion that is no workflow tag.     *)
OnlyVettedWritten ==
  [][attempt.stage = "metadata" /\ Prepare /\ intent' # intent =>
       LET body == intent'["metadata"].patch
           said == attempt.said
       IN /\ \A f \in body.set :
               /\ attempt.seen.fields[f] # "unset" /\ f \in Guarded => f \in policy.overwrite
               /\ \/ said.fields[f] = [value |-> "known", sure |-> TRUE] /\ f \notin attempt.differs
                  \/ f = "correspondent" /\ policy.newCorrespondents /\ said.newName
          /\ \A t \in body.tags \ (attempt.seen.tags \cup touched) :
               \/ t \in {DoneTag["metadata"], ProcessedTag}
               \/ said.tags.sure /\ t \in (said.tags.named \cup said.tags.new) \ Workflow]_stageVars

(* Whatever the model names, a list of tags put before a reviewer holds no   *)
(* workflow tag the document had not, and drops none it had, nor a tag of    *)
(* the workflow rules.                                                      *)
ReviewKeepsWorkflowTags ==
  \A i \in items :
    /\ (i.tags \cup i.new) \cap Workflow = i.seen \cap Workflow
    /\ i.seen \cap RuleTags \subseteq i.tags

\* The run is over, none of its results waits for a reviewer, and the worker
\* was let finish: not cut off after its last job, no refused tag change.
RunOver ==
  /\ At("idle") /\ ~policy.dryRun /\ ~excused
  /\ \A s \in Stages : run[s] \notin Active

(* When a run is over, none of the triggers that asked for its stages, nor   *)
(* the one for the whole pipeline, is still on the document unless somebody  *)
(* touched it: whichever way the jobs ended, the poll does not start over.  *)
TriggersRetired ==
  RunOver => \A s \in Stages : run[s] # "none" =>
               paper.tags \cap (TriggersOf[s] \cup {ProcessTag}) \subseteq touched

(* A document marked as processed has no job of its run left to do: at most  *)
(* the one whose write brought the mark still has to be completed.          *)
ProcessedAtEnd ==
  ProcessedTag \in paper.tags \ touched =>
    \A s \in Stages : run[s] \in Active => intent[s].landed

(* What the tags of a document tell of its run is so, whichever way its jobs *)
(* ended and whatever failed meanwhile.                                     *)
TagsTellOutcome == TriggersRetired /\ ProcessedAtEnd
================================================================================
