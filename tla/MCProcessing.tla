------------------------------ MODULE MCProcessing ------------------------------
(***************************************************************************)
(* What surrounds the job queue, for the model checker: the intake of        *)
(* documents, the stages of a run and the provider calls.  They share no     *)
(* state, so a behaviour lets one of them run and keeps the others at their  *)
(* start, and the states add up instead of multiplying.                     *)
(***************************************************************************)
EXTENDS ProviderCalls, DocumentStages, Intake, TLC

CONSTANTS remote, local,      \* providers
          page, fields,       \* an OCR and a metadata job
          askOcr, askFields, process, ocrDone, fieldsDone, processed, failed,
          old, pick, fresh, rule  \* tags: of the workflow, and of people

VARIABLE focus

Focuses == {"providers", "stages", "sync", "poll", "reconcile", "selector"}

-----------------------------------------------------------------------------
\* ProviderCalls: a reviewer asked for the metadata job with the remote provider.
MCStageOf == page :> "ocr" @@ fields :> "metadata"
MCRetryWith == page :> None @@ fields :> remote
MCKind == remote :> "openai" @@ local :> "ollama"
MCTimeout == remote :> 1 @@ local :> 2

\* DocumentStages and Intake.
MCTriggersOf == [s \in Stages |-> IF s = "ocr" THEN {askOcr} ELSE {askFields}]
MCDoneTag == [s \in Stages |-> IF s = "ocr" THEN ocrDone ELSE fieldsDone]
MCFailedTags == [s \in Stages |-> {failed}]
Policy(enabled, overwrite, new, strategy) ==
  [enabled |-> enabled, overwrite |-> overwrite, newCorrespondents |-> new, newTags |-> new,
   consensus |-> FALSE, dryRun |-> FALSE, reviewRetry |-> FALSE, strategy |-> strategy]
NoSuggestions == Policy({}, {}, FALSE, "keep_existing")
MCPolicies ==
  {[Policy({"correspondent", "document_date"}, {"document_date"}, TRUE, "keep_existing")
      EXCEPT !.consensus = TRUE],
   Policy({"tags"}, {}, TRUE, "remove_all_business"),
   Policy({"tags"}, {}, FALSE, "replace_ai_managed"),
   Policy({"title", "fields"}, {}, FALSE, "keep_existing"),
   Policy({"document_type"}, {}, FALSE, "keep_existing"),
   [Policy({"tags"}, {}, TRUE, "keep_existing") EXCEPT !.dryRun = TRUE],
   [Policy({"document_type"}, {}, FALSE, "keep_existing") EXCEPT !.reviewRetry = TRUE],
   NoSuggestions}
MCSkews == -1..0

MCSymmetry == Permutations(Workers) \cup Permutations(Pollers)

-----------------------------------------------------------------------------
\* Documents carry every trigger at first; people edit or Paperless fails.
StagesStart ==
  IF focus # "stages"
  THEN /\ policy = NoSuggestions /\ auto = TRUE /\ faults = [errors |-> 0, edits |-> 0]
       /\ paper = [tags |-> {}, fields |-> [f \in Fields |-> "unset"]]
       /\ run = [s \in Stages |-> "queued"]
  ELSE /\ policy \in MCPolicies
       /\ \E b \in {"unset", "theirs"} :
            paper = [tags |-> {askOcr, askFields, process, old, rule},
                     fields |-> [f \in Fields |-> b]]
       /\ \/ faults = [errors |-> 0, edits |-> MaxPaperEdits]
          \/ /\ faults = [errors |-> MaxErrors, edits |-> 0]
             /\ policy.enabled = {"document_type"} \/ policy.strategy = "replace_ai_managed"
             /\ paper.fields["title"] = "unset"

\* Document 1 is worked on; document 2 is synced with it, and selected.
Budgets(edits, errors, calls) ==
  spent = [edits |-> edits, faults |-> errors, calls |-> calls]
IntakeStart ==
  /\ archive \in [Docs -> [tags : IF focus = "poll" THEN {{}, {process}} ELSE {{}},
                           modified : MCSkews]]
  /\ archive[2].tags = {}
  /\ mode = [delta |-> focus \in {"sync", "reconcile"},
             auto |-> focus \in {"selector", "reconcile"}, paused |-> FALSE]
  /\ cursor = IF focus \in {"sync", "reconcile"} THEN 0 ELSE Unset
  /\ focus # "sync" => skew = 0
  /\ Budgets(IF focus \in {"sync", "poll"} THEN 1 ELSE 0,
             IF focus \in {"sync", "reconcile"} THEN 1 ELSE 0,
             IF focus \in {"sync", "reconcile"} THEN 1 ELSE 0)

MCInit ==
  /\ focus \in Focuses
  /\ ProviderInit /\ routed = remote
  /\ operator.left = 0 <=> \A j \in Jobs : jobs[j].status = "queued"
  /\ focus # "providers" => operator.left = 0
  /\ StagesStart /\ StagesInit
  /\ focus # "stages" => run = [s \in Stages |-> "queued"]
  /\ skew \in MCSkews /\ IntakeStart /\ IntakeInit

\* Two syncs or polls overlap: of two processes, or of one and a request; where
\* runs are created, one syncs while the other looks runs up and creates them.
\* A listing has the documents in their order.
UnderWay == {c \in Callers : call[c].pc # "idle"}
InOrder(c) == call'[c].left # call[c].left => call'[c].left \in {Docs, {2}, {}}
IntakeFocus ==
  /\ IntakeNext
  /\ clock' <= 2 /\ Cardinality(UnderWay') <= 2 /\ \A c \in Callers : InOrder(c)
  /\ focus # "selector" => UNCHANGED <<archive[2], runs[2]>>
  /\ focus = "sync" => UNCHANGED <<runs, recon>>
  /\ focus # "sync" => \A q \in Requests : UNCHANGED call[q]
  /\ focus = "poll" =>
       clock' <= 1 /\ Cardinality({c \in UnderWay' : call'[c].pc \in {"read", "sync"}}) <= 1
  /\ focus \in {"selector", "reconcile"} => Cardinality(UnderWay') <= 1

\* Time for a lost worker's lease to run out, when there is one job.
ProviderFocus ==
  /\ ProviderNext
  /\ (\A j \in Jobs : jobs[j].attempts > 0 \/ jobs[j].status = "queued") => time' < MaxElapsed

MCNext ==
  /\ UNCHANGED focus
  /\ IF focus = "providers" THEN ProviderFocus ELSE UNCHANGED callVars
  /\ IF focus = "stages" THEN StagesNext ELSE UNCHANGED stageVars
  /\ IF focus \in {"sync", "poll", "reconcile", "selector"}
     THEN IntakeFocus ELSE UNCHANGED intakeVars

MCSpec ==
  MCInit /\ [][MCNext]_<<focus, callVars, stageVars, intakeVars>>
==================================================================================
