------------------------------ MODULE WorkflowTags ------------------------------
(***************************************************************************)
(* The tags by which people and Archivist talk about a document: what asks  *)
(* for work, what reports it done or failed.                               *)
(***************************************************************************)
CONSTANTS TriggersOf,   \* Stages -> the trigger tags that request the stage
          ProcessTag,   \* trigger_process
          DoneTag,      \* Stages -> its completion tag
          ProcessedTag, \* completion_processed
          FailedTags    \* Stages -> its failure markers

\* Stage::all_business_stages.
Stages == {"ocr", "metadata"}

\* WorkflowTags::all.
Workflow ==
  {ProcessTag, ProcessedTag} \cup {DoneTag[s] : s \in Stages}
    \cup UNION {TriggersOf[s] \cup FailedTags[s] : s \in Stages}

\* WorkflowTags::all_trigger_tags.
TriggerTags == {ProcessTag} \cup UNION {TriggersOf[s] : s \in Stages}

\* WorkflowTags::stages_requested_by_tags.
Requested(tags) ==
  {s \in Stages : ProcessTag \in tags \/ TriggersOf[s] \cap tags # {}}
===================================================================================
