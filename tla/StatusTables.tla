---------------------------- MODULE StatusTables ----------------------------
(***************************************************************************)
(* The status vocabularies and transition tables of                        *)
(* crates/archivist-db/src/transitions.rs: runs, jobs and review items.    *)
(* The tables are data: which module uses which entry, and when, is in     *)
(* JobQueue.                                                               *)
(***************************************************************************)

ActiveRunStatuses   == {"queued", "running", "waiting_review", "applying"}
TerminalRunStatuses == {"succeeded", "rejected", "failed", "cancelled"}
RunStatuses         == ActiveRunStatuses \cup TerminalRunStatuses

ActiveJobStatuses == {"queued", "running", "waiting_review"}
JobStatuses       == ActiveJobStatuses \cup {"succeeded", "failed", "cancelled"}

OpenReviewStatuses   == {"pending", "approved", "applying"}
ClosedReviewStatuses == {"applied", "rejected"}
ReviewStatuses       == OpenReviewStatuses \cup ClosedReviewStatuses

RunEvents ==
    {"Claimed", "StageAdvanced", "Succeeded", "Failed", "AwaitingReview",
     "Rejected", "LeaseReleased", "StaleLeaseRequeued", "VisionCrashRequeued",
     "MetadataBackfilled", "StuckRunningRequeued", "StuckRunningSucceeded"}

(* RunTransition::from: the statuses an event may leave. *)
RunFrom(event) ==
    CASE event = "Claimed" -> {"queued", "running", "waiting_review"}
      [] event \in {"StageAdvanced", "Succeeded", "Failed", "AwaitingReview",
                    "Rejected"} -> ActiveRunStatuses
      [] event \in {"LeaseReleased", "StaleLeaseRequeued",
                    "StuckRunningRequeued", "StuckRunningSucceeded"} -> {"running"}
      [] event = "VisionCrashRequeued" -> {"failed"}
      [] event = "MetadataBackfilled" -> {"succeeded"}

(* RunTransition::to: the status an event enters. *)
RunTo(event) ==
    CASE event = "Claimed" -> "running"
      [] event \in {"StageAdvanced", "LeaseReleased", "StaleLeaseRequeued",
                    "VisionCrashRequeued", "MetadataBackfilled",
                    "StuckRunningRequeued"} -> "queued"
      [] event \in {"Succeeded", "StuckRunningSucceeded"} -> "succeeded"
      [] event = "Failed" -> "failed"
      [] event = "AwaitingReview" -> "waiting_review"
      [] event = "Rejected" -> "rejected"

(* RunTransition::requires_no_running_job. *)
RequiresNoRunningJob(event) ==
    event \in {"LeaseReleased", "StuckRunningRequeued", "StuckRunningSucceeded"}

(* The documented job table, JobTransition: every <<from, to>> pair some
   entry of it allows.  A job row is inserted as "queued".                 *)
JobTable ==
       {<<"none", "queued">>}
  \cup {"queued", "running"} \X {"running"}
  \cup {"running", "waiting_review"} \X {"succeeded", "queued", "failed"}
  \cup {"running", "waiting_review"} \X {"waiting_review"}
  \cup ActiveJobStatuses \X {"cancelled"}
  \cup {"failed", "cancelled"} \X {"queued"}
=============================================================================
