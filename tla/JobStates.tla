----------------------------- MODULE JobStates -----------------------------
(***************************************************************************)
(* The local states of a runtime job (job-store.ts: RuntimeJobState) and   *)
(* the changes update permits.                                             *)
(***************************************************************************)

JobState == {"PENDING", "HANDOFF_READY", "PROCESSING", "RETRY_READY",
             "RECONCILE_REQUIRED", "CLOSED", "FAILED", "STATE_CONFLICT"}

\* Mutant of Successors: an attempt may be retried after a start.
SuccessorsRetrying ==
  [PENDING            |-> {"HANDOFF_READY", "RECONCILE_REQUIRED", "CLOSED", "FAILED", "STATE_CONFLICT"},
   HANDOFF_READY      |-> {"PROCESSING", "RETRY_READY", "RECONCILE_REQUIRED", "CLOSED", "FAILED", "STATE_CONFLICT"},
   PROCESSING         |-> {"RETRY_READY", "RECONCILE_REQUIRED", "CLOSED", "FAILED", "STATE_CONFLICT"},
   RETRY_READY        |-> {"RECONCILE_REQUIRED", "CLOSED", "FAILED", "STATE_CONFLICT"},
   RECONCILE_REQUIRED |-> {"RETRY_READY", "CLOSED", "FAILED", "STATE_CONFLICT"}]

\* Mutant of Successors: RETRY_READY lacks CLOSED.
SuccessorsUnclosable ==
  [PENDING            |-> {"HANDOFF_READY", "RECONCILE_REQUIRED", "CLOSED", "FAILED", "STATE_CONFLICT"},
   HANDOFF_READY      |-> {"PROCESSING", "RETRY_READY", "RECONCILE_REQUIRED", "CLOSED", "FAILED", "STATE_CONFLICT"},
   PROCESSING         |-> {"RETRY_READY", "RECONCILE_REQUIRED", "CLOSED", "FAILED", "STATE_CONFLICT"},
   RETRY_READY        |-> {"RECONCILE_REQUIRED", "FAILED", "STATE_CONFLICT"},
   RECONCILE_REQUIRED |-> {"CLOSED", "FAILED", "STATE_CONFLICT"}]

Successors ==
  [PENDING            |-> {"HANDOFF_READY", "RECONCILE_REQUIRED", "CLOSED", "FAILED", "STATE_CONFLICT"},
   HANDOFF_READY      |-> {"PROCESSING", "RETRY_READY", "RECONCILE_REQUIRED", "CLOSED", "FAILED", "STATE_CONFLICT"},
   PROCESSING         |-> {"RETRY_READY", "RECONCILE_REQUIRED", "CLOSED", "FAILED", "STATE_CONFLICT"},
   RETRY_READY        |-> {"RECONCILE_REQUIRED", "CLOSED", "FAILED", "STATE_CONFLICT"},
   RECONCILE_REQUIRED |-> {"CLOSED", "FAILED", "STATE_CONFLICT"}]

\* Mutant of canTransition: the check is dropped.
canTransitionAnywhere(from, to, allowConflict) == TRUE

canTransition(from, to, allowConflict) ==
  \/ from = to
  \/ from = "STATE_CONFLICT" /\ allowConflict /\ to \in {"RECONCILE_REQUIRED", "CLOSED"}
  \/ from \in {"CLOSED", "FAILED"} /\ allowConflict /\ to = "STATE_CONFLICT"
  \/ from \notin {"STATE_CONFLICT", "CLOSED", "FAILED"} /\ to \in Successors[from]
=============================================================================
