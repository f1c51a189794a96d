-------------------------- MODULE R2BReplayLive --------------------------
(***************************************************************************)
(* scripts/c2-e2e-r2b-replay-live.ts with c2/replay-webhook-server.ts:     *)
(* after a causal run, GitHub is asked to deliver its event once more.     *)
(* The surviving accepted receipt has to answer for the pipeline, and the  *)
(* closed incident for the contract: a reservation and a claim are tried   *)
(* on it in vain.                                                          *)
(***************************************************************************)
EXTENDS LiveRun

r2b_preflight == Checks("preflight", "receipt", TRUE)

\* Exactly one accepted receipt of the historical delivery.
r2b_findDurableReceipt == Checks("receipt", "configuration", receipt["trigger"] = "ACCEPTED")

r2b_readAppConfiguration == Checks("configuration", "listen", TRUE)

r2b_listen ==
  /\ At("listen")
  /\ \/ inbox' = EmptyInbox /\ Goto("tunnel")
     \/ Throws /\ UNCHANGED inbox
  /\ UNCHANGED <<script, provider, row, receipt, evidence, gate, child>>

r2b_tunnelReadiness == Checks("tunnel", "original", TRUE)
r2b_originalDelivery == Checks("original", "redeliver", branch.head = "trigger")

\* The one POST; it may have been accepted although its answer was lost.
r2b_redeliver == Checks("redeliver", "await", TRUE)

\* The receiver.  Every request it lets through is a copy of the trigger; the members
\* of Delivery stand for two copies whose bodies are read at once.  A request is
\* turned away once one is captured, but not one that is being read by then: that
\* is captured and answered 202 as well, and the last to finish is kept.
Arrives ==
  /\ run.pc \in {"await", "history"}
  /\ inbox.capture = None
  /\ \E copy \in Delivery : inbox' = [inbox EXCEPT !.handling = @ \cup {copy}]
  /\ UNCHANGED <<script, run, provider, row, receipt, evidence, gate, child>>

Captures ==
  /\ run.pc \in {"await", "history"}
  /\ \E copy \in inbox.handling :
       inbox' = [inbox EXCEPT !.latest = "trigger", !.capture = "trigger", !.handling = @ \ {copy}]
  /\ UNCHANGED <<script, run, provider, row, receipt, evidence, gate, child>>

r2b_createR2BReplayWebhookServer == Arrives \/ Captures

r2b_waitForRedeliveryHistory == Checks("await", "history", TRUE)

r2b_capture == Checks("history", "replay", inbox.capture = "trigger")

\* No policies and poisoned observations: only the receipt can answer, and its file
\* keeps its digest.
r2b_replay == Checks("replay", "incident", receipt["trigger"] = "ACCEPTED")

\* Mutant of IncidentClosed: the incident is replayed in whatever state it is.
IncidentInAnyState == row # None

IncidentClosed ==
  /\ row # None /\ row.status = "CLOSED"
  /\ row.effect_attempts = 1
  /\ row.final_result_classification = "VERIFIED_ABSENT"

r2b_getIncident ==
  /\ At("incident")
  /\ \/ IncidentClosed /\ run' = [run EXCEPT !.pc = "reserve", !.closed = row]
     \/ Throws
  /\ UNCHANGED <<script, provider, row, receipt, evidence, others>>

r2b_closedIncidentReplay_reserve ==
  /\ At("reserve")
  /\ \E now \in U64 : CallsInVain("reserve", "broker", reserve(row, Agent, now), "Won")

\* A broker child with its barriers opened in advance, expecting the row's generation.
r2b_closedIncidentReplay_broker ==
  /\ At("broker")
  /\ \E now \in U64, c \in Contender :
       LET o == claim_with_nonce(row, Broker, now, row.effect_claim_version, c)
       IN  /\ row' \in {row, Stored(o)}
           /\ \/ /\ o.decision # "Proposed"
                 /\ adjudicateBrokerResult(Refused(NoResult, o)) \in {"NON_OWNER_EARLY_CLAIM_LOST", "NON_OWNER_CONFIRM_REJECTED"}
                 /\ Goto("terminal")
              \/ Throws
  /\ UNCHANGED <<script, provider, receipt, evidence, others>>

r2b_closedIncidentReplay_after ==
  Checks("terminal", "write", row # None /\ closedTerminalAuthorityUnchanged(run.closed, row))

\* The evidence is written beside the tree's other files and committed by hand.
r2b_write ==
  /\ At("write")
  /\ \/ run' = [run EXCEPT !.pc = "ended", !.passed = TRUE]
     \/ Throws
  /\ UNCHANGED <<script, provider, row, receipt, evidence, others>>

r2b_finally ==
  /\ At("catch")
  /\ Goto("ended")
  /\ UNCHANGED <<script, provider, row, receipt, evidence, others>>

R2B ==
  \/ r2b_preflight \/ r2b_findDurableReceipt \/ r2b_readAppConfiguration \/ r2b_listen \/ r2b_tunnelReadiness
  \/ r2b_originalDelivery \/ r2b_redeliver \/ r2b_waitForRedeliveryHistory \/ r2b_capture \/ r2b_replay
  \/ r2b_getIncident \/ r2b_closedIncidentReplay_reserve \/ r2b_closedIncidentReplay_broker
  \/ r2b_closedIncidentReplay_after \/ r2b_write \/ r2b_finally
=============================================================================
