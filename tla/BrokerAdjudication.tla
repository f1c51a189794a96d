------------------------- MODULE BrokerAdjudication -------------------------
(***************************************************************************)
(* What the live runners conclude from the result files of broker children *)
(* (c2/broker-adjudication.ts, c2/closed-replay-adjudication.ts): who owned *)
(* the incident, whether everybody else stayed away from the provider, and  *)
(* whether a replay on a closed incident was harmless.                      *)
(*                                                                         *)
(* A result is the evidence record of broker/run.ts, reduced to the fields *)
(* the verdicts read.  Text fields, ids of processes and http details are   *)
(* left out.                                                               *)
(***************************************************************************)
EXTENDS C1Model, FiniteSets

OutcomeOfClaim == {"none", "CLAIM_PROPOSED", "CLAIM_LOST", "CLAIM_DENIED", "CLAIM_WON",
                 "DUPLICATE_NONCE_ABORT", "CHILD_PROCESS_FAILURE"}

BrokerResult ==
  [claim_outcome : OutcomeOfClaim,
   claim         : {"none", "Proposed", "Lost", "Denied"},   \* claim-effect's own answer
   claim_state   : Status \cup {None},                       \* the row's state in that answer
   claim_proposal: BOOLEAN,                                  \* a proposal identity is kept
   ownership_confirmation : {"none", "CONFIRMED", "NOT_OWNER"},
   token_minted  : BOOLEAN,
   delete        : {"none", "204", "error", "unknown"},      \* the one DELETE and its answer
   target_absent : BOOLEAN,                                  \* the reads after the DELETE
   verified      : BOOLEAN]                                  \* finalize or reconcile answered

NoResult ==
  [claim_outcome |-> "none", claim |-> "none", claim_state |-> None, claim_proposal |-> FALSE,
   ownership_confirmation |-> "none", token_minted |-> FALSE, delete |-> "none",
   target_absent |-> FALSE, verified |-> FALSE]

providerSafeForNonOwner(r) == ~r.token_minted /\ r.delete = "none"

ConfirmedOwner(r) ==
  r.ownership_confirmation = "CONFIRMED" /\ r.claim_outcome = "CLAIM_WON" /\ r.claim # "Lost"

EarlyClaimLost(r) ==
  /\ r.claim_outcome = "CLAIM_LOST" /\ r.claim \in {"none", "Lost"}
  /\ ~r.claim_proposal
  /\ r.ownership_confirmation = "none"
  /\ providerSafeForNonOwner(r)

ConfirmRejected(r) ==
  /\ r.claim_outcome = "CLAIM_LOST"
  /\ r.claim_proposal
  /\ r.ownership_confirmation = "NOT_OWNER"
  /\ providerSafeForNonOwner(r)

adjudicateBrokerResult(r) ==
  IF ConfirmedOwner(r) THEN "CONFIRMED_OWNER"
  ELSE IF EarlyClaimLost(r) THEN "NON_OWNER_EARLY_CLAIM_LOST"
  ELSE IF ConfirmRejected(r) THEN "NON_OWNER_CONFIRM_REJECTED"
  ELSE "INVALID_INDETERMINATE"

Owners(results) == {c \in DOMAIN results : adjudicateBrokerResult(results[c]) = "CONFIRMED_OWNER"}

\* Exactly one owner, and every other contender a safe non-owner.
adjudicateBrokerResults(results) ==
  /\ Cardinality(Owners(results)) = 1
  /\ \A c \in DOMAIN results : adjudicateBrokerResult(results[c]) # "INVALID_INDETERMINATE"

----------------------------------------------------------------------------
(* A replay on an incident that an independent read showed to be closed.    *)

exactClosedTerminal(a, key) ==
  /\ a.status = "CLOSED"
  /\ a.effect_attempts = 1
  /\ a.final_result_classification = "VERIFIED_ABSENT"
  /\ a.deploy_key_id = key
  /\ a.effect_claim_id # None /\ a.effect_start_id # None

providerBoundarySafe(r) == ~r.token_minted /\ r.delete = "none"

ClaimsNothing(r) == r.ownership_confirmation # "CONFIRMED" /\ ~r.claim_proposal

adjudicateClosedReplayBrokerResult(a, key, r) ==
  IF ~exactClosedTerminal(a, key) \/ ~providerBoundarySafe(r) \/ ~ClaimsNothing(r) \/ r.claim_state # "CLOSED"
  THEN "INVALID_CLOSED_REPLAY"
  ELSE IF r.claim = "Denied" /\ r.claim_outcome = "CLAIM_DENIED" THEN "SAFE_CLOSED_REPLAY_DENIED"
  ELSE IF r.claim = "Lost" /\ r.claim_outcome = "CLAIM_LOST" THEN "SAFE_CLOSED_REPLAY_LOST"
  ELSE "INVALID_CLOSED_REPLAY"

\* The fields a replay must leave as they were: all but the times.
closedTerminalAuthorityProjection(a) ==
  [incident_id |-> a.incident_id, deploy_key_id |-> a.deploy_key_id,
   remediation_agent_did |-> a.remediation_agent_did, effect_broker_did |-> a.effect_broker_did,
   effect_attempts |-> a.effect_attempts, reservation_version |-> a.reservation_version,
   effect_claim_id |-> a.effect_claim_id, effect_claim_version |-> a.effect_claim_version,
   effect_start_id |-> a.effect_start_id,
   final_result_classification |-> a.final_result_classification, status |-> a.status]

closedTerminalAuthorityUnchanged(before, after) ==
  closedTerminalAuthorityProjection(before) = closedTerminalAuthorityProjection(after)
=============================================================================
