--------------------------- MODULE C1ModelLemmas ---------------------------
(***************************************************************************)
(* Facts about the operations of C1Model, for every value of the constants:*)
(* what an affirmative outcome says of the row it was decided on and what  *)
(* it leaves, and that a valid row stays valid.  Shared by the proofs of   *)
(* C1Contract and EffectBroker.                                            *)
(***************************************************************************)
EXTENDS C1Model, TLAPS

Assumptions ==
  /\ Tenant \in Did /\ None \notin Did
  /\ None \notin Nonce
  /\ KeyId \subseteq Nat \ {0}
  /\ MaxU64 \in Nat \ {0}
  /\ MinTtl \in Nat \ {0} /\ MaxTtl \in Nat /\ MinTtl <= MaxTtl
  /\ None \notin StateId
  /\ None \notin Classification
  /\ None \notin IncidentAuthority

\* The constants' assumptions of C1Model, gathered for citation.
LEMMA AssumptionsHold == Assumptions
  BY PrincipalAssumption, NonceAssumption, KeyAssumption, WidthAssumption, TtlAssumption,
     OptionAssumption DEF Assumptions

----------------------------------------------------------------------------
(* The pure operations: what an affirmative outcome says of the row it was  *)
(* decided on, and that every outcome of a valid row is a valid row.        *)

GoodRow(a) == a \in IncidentAuthority /\ valid_shape(a)

\* The rows an operation may leave, by name.
Reserved(a) == [a EXCEPT !.status = "RESERVED", !.reservation_version = a.reservation_version + 1]
Claimed(a, nonce) ==
  [a EXCEPT !.status = "EFFECT_CLAIMED",
            !.effect_claim_version = a.effect_claim_version + 1,
            !.effect_claim_id = [version |-> a.effect_claim_version + 1, nonce |-> nonce]]
Released(a) == [a EXCEPT !.status = "READY_RETRY", !.effect_claim_id = None]
Begun(a, start) ==
  [a EXCEPT !.status = "EFFECT_STARTED", !.effect_attempts = 1, !.effect_start_id = start]
Settled(a, status, classification) ==
  [a EXCEPT !.status = status, !.final_result_classification = classification]

\* create-incident builds a valid ACTIVE row.
LEMMA CreateGood ==
  ASSUME NEW i \in Incident, NEW caller, NEW rem, NEW broker, NEW key, NEW ttl \in Nat, NEW t \in U64,
         ~CreateDenied(caller, rem, broker, key, ttl, t)
  PROVE  GoodRow(build_incident_authority(i, rem, broker, key, ttl, t))
  BY AssumptionsHold DEF Assumptions, CreateDenied, build_incident_authority, GoodRow, IncidentAuthority,
     valid_shape, StatusShape, NoEffect, Started, Status, U64

\* Expiry touches only rows nobody has claimed.
LEMMA ExpireGood ==
  ASSUME NEW a, GoodRow(a), a.status \in {"ACTIVE", "RESERVED", "READY_RETRY"}
  PROVE  /\ GoodRow(Expire(a))
         /\ Expire(a) = [a EXCEPT !.status = "EXPIRED"]
  BY DEF GoodRow, Expire, IncidentAuthority, valid_shape, StatusShape, NoEffect, Started, Status

\* reserve: the remediation agent moves an ACTIVE row inside its window.
LEMMA ReserveOutcome ==
  ASSUME NEW a, GoodRow(a), NEW caller, NEW t, NEW o, o = reserve(a, caller, t)
  PROVE  \/ /\ o.decision = "Won" /\ o.authority = Reserved(a)
            /\ a.status = "ACTIVE" /\ caller = a.remediation_agent_did
            /\ GoodRow(Reserved(a))
         \/ /\ o.decision \in {"Denied", "Lost"}
            /\ o.authority \in {a, Expire(a)}
  <1>1. a.status = "ACTIVE" => GoodRow(Reserved(a))
    <2> SUFFICES ASSUME a.status = "ACTIVE" PROVE GoodRow(Reserved(a))
      OBVIOUS
    <2>1. a.reservation_version = 0 /\ a.reservation_version + 1 \in U64
      BY AssumptionsHold DEF Assumptions, GoodRow, valid_shape, StatusShape, U64
    <2>2. Reserved(a) \in IncidentAuthority
      BY <2>1 DEF GoodRow, IncidentAuthority, Status, Reserved
    <2>3. valid_shape(Reserved(a))
      BY <2>1 DEF GoodRow, IncidentAuthority, valid_shape, StatusShape, NoEffect, Started, Reserved
    <2> QED
      BY <2>2, <2>3 DEF GoodRow
  <1> QED
    BY <1>1 DEF reserve, Outcome, caller_matches, Reserved

\* claim_with_nonce: the effect broker takes the next generation of a reserved,
\* unclaimed row.
LEMMA ClaimOutcome ==
  ASSUME NEW a, GoodRow(a), NEW caller, NEW t, NEW version, NEW nonce,
         NEW o, o = claim_with_nonce(a, caller, t, version, nonce)
  PROVE  \/ /\ o.decision = "Proposed" /\ o.authority = Claimed(a, nonce)
            /\ a.status \in {"RESERVED", "READY_RETRY"} /\ caller = a.effect_broker_did
            /\ nonce \in Nonce /\ a.effect_claim_version + 1 \in U64
            /\ GoodRow(Claimed(a, nonce))
         \/ /\ o.decision \in {"Denied", "Lost"}
            /\ o.authority \in {a, Expire(a)}
  <1>1. ASSUME a.status \in {"RESERVED", "READY_RETRY"}, nonce \in Nonce, a.effect_claim_version # MaxU64
        PROVE  a.effect_claim_version + 1 \in U64 /\ GoodRow(Claimed(a, nonce))
    <2>1. a.effect_claim_version + 1 \in U64 /\ a.effect_claim_version + 1 > 0
      BY <1>1, AssumptionsHold DEF Assumptions, GoodRow, IncidentAuthority, U64
    <2>2. [version |-> a.effect_claim_version + 1, nonce |-> nonce] \in StateId
      BY <1>1, <2>1 DEF StateId
    <2>3. Claimed(a, nonce) \in IncidentAuthority
      BY <2>1, <2>2 DEF GoodRow, IncidentAuthority, Status, Claimed
    <2>4. valid_shape(Claimed(a, nonce))
      BY <1>1, <2>1, <2>2, AssumptionsHold
      DEF Assumptions, GoodRow, IncidentAuthority, valid_shape, StatusShape, NoEffect, Started, Claimed
    <2> QED
      BY <2>1, <2>3, <2>4 DEF GoodRow
  <1>2. \/ /\ o.decision = "Proposed" /\ o.authority = Claimed(a, nonce)
           /\ a.status \in {"RESERVED", "READY_RETRY"} /\ caller = a.effect_broker_did
           /\ nonce \in Nonce /\ a.effect_claim_version # MaxU64
        \/ /\ o.decision \in {"Denied", "Lost"}
           /\ o.authority \in {a, Expire(a)}
    BY DEF claim_with_nonce, Outcome, caller_matches, valid_nonce, Claimed, GenerationExhausted
  <1> QED
    BY <1>1, <1>2

\* release_not_attempted: the claim's owner gives it back before any start.
LEMMA ReleaseOutcome ==
  ASSUME NEW a, GoodRow(a), NEW caller, NEW claim_id, NEW t, NEW o,
         o = release_not_attempted(a, caller, claim_id, t), o.decision = "Won"
  PROVE  /\ o.authority = Released(a)
         /\ OwnsClaim(a, caller, claim_id)
         /\ GoodRow(Released(a))
  <1>1. o.authority = Released(a) /\ OwnsClaim(a, caller, claim_id)
    BY DEF release_not_attempted, Outcome, Released, ReleasedRow
  <1>2. Released(a) \in IncidentAuthority
    BY DEF GoodRow, IncidentAuthority, Status, Released
  <1>3. valid_shape(Released(a))
    BY <1>1 DEF OwnsClaim, GoodRow, IncidentAuthority, valid_shape, StatusShape, NoEffect, Started, Released
  <1> QED
    BY <1>1, <1>2, <1>3 DEF GoodRow

\* The start identity a nonce stands for in the row's own generation.
StartOf(a, nonce) == [version |-> a.effect_claim_version, nonce |-> nonce]

\* begin_effect_with_nonce: the claim's owner spends the budget and gets a start identity
\* of the claim's own generation.
LEMMA BeginOutcome ==
  ASSUME NEW a, GoodRow(a), NEW caller, NEW claim_id, NEW nonce, NEW t, NEW o,
         o = begin_effect_with_nonce(a, caller, claim_id, nonce, t), o.decision = "Won"
  PROVE  /\ o.authority = Begun(a, StartOf(a, nonce))
         /\ OwnsClaim(a, caller, claim_id)
         /\ StartOf(a, nonce) \in StateId
         /\ GoodRow(Begun(a, StartOf(a, nonce)))
  <1>1. o.authority = Begun(a, StartOf(a, nonce)) /\ OwnsClaim(a, caller, claim_id) /\ nonce \in Nonce
    BY DEF begin_effect_with_nonce, Outcome, Begun, valid_nonce, StartOf
  <1>2. StartOf(a, nonce) \in StateId
    BY <1>1 DEF GoodRow, IncidentAuthority, StateId, StartOf
  <1>3. ASSUME NEW start \in StateId PROVE GoodRow(Begun(a, start))
    <2>1. Begun(a, start) \in IncidentAuthority
      <3>1. 1 \in 0..1 /\ "EFFECT_STARTED" \in Status
        BY DEF Status
      <3> QED
        BY <1>3, <3>1, Zenon DEF GoodRow, IncidentAuthority, Begun
    <2>2. /\ a.status = "EFFECT_CLAIMED" /\ a.created_at < a.expires_at /\ a.effect_claim_version > 0
          /\ a.reservation_version > 0 /\ a.effect_claim_id # None /\ a.final_result_classification = None
      BY <1>1 DEF OwnsClaim, GoodRow, valid_shape, StatusShape, NoEffect
    <2>3. start # None
      BY <1>3, AssumptionsHold DEF Assumptions
    <2>4. valid_shape(Begun(a, start))
      BY <2>2, <2>3 DEF GoodRow, IncidentAuthority, valid_shape, StatusShape, Started, Begun
    <2> QED
      BY <2>1, <2>4 DEF GoodRow
  <1> QED
    BY <1>1, <1>2, <1>3

\* finalize and reconcile settle a started row without touching its identities.
LEMMA SettleOutcome ==
  ASSUME NEW a, GoodRow(a), NEW caller, NEW claim_id, NEW start_id, NEW classification, NEW o,
         \/ o = finalize_with_start(a, caller, claim_id, start_id, classification)
         \/ o = reconcile_with_start(a, caller, claim_id, start_id, classification),
         o.decision = "Won"
  PROVE  \E status \in {"CLOSED", "RECONCILE_REQUIRED", "FAILED"} :
           /\ o.authority = Settled(a, status, classification)
           /\ a.status \in {"EFFECT_STARTED", "RECONCILE_REQUIRED", "FAILED"}
           /\ GoodRow(Settled(a, status, classification))
  <1>1. ASSUME NEW status \in {"CLOSED", "RECONCILE_REQUIRED", "FAILED"},
               a.status \in {"EFFECT_STARTED", "RECONCILE_REQUIRED", "FAILED"},
               classification \in Classification,
               status = "CLOSED" <=> classification = "VERIFIED_ABSENT",
               status = "FAILED" => classification = "VERIFIED_PRESENT"
        PROVE  GoodRow(Settled(a, status, classification))
    <2>1. Settled(a, status, classification) \in IncidentAuthority
      BY <1>1 DEF GoodRow, IncidentAuthority, Status, Settled
    <2>2. valid_shape(Settled(a, status, classification))
      BY <1>1 DEF GoodRow, IncidentAuthority, valid_shape, StatusShape, NoEffect, Started, Settled
    <2> QED
      BY <2>1, <2>2 DEF GoodRow
  <1>2. \E status \in {"CLOSED", "RECONCILE_REQUIRED", "FAILED"} :
          /\ o.authority = Settled(a, status, classification)
          /\ a.status \in {"EFFECT_STARTED", "RECONCILE_REQUIRED", "FAILED"}
          /\ classification \in Classification
          /\ status = "CLOSED" <=> classification = "VERIFIED_ABSENT"
          /\ status = "FAILED" => classification = "VERIFIED_PRESENT"
    <2>1. CASE o = finalize_with_start(a, caller, claim_id, start_id, classification)
      <3>1. /\ o.authority = Settled(a, FinalStatus(classification), classification)
            /\ a.status = "EFFECT_STARTED" /\ classification \in Classification
        BY <2>1 DEF finalize_with_start, Outcome, Settled
      <3> QED
        BY <3>1 DEF FinalStatus
    <2>2. CASE o = reconcile_with_start(a, caller, claim_id, start_id, classification)
      <3> DEFINE s == IF classification = "VERIFIED_ABSENT" THEN "CLOSED" ELSE "RECONCILE_REQUIRED"
      <3>1. /\ o.authority = Settled(a, s, classification)
            /\ a.status \in {"EFFECT_STARTED", "RECONCILE_REQUIRED", "FAILED"}
            /\ classification \in Classification
        BY <2>2 DEF reconcile_with_start, Outcome, Settled, AwaitsReconciliation
      <3> QED
        BY <3>1
    <2> QED
      BY <2>1, <2>2
  <1> QED
    BY <1>1, <1>2

\* A reconciliation that is not of the row's own claim and start changes nothing.
LEMMA ReconcileOwn ==
  ASSUME NEW a, NEW caller, NEW claim_id, NEW start_id, NEW classification, NEW o,
         o = reconcile_with_start(a, caller, claim_id, start_id, classification)
  PROVE  \/ o.decision = "Denied" /\ o.authority = a
         \/ /\ claim_id = a.effect_claim_id /\ start_id = a.effect_start_id
            /\ classification \in Classification
  BY DEF reconcile_with_start, OwnsStart, Outcome
=============================================================================
