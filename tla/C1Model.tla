------------------------------ MODULE C1Model ------------------------------
(***************************************************************************)
(* The pure authority model of the C1 contract (contract/src/model.rs):    *)
(* one incident authority row, and for every contract function the         *)
(* decision it takes and the row it leaves.  No state of its own: C1Contract*)
(* keeps the rows, EffectBroker composes one row with broker processes.    *)
(*                                                                         *)
(* Abstractions.  A DID, a nonce and an incident id are opaque values; the *)
(* ids the code formats from them ("claim-{version}-{nonce}") are records  *)
(* of the same fields, which is injective as the formatting is.  The       *)
(* fields that build_incident_authority fixes to constants (action, owner, *)
(* repository, max_effects = 1) are left out.  u64 is 0..MaxU64.           *)
(***************************************************************************)
EXTENDS Integers

CONSTANTS
  Incident,   \* incident ids
  Did,        \* well-formed principals (valid_did)
  Tenant,     \* the tenant's own DID: the operator
  Nonce,      \* well-formed 128-bit nonces (valid_nonce)
  KeyId,      \* deploy key ids, 0 is not one
  MaxU64,     \* largest u64: cluster seconds and claim generations
  MinTtl,     \* MIN_INCIDENT_TTL_SECS
  MaxTtl,     \* MAX_INCIDENT_TTL_SECS
  None        \* Option::None, and every malformed input

ASSUME PrincipalAssumption == Tenant \in Did /\ None \notin Did
ASSUME NonceAssumption == None \notin Nonce
ASSUME KeyAssumption == KeyId \subseteq Nat \ {0}
ASSUME WidthAssumption == MaxU64 \in Nat \ {0}
ASSUME TtlAssumption == MinTtl \in Nat \ {0} /\ MaxTtl \in Nat /\ MinTtl <= MaxTtl

U64 == 0..MaxU64

\* claim-{version}-{nonce} and start-{version}-{nonce}
StateId == [version : U64, nonce : Nonce]

Status == {"ACTIVE", "RESERVED", "EFFECT_CLAIMED", "EFFECT_STARTED",
           "READY_RETRY", "CLOSED", "EXPIRED", "RECONCILE_REQUIRED", "FAILED"}

Classification == {"VERIFIED_ABSENT", "VERIFIED_PRESENT",
                   "PROVIDER_ACKNOWLEDGED", "ATTEMPTED_OUTCOME_UNKNOWN"}
IncidentAuthority ==
  [incident_id                 : Incident,
   remediation_agent_did       : Did,
   effect_broker_did           : Did,
   deploy_key_id               : KeyId,
   created_at                  : U64,
   expires_at                  : U64,
   effect_attempts             : 0..1,
   status                      : Status,
   reservation_version         : U64,
   effect_claim_id             : StateId \cup {None},
   effect_claim_version        : U64,
   effect_start_id             : StateId \cup {None},
   final_result_classification : Classification \cup {None}]

\* None is none of the values an Option holds.
ASSUME OptionAssumption == None \notin StateId \cup Classification /\ None \notin IncidentAuthority

----------------------------------------------------------------------------
(* valid_shape: the rows the contract accepts.  reservation_id is present   *)
(* exactly when reservation_version > 0 and is formatted from it, so the    *)
(* version stands for both.                                                 *)

NoEffect(a) ==
  a.effect_attempts = 0 /\ a.effect_start_id = None /\ a.final_result_classification = None

Started(a) ==
  /\ a.effect_attempts = 1
  /\ a.reservation_version > 0
  /\ a.effect_claim_id # None
  /\ a.effect_start_id # None

StatusShape(a) ==
  /\ a.status = "ACTIVE" =>
       NoEffect(a) /\ a.reservation_version = 0 /\ a.effect_claim_id = None /\ a.effect_claim_version = 0
  /\ a.status = "RESERVED" =>
       NoEffect(a) /\ a.reservation_version > 0 /\ a.effect_claim_id = None /\ a.effect_claim_version = 0
  /\ a.status = "READY_RETRY" =>
       NoEffect(a) /\ a.reservation_version > 0 /\ a.effect_claim_id = None /\ a.effect_claim_version > 0
  /\ a.status = "EFFECT_CLAIMED" =>
       NoEffect(a) /\ a.reservation_version > 0 /\ a.effect_claim_id # None
  /\ a.status = "EXPIRED" =>
       NoEffect(a) /\ a.effect_claim_id = None
  /\ a.status = "EFFECT_STARTED" =>
       Started(a) /\ a.final_result_classification = None
  /\ a.status = "CLOSED" =>
       Started(a) /\ a.final_result_classification = "VERIFIED_ABSENT"
  /\ a.status = "RECONCILE_REQUIRED" =>
       Started(a) /\ a.final_result_classification \in Classification \ {"VERIFIED_ABSENT"}
  /\ a.status = "FAILED" =>
       Started(a) /\ a.final_result_classification = "VERIFIED_PRESENT"

valid_shape(a) ==
  /\ a.created_at < a.expires_at
  /\ a.effect_claim_id # None => a.effect_claim_version > 0
  /\ StatusShape(a)

valid_time(a, now) == a.created_at <= now /\ now < a.expires_at

valid_nonce(n) == n \in Nonce

caller_matches(expected, caller) == expected \in Did /\ caller = expected

operator_matches_tenant(caller) == caller = Tenant

----------------------------------------------------------------------------
(* A decision and the row it leaves.  "Denied" carries a note in the code;  *)
(* the notes are wording and are left out.                                  *)

Outcome(decision, a) == [decision |-> decision, authority |-> a]

\* What dispatch stores after a call: only an affirmative decision writes, or
\* a row that is EXPIRED (the one mutation a denial may leave behind).
Writes(o) == o.decision \in {"Won", "Proposed"} \/ o.authority.status = "EXPIRED"

\* create-incident.  Every malformed input is None; ttl ranges over u64.
CreateDenied(caller, rem, broker, key, ttl, now) ==
  \/ ~operator_matches_tenant(caller)
  \/ ~({rem, broker} \subseteq Did \ {Tenant})
  \/ rem = broker
  \/ key \notin KeyId
  \/ ttl < MinTtl \/ ttl > MaxTtl
  \/ now + ttl > MaxU64

build_incident_authority(i, rem, broker, key, ttl, now) ==
  [incident_id |-> i, remediation_agent_did |-> rem, effect_broker_did |-> broker,
   deploy_key_id |-> key, created_at |-> now, expires_at |-> now + ttl,
   effect_attempts |-> 0, status |-> "ACTIVE", reservation_version |-> 0,
   effect_claim_id |-> None, effect_claim_version |-> 0, effect_start_id |-> None,
   final_result_classification |-> None]

\* Mutant of Expire: a claimed row expires too.
ExpireClaimed(a) ==
  IF a.status \in {"ACTIVE", "RESERVED", "READY_RETRY", "EFFECT_CLAIMED"}
  THEN [a EXCEPT !.status = "EXPIRED"] ELSE a

\* reserve and claim_with_nonce mark a row nobody has claimed when its time is up.
Expire(a) ==
  IF a.status \in {"ACTIVE", "RESERVED", "READY_RETRY"} THEN [a EXCEPT !.status = "EXPIRED"] ELSE a

reserve(a, caller, now) ==
  IF ~valid_shape(a) \/ ~caller_matches(a.remediation_agent_did, caller) THEN Outcome("Denied", a)
  ELSE IF ~valid_time(a, now) THEN Outcome("Denied", Expire(a))
  ELSE IF a.effect_attempts # 0 THEN Outcome("Denied", a)
  ELSE IF a.status # "ACTIVE" THEN Outcome("Lost", a)
  ELSE Outcome("Won", [a EXCEPT !.status = "RESERVED",
                                !.reservation_version = a.reservation_version + 1])

\* Mutant of GenerationExhausted: the addition is not checked.
GenerationUnchecked(a) == FALSE

\* effect_claim_version.checked_add(1) is None.
GenerationExhausted(a) == a.effect_claim_version = MaxU64

claim_with_nonce(a, caller, now, expected_claim_version, contender_nonce) ==
  IF ~valid_shape(a) \/ ~caller_matches(a.effect_broker_did, caller) THEN Outcome("Denied", a)
  ELSE IF ~valid_time(a, now) THEN Outcome("Denied", Expire(a))
  ELSE IF a.effect_attempts # 0 \/ a.effect_claim_version # expected_claim_version THEN Outcome("Lost", a)
  ELSE IF ~valid_nonce(contender_nonce) THEN Outcome("Denied", a)
  ELSE IF a.status \notin {"RESERVED", "READY_RETRY"} THEN Outcome("Lost", a)
  ELSE IF GenerationExhausted(a) THEN Outcome("Denied", a)
  ELSE Outcome("Proposed",
         [a EXCEPT !.status = "EFFECT_CLAIMED",
                   !.effect_claim_version = a.effect_claim_version + 1,
                   !.effect_claim_id = [version |-> a.effect_claim_version + 1,
                                        nonce |-> contender_nonce]])

\* Mutant of OwnsClaim: the identity is compared, the status and budget are not.
OwnsClaimEver(a, caller, claim_id) ==
  /\ valid_shape(a)
  /\ caller_matches(a.effect_broker_did, caller)
  /\ claim_id # None /\ a.effect_claim_id = claim_id

\* The claim holder: what release, begin and confirm-claim all require.
OwnsClaim(a, caller, claim_id) ==
  /\ valid_shape(a)
  /\ caller_matches(a.effect_broker_did, caller)
  /\ a.status = "EFFECT_CLAIMED"
  /\ a.effect_attempts = 0
  /\ claim_id # None /\ a.effect_claim_id = claim_id

\* Mutant of ReleasedRow: the released claim's identity stays in the row.
ReleasedKeepingClaim(a) == [a EXCEPT !.status = "READY_RETRY"]

\* The generation stays advanced, so a released identity cannot come back.
ReleasedRow(a) == [a EXCEPT !.status = "READY_RETRY", !.effect_claim_id = None]

release_not_attempted(a, caller, claim_id, now) ==
  IF OwnsClaim(a, caller, claim_id) /\ valid_time(a, now)
  THEN Outcome("Won", ReleasedRow(a))
  ELSE Outcome("Denied", a)

begin_effect_with_nonce(a, caller, claim_id, start_nonce, now) ==
  IF OwnsClaim(a, caller, claim_id) /\ valid_nonce(start_nonce) /\ valid_time(a, now)
  THEN Outcome("Won",
         [a EXCEPT !.status = "EFFECT_STARTED",
                   !.effect_attempts = 1,
                   !.effect_start_id = [version |-> a.effect_claim_version, nonce |-> start_nonce]])
  ELSE Outcome("Denied", a)

\* confirm-claim and confirm-effect-start only read: TRUE is CONFIRMED.
confirm_claim(a, caller, claim_id) == OwnsClaim(a, caller, claim_id)

OwnsStart(a, caller, claim_id, effect_start_id) ==
  /\ valid_shape(a)
  /\ caller_matches(a.effect_broker_did, caller)
  /\ a.effect_attempts = 1
  /\ claim_id # None /\ a.effect_claim_id = claim_id
  /\ effect_start_id # None /\ a.effect_start_id = effect_start_id

confirm_effect_start(a, caller, claim_id, effect_start_id) ==
  OwnsStart(a, caller, claim_id, effect_start_id) /\ a.status = "EFFECT_STARTED"

FinalStatus(classification) ==
  IF classification = "VERIFIED_ABSENT" THEN "CLOSED"
  ELSE IF classification = "VERIFIED_PRESENT" THEN "FAILED" ELSE "RECONCILE_REQUIRED"

finalize_with_start(a, caller, claim_id, effect_start_id, classification) ==
  IF /\ OwnsStart(a, caller, claim_id, effect_start_id)
     /\ a.status = "EFFECT_STARTED"
     /\ classification \in Classification
  THEN Outcome("Won", [a EXCEPT !.status = FinalStatus(classification),
                                !.final_result_classification = classification])
  ELSE Outcome("Denied", a)

\* Mutant of AwaitsReconciliation: a closed incident can be reconciled again.
AwaitsReconciliationOrClosed(a) ==
  a.status \in {"EFFECT_STARTED", "RECONCILE_REQUIRED", "FAILED", "CLOSED"}

AwaitsReconciliation(a) == a.status \in {"EFFECT_STARTED", "RECONCILE_REQUIRED", "FAILED"}

reconcile_with_start(a, caller, claim_id, effect_start_id, classification) ==
  IF /\ OwnsStart(a, caller, claim_id, effect_start_id)
     /\ AwaitsReconciliation(a)
     /\ classification \in Classification \ {"PROVIDER_ACKNOWLEDGED"}
  THEN Outcome("Won", [a EXCEPT !.status = IF classification = "VERIFIED_ABSENT"
                                           THEN "CLOSED" ELSE "RECONCILE_REQUIRED",
                                !.final_result_classification = classification])
  ELSE Outcome("Denied", a)
=============================================================================
