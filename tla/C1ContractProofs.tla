-------------------------- MODULE C1ContractProofs --------------------------
(***************************************************************************)
(* Theorems about C1Contract for every set of incidents, principals and    *)
(* nonces, every integer width and every TTL window.                       *)
(***************************************************************************)
EXTENDS C1Contract, C1ModelLemmas

----------------------------------------------------------------------------
(* Every step of the contract, in terms of the one row and the one grant it *)
(* touches.                                                                 *)

Touch(i, b, grants) ==
  /\ rows' = [rows EXCEPT ![i] = b]
  /\ history' = [history EXCEPT ![i] = @ \cup grants]

GrantOf(function, caller, id) == [function |-> function, caller |-> caller, id |-> id]

Fresh(b) ==
  /\ b.remediation_agent_did # b.effect_broker_did
  /\ Tenant \notin {b.remediation_agent_did, b.effect_broker_did}
  /\ b.reservation_version = 0 /\ b.effect_claim_version = 0
  /\ b.effect_claim_id = None /\ b.effect_start_id = None

CreateForm(i) ==
  /\ rows[i] = None
  /\ \E b : GoodRow(b) /\ Fresh(b) /\ Touch(i, b, {GrantOf("create-incident", Tenant, None)})

ExpireForm(i) ==
  /\ rows[i].status \in {"ACTIVE", "RESERVED", "READY_RETRY"}
  /\ Touch(i, Expire(rows[i]), {})

ReserveForm(i) ==
  /\ rows[i].status = "ACTIVE"
  /\ GoodRow(Reserved(rows[i]))
  /\ Touch(i, Reserved(rows[i]), {GrantOf("reserve-incident", rows[i].remediation_agent_did, None)})

ClaimForm(i) ==
  /\ rows[i].status \in {"RESERVED", "READY_RETRY"}
  /\ \E nonce \in Nonce :
       /\ GoodRow(Claimed(rows[i], nonce))
       /\ Touch(i, Claimed(rows[i], nonce),
                {GrantOf("claim-effect", rows[i].effect_broker_did, Claimed(rows[i], nonce).effect_claim_id)})

ReleaseForm(i) ==
  /\ rows[i].status = "EFFECT_CLAIMED"
  /\ GoodRow(Released(rows[i]))
  /\ Touch(i, Released(rows[i]),
           {GrantOf("release-not-attempted", rows[i].effect_broker_did, rows[i].effect_claim_id)})

BeginForm(i) ==
  /\ rows[i].status = "EFFECT_CLAIMED"
  /\ \E start \in StateId :
       /\ start.version = rows[i].effect_claim_version
       /\ GoodRow(Begun(rows[i], start))
       /\ Touch(i, Begun(rows[i], start), {GrantOf("begin-effect", rows[i].effect_broker_did, start)})

SettleForm(i) ==
  /\ rows[i].status \in {"EFFECT_STARTED", "RECONCILE_REQUIRED", "FAILED"}
  /\ \E status, classification :
       /\ GoodRow(Settled(rows[i], status, classification))
       /\ Touch(i, Settled(rows[i], status, classification), {})

Form(i) ==
  \/ CreateForm(i)
  \/ /\ rows[i] # None
     /\ \/ ExpireForm(i) \/ ReserveForm(i) \/ ClaimForm(i)
        \/ ReleaseForm(i) \/ BeginForm(i) \/ SettleForm(i)

RowsGood == rows \in [Incident -> IncidentAuthority \cup {None}] /\ history \in [Incident -> SUBSET Grant]
            /\ \A i \in Incident : rows[i] # None => GoodRow(rows[i])

\* The inductive invariant makes every stored row a good one.
LEMMA RowsGoodFromIInv == IInv => RowsGood
  BY DEF IInv, TypeOK, RowsGood, GoodRow

\* Storing a row that did not change, with no grant, changes nothing.
LEMMA NoChange ==
  ASSUME RowsGood, NEW i \in Incident
  PROVE  /\ [rows EXCEPT ![i] = rows[i]] = rows
         /\ [history EXCEPT ![i] = @ \cup {}] = history
  BY DEF RowsGood

\* A stored outcome that is either the old row or its expiry.
LEMMA DenialForm ==
  ASSUME RowsGood, NEW i \in Incident, rows[i] # None, NEW o, o.authority \in {rows[i], Expire(rows[i])},
         Store(i, o), UNCHANGED history
  PROVE  UNCHANGED <<rows, history>> \/ Form(i)
  <1>1. CASE o.authority = rows[i]
    BY <1>1, NoChange DEF Store
  <1>2. CASE rows[i].status \notin {"ACTIVE", "RESERVED", "READY_RETRY"}
    BY <1>1, <1>2 DEF Expire
  <1>3. CASE o.authority = Expire(rows[i]) /\ rows[i].status \in {"ACTIVE", "RESERVED", "READY_RETRY"}
    BY <1>3, NoChange DEF Store, Form, ExpireForm, Touch
  <1> QED
    BY <1>1, <1>2, <1>3

\* Every step of the contract touches one incident in one of seven forms, or nothing but
\* the clock.
LEMMA NextForms ==
  ASSUME RowsGood, TypeOK, Next
  PROVE  UNCHANGED <<rows, history>> \/ \E i \in Incident : Form(i)
  <1>1. ASSUME NEW i \in Incident, NEW caller, NEW rem, NEW broker, NEW key, NEW ttl \in 0..(MaxTtl + 1),
               create_incident(i, caller, rem, broker, key, ttl)
        PROVE  Form(i)
    <2> DEFINE b == build_incident_authority(i, rem, broker, key, ttl, now)
    <2>1. GoodRow(b)
      BY <1>1, CreateGood, AssumptionsHold DEF create_incident, TypeOK, Assumptions
    <2>2. Fresh(b)
      BY <1>1 DEF create_incident, CreateDenied, build_incident_authority, Fresh
    <2>3. Touch(i, b, {GrantOf("create-incident", Tenant, None)})
      BY <1>1 DEF create_incident, CreateDenied, operator_matches_tenant, Record, Touch, GrantOf
    <2> QED
      BY <1>1, <2>1, <2>2, <2>3 DEF Form, CreateForm, create_incident, Vacant
  <1>2. ASSUME NEW i \in Incident, NEW caller, reserve_incident(i, caller)
        PROVE  UNCHANGED <<rows, history>> \/ Form(i)
    <2> DEFINE o == reserve(rows[i], caller, now)
    <2>1. rows[i] # None /\ GoodRow(rows[i]) /\ Store(i, o)
          /\ (IF o.decision = "Won" THEN Record(i, "reserve-incident", caller, None) ELSE UNCHANGED history)
      BY <1>2 DEF reserve_incident, RowsGood
    <2>2. \/ /\ o.decision = "Won" /\ o.authority = Reserved(rows[i])
             /\ rows[i].status = "ACTIVE" /\ caller = rows[i].remediation_agent_did
             /\ GoodRow(Reserved(rows[i]))
          \/ /\ o.decision \in {"Denied", "Lost"}
             /\ o.authority \in {rows[i], Expire(rows[i])}
      BY <2>1, ReserveOutcome
    <2>3. CASE o.decision = "Won"
      BY <2>1, <2>2, <2>3 DEF Store, Record, Form, ReserveForm, Touch, GrantOf
    <2>4. CASE o.decision # "Won"
      BY <2>1, <2>2, <2>4, DenialForm
    <2> QED
      BY <2>3, <2>4
  <1>3. ASSUME NEW i \in Incident, NEW caller, NEW version, NEW nonce, claim_effect(i, caller, version, nonce)
        PROVE  UNCHANGED <<rows, history>> \/ Form(i)
    <2> DEFINE o == claim_with_nonce(rows[i], caller, now, version, nonce)
    <2>1. rows[i] # None /\ GoodRow(rows[i]) /\ Store(i, o)
          /\ (IF o.decision = "Proposed"
              THEN Record(i, "claim-effect", caller, o.authority.effect_claim_id) ELSE UNCHANGED history)
      BY <1>3 DEF claim_effect, RowsGood
    <2>2. \/ /\ o.decision = "Proposed" /\ o.authority = Claimed(rows[i], nonce)
             /\ rows[i].status \in {"RESERVED", "READY_RETRY"} /\ caller = rows[i].effect_broker_did
             /\ nonce \in Nonce /\ GoodRow(Claimed(rows[i], nonce))
          \/ /\ o.decision \in {"Denied", "Lost"}
             /\ o.authority \in {rows[i], Expire(rows[i])}
      BY <2>1, ClaimOutcome
    <2>3. CASE o.decision = "Proposed"
      BY <2>1, <2>2, <2>3 DEF Store, Record, Form, ClaimForm, Touch, GrantOf
    <2>4. CASE o.decision # "Proposed"
      BY <2>1, <2>2, <2>4, DenialForm
    <2> QED
      BY <2>3, <2>4
  <1>4. ASSUME NEW i \in Incident, NEW caller, NEW claim \in StateId, release_not_attempted_call(i, caller, claim)
        PROVE  Form(i)
    <2> DEFINE o == release_not_attempted(rows[i], caller, claim, now)
    <2>1. rows[i] # None /\ GoodRow(rows[i]) /\ o.decision = "Won" /\ Store(i, o)
          /\ Record(i, "release-not-attempted", caller, claim)
      BY <1>4 DEF release_not_attempted_call, RowsGood
    <2>2. /\ o.authority = Released(rows[i]) /\ GoodRow(Released(rows[i]))
          /\ OwnsClaim(rows[i], caller, claim)
      BY <2>1, ReleaseOutcome
    <2>3. rows[i].status = "EFFECT_CLAIMED" /\ claim = rows[i].effect_claim_id
          /\ caller = rows[i].effect_broker_did
      BY <2>2 DEF OwnsClaim, caller_matches
    <2> QED
      BY <2>1, <2>2, <2>3 DEF Store, Record, Form, ReleaseForm, Touch, GrantOf
  <1>5. ASSUME NEW i \in Incident, NEW caller, NEW claim \in StateId, NEW nonce, begin_effect(i, caller, claim, nonce)
        PROVE  Form(i)
    <2> DEFINE o == begin_effect_with_nonce(rows[i], caller, claim, nonce, now)
               start == StartOf(rows[i], nonce)
    <2>1. rows[i] # None /\ GoodRow(rows[i]) /\ o.decision = "Won" /\ Store(i, o)
          /\ Record(i, "begin-effect", caller, o.authority.effect_start_id)
      BY <1>5 DEF begin_effect, RowsGood
    <2>2. /\ o.authority = Begun(rows[i], start) /\ GoodRow(Begun(rows[i], start))
          /\ OwnsClaim(rows[i], caller, claim) /\ start \in StateId
      BY <2>1, BeginOutcome
    <2>3. rows[i].status = "EFFECT_CLAIMED" /\ caller = rows[i].effect_broker_did
      BY <2>2 DEF OwnsClaim, caller_matches
    <2>4. o.authority.effect_start_id = start /\ start.version = rows[i].effect_claim_version
      BY <2>1, <2>2 DEF Begun, StartOf, GoodRow, IncidentAuthority
    <2> HIDE DEF o, start
    <2> QED
      BY <2>1, <2>2, <2>3, <2>4 DEF Store, Record, Form, BeginForm, Touch, GrantOf
  <1>6. ASSUME NEW i \in Incident, NEW caller, NEW claim \in StateId, NEW start \in StateId, NEW classification,
               \/ finalize_effect(i, caller, claim, start, classification)
               \/ reconcile_effect(i, caller, claim, start, classification)
        PROVE  Form(i)
    <2>1. PICK o : /\ \/ o = finalize_with_start(rows[i], caller, claim, start, classification)
                      \/ o = reconcile_with_start(rows[i], caller, claim, start, classification)
                   /\ rows[i] # None /\ o.decision = "Won" /\ Store(i, o) /\ UNCHANGED history
      BY <1>6 DEF finalize_effect, reconcile_effect
    <2>2. GoodRow(rows[i])
      BY <2>1 DEF RowsGood
    <2>3. \E status \in {"CLOSED", "RECONCILE_REQUIRED", "FAILED"} :
            /\ o.authority = Settled(rows[i], status, classification)
            /\ rows[i].status \in {"EFFECT_STARTED", "RECONCILE_REQUIRED", "FAILED"}
            /\ GoodRow(Settled(rows[i], status, classification))
      BY <2>1, <2>2, SettleOutcome
    <2> QED
      BY <2>1, <2>3, NoChange DEF Store, Form, SettleForm, Touch
  <1> QED
    BY <1>1, <1>2, <1>3, <1>4, <1>5, <1>6 DEF Next, ClockStep
----------------------------------------------------------------------------
(* The ledger of grants agrees with the row.                                *)

\* Recording a grant adds its identity to the identities of its own function only.
LEMMA IdsAdd ==
  ASSUME NEW h, NEW k, NEW function, NEW caller, NEW id, NEW f,
         k = h \cup {GrantOf(function, caller, id)}
  PROVE  /\ function = f => Ids(k, f) = Ids(h, f) \cup {id}
         /\ function # f => Ids(k, f) = Ids(h, f)
  <1> DEFINE g == GrantOf(function, caller, id)
  <1>1. g.function = function /\ g.id = id
    BY DEF GrantOf
  <1> HIDE DEF g
  <1>2. ASSUME function = f PROVE {e \in k : e.function = f} = {e \in h : e.function = f} \cup {g}
    BY <1>1, <1>2 DEF g
  <1>3. ASSUME function # f PROVE {e \in k : e.function = f} = {e \in h : e.function = f}
    BY <1>1, <1>3 DEF g
  <1> QED
    BY <1>1, <1>2, <1>3 DEF Ids

\* Recording a grant revokes none.
LEMMA GrantedAdd ==
  ASSUME NEW h, NEW g, NEW function, NEW caller, NEW id, Granted(h, function, caller, id)
  PROVE  Granted(h \cup g, function, caller, id)
  BY DEF Granted

\* A recorded grant is granted.
LEMMA GrantedNew ==
  ASSUME NEW h, NEW function, NEW caller, NEW id
  PROVE  Granted(h \cup {GrantOf(function, caller, id)}, function, caller, id)
  BY DEF Granted, GrantOf

\* A granted identity is among the identities of its function.
LEMMA GrantedId ==
  ASSUME NEW h, NEW function, NEW caller, NEW id, Granted(h, function, caller, id)
  PROVE  id \in Ids(h, function)
  BY DEF Granted, Ids

\* The ledger of a new incident: the operator's grant and nothing else.
LEMMA CreateLedger ==
  ASSUME NEW b, Fresh(b), NEW h, h = {} \cup {GrantOf("create-incident", Tenant, None)}
  PROVE  Ledger(b, h)
  <1>1. \A f : "create-incident" # f => Ids(h, f) = Ids({}, f)
    BY IdsAdd
  <1>2. \A f : Ids({}, f) = {}
    BY DEF Ids
  <1>3. Ids(h, "claim-effect") = {} /\ Ids(h, "release-not-attempted") = {} /\ Ids(h, "begin-effect") = {}
    BY <1>1, <1>2
  <1>4. Granted(h, "create-incident", Tenant, None)
    BY GrantedNew
  <1> QED
    BY <1>3, <1>4 DEF Fresh, Ledger

\* A reservation records the agent's grant that a positive version stands for.
LEMMA ReserveLedger ==
  ASSUME NEW a, NEW h, GoodRow(a), Ledger(a, h),
         NEW b, b = Reserved(a),
         NEW k, k = h \cup {GrantOf("reserve-incident", a.remediation_agent_did, None)}
  PROVE  Ledger(b, k)
  <1>1. \A f \in {"claim-effect", "release-not-attempted", "begin-effect"} : Ids(k, f) = Ids(h, f)
    BY IdsAdd
  <1>2. Granted(k, "reserve-incident", a.remediation_agent_did, None)
    BY GrantedNew
  <1>3. \A f, c, d : Granted(h, f, c, d) => Granted(k, f, c, d)
    BY GrantedAdd
  <1>4. /\ b.remediation_agent_did = a.remediation_agent_did /\ b.effect_broker_did = a.effect_broker_did
        /\ b.effect_claim_id = a.effect_claim_id /\ b.effect_claim_version = a.effect_claim_version
        /\ b.effect_start_id = a.effect_start_id
    BY DEF Reserved, GoodRow, IncidentAuthority
  <1> QED
    BY <1>1, <1>2, <1>3, <1>4 DEF Ledger

\* Expiry changes nothing the ledger speaks of.
LEMMA ExpireLedger ==
  ASSUME NEW a, NEW h, GoodRow(a), Ledger(a, h)
  PROVE  Ledger(Expire(a), h)
  <1> DEFINE b == Expire(a)
  <1>1. /\ b.remediation_agent_did = a.remediation_agent_did /\ b.effect_broker_did = a.effect_broker_did
        /\ b.effect_claim_id = a.effect_claim_id /\ b.effect_claim_version = a.effect_claim_version
        /\ b.effect_start_id = a.effect_start_id /\ b.reservation_version = a.reservation_version
    BY DEF Expire, GoodRow, IncidentAuthority
  <1> QED
    BY <1>1 DEF Ledger

\* A new claim is of a newer generation than any id handed out before it, so it
\* is neither one of them nor released.
LEMMA ClaimLedger ==
  ASSUME NEW a, NEW h, GoodRow(a), Ledger(a, h), NEW nonce \in Nonce, GoodRow(Claimed(a, nonce)),
         a.status \in {"RESERVED", "READY_RETRY"},
         NEW b, b = Claimed(a, nonce), NEW c, c = b.effect_claim_id,
         NEW k, k = h \cup {GrantOf("claim-effect", a.effect_broker_did, c)}
  PROVE  Ledger(b, k)
  <1>1. /\ b.remediation_agent_did = a.remediation_agent_did /\ b.effect_broker_did = a.effect_broker_did
        /\ b.effect_claim_version = a.effect_claim_version + 1 /\ c.version = a.effect_claim_version + 1
        /\ b.effect_start_id = a.effect_start_id /\ b.reservation_version = a.reservation_version
        /\ a.effect_claim_version \in Int
    BY DEF Claimed, GoodRow, IncidentAuthority, U64
  <1>2. a.effect_start_id = None
    BY DEF GoodRow, valid_shape, StatusShape, NoEffect
  <1>3. Ids(k, "claim-effect") = Ids(h, "claim-effect") \cup {c}
    BY IdsAdd
  <1>4. Ids(k, "release-not-attempted") = Ids(h, "release-not-attempted") /\ Ids(k, "begin-effect") = Ids(h, "begin-effect")
    BY IdsAdd
  <1>5. Granted(k, "claim-effect", a.effect_broker_did, c)
    BY GrantedNew
  <1>6. \A f, d, e : Granted(h, f, d, e) => Granted(k, f, d, e)
    BY GrantedAdd
  <1>7. \A p \in Ids(h, "claim-effect") : p.version \in Int /\ p.version <= a.effect_claim_version
    BY DEF Ledger, StateId, U64
  <1>8. c \notin Ids(h, "claim-effect")
    BY <1>1, <1>7
  <1>9. c \in StateId
    BY AssumptionsHold DEF Assumptions, GoodRow, IncidentAuthority, Claimed, valid_shape, StatusShape
  <1>10. \A p, q \in Ids(k, "claim-effect") : p.version = q.version => p = q
    BY <1>1, <1>3, <1>7 DEF Ledger
  <1>11. \A p \in Ids(k, "claim-effect") : p.version <= b.effect_claim_version
    BY <1>1, <1>3, <1>7
  <1> QED
    BY <1>1, <1>2, <1>3, <1>4, <1>5, <1>6, <1>8, <1>9, <1>10, <1>11 DEF Ledger

\* A released claim leaves the row before it is recorded as released.
LEMMA ReleaseLedger ==
  ASSUME NEW a, NEW h, GoodRow(a), Ledger(a, h), a.status = "EFFECT_CLAIMED",
         NEW b, b = Released(a),
         NEW k, k = h \cup {GrantOf("release-not-attempted", a.effect_broker_did, a.effect_claim_id)}
  PROVE  Ledger(b, k)
  <1>1. /\ b.remediation_agent_did = a.remediation_agent_did /\ b.effect_broker_did = a.effect_broker_did
        /\ b.effect_claim_id = None /\ b.effect_claim_version = a.effect_claim_version
        /\ b.effect_start_id = a.effect_start_id /\ b.reservation_version = a.reservation_version
    BY DEF Released, GoodRow, IncidentAuthority
  <1>2. a.effect_start_id = None /\ a.effect_claim_id # None
    BY DEF GoodRow, valid_shape, StatusShape, NoEffect
  <1>3. Ids(k, "release-not-attempted") = Ids(h, "release-not-attempted") \cup {a.effect_claim_id}
    BY IdsAdd
  <1>4. Ids(k, "claim-effect") = Ids(h, "claim-effect") /\ Ids(k, "begin-effect") = Ids(h, "begin-effect")
    BY IdsAdd
  <1>5. \A f, d, e : Granted(h, f, d, e) => Granted(k, f, d, e)
    BY GrantedAdd
  <1>6. a.effect_claim_id \in Ids(h, "claim-effect")
    BY <1>2, GrantedId DEF Ledger
  <1> QED
    BY <1>1, <1>2, <1>3, <1>4, <1>5, <1>6 DEF Ledger

\* The first start of an incident: the row had none, so none was handed out.
LEMMA BeginLedger ==
  ASSUME NEW a, NEW h, GoodRow(a), Ledger(a, h), a.status = "EFFECT_CLAIMED",
         NEW start \in StateId, start.version = a.effect_claim_version,
         NEW b, b = Begun(a, start),
         NEW k, k = h \cup {GrantOf("begin-effect", a.effect_broker_did, start)}
  PROVE  Ledger(b, k)
  <1>1. /\ b.remediation_agent_did = a.remediation_agent_did /\ b.effect_broker_did = a.effect_broker_did
        /\ b.effect_claim_id = a.effect_claim_id /\ b.effect_claim_version = a.effect_claim_version
        /\ b.effect_start_id = start /\ b.reservation_version = a.reservation_version
    BY DEF Begun, GoodRow, IncidentAuthority
  <1>2. a.effect_start_id = None /\ start # None
    BY AssumptionsHold DEF GoodRow, valid_shape, StatusShape, NoEffect, Assumptions
  <1>3. Ids(k, "begin-effect") = Ids(h, "begin-effect") \cup {start}
    BY IdsAdd
  <1>4. Ids(k, "claim-effect") = Ids(h, "claim-effect") /\ Ids(k, "release-not-attempted") = Ids(h, "release-not-attempted")
    BY IdsAdd
  <1>5. Granted(k, "begin-effect", a.effect_broker_did, start)
    BY GrantedNew
  <1>6. \A f, d, e : Granted(h, f, d, e) => Granted(k, f, d, e)
    BY GrantedAdd
  <1> QED
    BY <1>1, <1>2, <1>3, <1>4, <1>5, <1>6 DEF Ledger

\* finalize and reconcile change only status and classification.
LEMMA SettleLedger ==
  ASSUME NEW a, NEW h, GoodRow(a), Ledger(a, h), NEW status, NEW classification
  PROVE  Ledger(Settled(a, status, classification), h)
  <1> DEFINE b == Settled(a, status, classification)
  <1>1. /\ b.remediation_agent_did = a.remediation_agent_did /\ b.effect_broker_did = a.effect_broker_did
        /\ b.effect_claim_id = a.effect_claim_id /\ b.effect_claim_version = a.effect_claim_version
        /\ b.effect_start_id = a.effect_start_id /\ b.reservation_version = a.reservation_version
    BY DEF Settled, GoodRow, IncidentAuthority
  <1> QED
    BY <1>1 DEF Ledger
----------------------------------------------------------------------------
(* The inductive invariant.                                                 *)

\* A touched row is a good row, with a grant set of the right type, and its
\* ledger agrees.
LEMMA FormKeepsRow ==
  ASSUME IInv, NEW i \in Incident, Form(i)
  PROVE  \E b, g : /\ Touch(i, b, g)
                   /\ g \subseteq Grant
                   /\ GoodRow(b) /\ Ledger(b, history[i] \cup g)
  <1> DEFINE a == rows[i]
             h == history[i]
  <1>1. CASE CreateForm(i)
    <2>1. PICK b : GoodRow(b) /\ Fresh(b) /\ Touch(i, b, {GrantOf("create-incident", Tenant, None)})
      BY <1>1 DEF CreateForm
    <2>2. h = {}
      BY <1>1 DEF CreateForm, IInv
    <2>3. Ledger(b, h \cup {GrantOf("create-incident", Tenant, None)})
      BY <2>1, <2>2, CreateLedger
    <2>4. {GrantOf("create-incident", Tenant, None)} \subseteq Grant
      BY AssumptionsHold DEF Assumptions, Grant, GrantOf
    <2> QED
      BY <2>1, <2>3, <2>4
  <1>2. ASSUME a # None
        PROVE  GoodRow(a) /\ Ledger(a, h) /\ h \subseteq Grant /\ a.effect_broker_did \in Did
               /\ a.remediation_agent_did \in Did /\ a.effect_claim_id \in StateId \cup {None}
    BY <1>2 DEF IInv, TypeOK, GoodRow, IncidentAuthority
  <1>3. CASE a # None /\ ExpireForm(i)
    <2>1. GoodRow(Expire(a)) /\ Ledger(Expire(a), h)
      BY <1>2, <1>3, ExpireGood, ExpireLedger DEF ExpireForm
    <2>2. h \cup {} = h
      OBVIOUS
    <2> QED
      BY <1>3, <2>1, <2>2 DEF ExpireForm
  <1>4. CASE a # None /\ ReserveForm(i)
    <2> DEFINE g == {GrantOf("reserve-incident", a.remediation_agent_did, None)}
    <2>1. Ledger(Reserved(a), h \cup g)
      BY <1>2, <1>4, ReserveLedger
    <2>2. g \subseteq Grant
      BY <1>2, <1>4 DEF Grant, GrantOf
    <2> QED
      BY <1>4, <2>1, <2>2 DEF ReserveForm
  <1>5. CASE a # None /\ ClaimForm(i)
    <2>1. PICK nonce \in Nonce :
            /\ GoodRow(Claimed(a, nonce))
            /\ Touch(i, Claimed(a, nonce),
                     {GrantOf("claim-effect", a.effect_broker_did, Claimed(a, nonce).effect_claim_id)})
      BY <1>5 DEF ClaimForm
    <2> DEFINE c == Claimed(a, nonce).effect_claim_id
               g == {GrantOf("claim-effect", a.effect_broker_did, c)}
    <2>2. a.status \in {"RESERVED", "READY_RETRY"}
      BY <1>5 DEF ClaimForm
    <2>3. Ledger(Claimed(a, nonce), h \cup g)
      BY <1>2, <1>5, <2>1, <2>2, ClaimLedger
    <2>4. g \subseteq Grant
      BY <1>2, <1>5, <2>1 DEF Grant, GrantOf, GoodRow, IncidentAuthority
    <2> QED
      BY <2>1, <2>3, <2>4
  <1>6. CASE a # None /\ ReleaseForm(i)
    <2> DEFINE g == {GrantOf("release-not-attempted", a.effect_broker_did, a.effect_claim_id)}
    <2>1. Ledger(Released(a), h \cup g)
      BY <1>2, <1>6, ReleaseLedger DEF ReleaseForm
    <2>2. g \subseteq Grant
      BY <1>2, <1>6 DEF Grant, GrantOf
    <2> QED
      BY <1>6, <2>1, <2>2 DEF ReleaseForm
  <1>7. CASE a # None /\ BeginForm(i)
    <2>1. PICK start \in StateId :
            /\ start.version = a.effect_claim_version
            /\ GoodRow(Begun(a, start))
            /\ Touch(i, Begun(a, start), {GrantOf("begin-effect", a.effect_broker_did, start)})
      BY <1>7 DEF BeginForm
    <2>2. Ledger(Begun(a, start), h \cup {GrantOf("begin-effect", a.effect_broker_did, start)})
      BY <1>2, <1>7, <2>1, BeginLedger DEF BeginForm
    <2>3. {GrantOf("begin-effect", a.effect_broker_did, start)} \subseteq Grant
      BY <1>2, <1>7 DEF Grant, GrantOf
    <2> QED
      BY <2>1, <2>2, <2>3
  <1>8. CASE a # None /\ SettleForm(i)
    <2>1. PICK status, classification :
            /\ GoodRow(Settled(a, status, classification))
            /\ Touch(i, Settled(a, status, classification), {})
      BY <1>8 DEF SettleForm
    <2>2. Ledger(Settled(a, status, classification), h)
      BY <1>2, <1>8, SettleLedger
    <2>3. h \cup {} = h
      OBVIOUS
    <2> QED
      BY <2>1, <2>2, <2>3
  <1> QED
    BY <1>1, <1>3, <1>4, <1>5, <1>6, <1>7, <1>8 DEF Form

\* Type correctness, valid_shape of every row and the ledger of grants are inductive:
\* they hold after any sequence of calls, for any number of incidents, principals and nonces.
THEOREM InductiveInvariant == Spec => []IInv
  <1>1. Init => IInv
    BY DEF Init, IInv, TypeOK
  <1>2. IInv /\ [Next]_vars => IInv'
    <2> SUFFICES ASSUME IInv, [Next]_vars PROVE IInv'
      OBVIOUS
    <2>1. now' \in U64
      BY DEF IInv, TypeOK, vars, Next, create_incident, reserve_incident, claim_effect, release_not_attempted_call,
         begin_effect, finalize_effect, reconcile_effect, Store, ClockStep
    <2>2. CASE UNCHANGED <<rows, history>>
      BY <2>1, <2>2 DEF IInv, TypeOK
    <2>3. ASSUME NEW i \in Incident, Form(i) PROVE IInv'
      <3>1. PICK b, g : /\ Touch(i, b, g) /\ g \subseteq Grant
                        /\ GoodRow(b) /\ Ledger(b, history[i] \cup g)
        BY <2>3, FormKeepsRow
      <3>2. /\ rows' = [rows EXCEPT ![i] = b]
            /\ history' = [history EXCEPT ![i] = history[i] \cup g]
            /\ rows \in [Incident -> IncidentAuthority \cup {None}]
            /\ history \in [Incident -> SUBSET Grant]
        BY <3>1 DEF Touch, IInv, TypeOK
      <3>3. /\ b \in IncidentAuthority /\ b # None /\ valid_shape(b)
            /\ history[i] \cup g \in SUBSET Grant
        BY <3>1, <3>2, AssumptionsHold DEF GoodRow, Assumptions
      <3>4. TypeOK'
        BY <2>1, <3>2, <3>3 DEF TypeOK
      <3>5. ASSUME NEW j \in Incident
            PROVE  IF rows'[j] = None THEN history'[j] = {}
                   ELSE valid_shape(rows'[j]) /\ Ledger(rows'[j], history'[j])
        <4>1. CASE j = i
          BY <3>1, <3>2, <3>3, <4>1
        <4>2. CASE j # i
          BY <3>2, <4>2 DEF IInv
        <4> QED
          BY <4>1, <4>2
      <3> QED
        BY <3>4, <3>5 DEF IInv
    <2> QED
      BY <2>2, <2>3, NextForms, RowsGoodFromIInv DEF IInv, vars
  <1> QED
    BY <1>1, <1>2, PTL DEF Spec

----------------------------------------------------------------------------
(* What the inductive invariant gives.                                      *)

\* No sequence of calls stores a row that dispatch would then refuse.
THEOREM RowsAlwaysValid == Spec => [](TypeOK /\ RowsStayValid)
  <1>1. IInv => TypeOK /\ RowsStayValid
    BY DEF IInv, RowsStayValid
  <1> QED
    BY <1>1, InductiveInvariant, PTL

\* Rows, clock and history keep their types.
THEOREM TypeCorrect == Spec => []TypeOK
  <1>1. IInv => TypeOK
    BY DEF IInv
  <1> QED
    BY <1>1, InductiveInvariant, PTL

\* At most one effect-start identity is ever handed out per incident.
THEOREM OneStartPerIncident == Spec => []SingleStart
  <1>1. IInv => SingleStart
    <2> SUFFICES ASSUME IInv, NEW i \in Incident
                 PROVE  Ids(history[i], "begin-effect") =
                          IF rows[i] # None /\ rows[i].effect_start_id # None THEN {rows[i].effect_start_id} ELSE {}
      BY DEF SingleStart
    <2>1. CASE rows[i] = None
      BY <2>1 DEF IInv, Ids
    <2>2. CASE rows[i] # None
      BY <2>2 DEF IInv, Ledger
    <2> QED
      BY <2>1, <2>2
  <1> QED
    BY <1>1, InductiveInvariant, PTL

\* Claim generations fence released and superseded brokers.
THEOREM ClaimsAreFenced == Spec => []ClaimFence
  <1>1. IInv => ClaimFence
    <2> SUFFICES ASSUME IInv, NEW i \in Incident
                 PROVE  /\ \A p, q \in Ids(history[i], "claim-effect") : p.version = q.version => p = q
                        /\ \A p \in Ids(history[i], "claim-effect") : p.version <= rows[i].effect_claim_version
                        /\ rows[i] # None => rows[i].effect_claim_id \notin Ids(history[i], "release-not-attempted")
      BY DEF ClaimFence
    <2>1. CASE rows[i] = None
      BY <2>1 DEF IInv, Ids
    <2>2. CASE rows[i] # None
      <3>1. Ledger(rows[i], history[i])
        BY <2>2 DEF IInv
      <3>2. None \notin Ids(history[i], "release-not-attempted")
        BY <3>1, AssumptionsHold DEF Ledger, Assumptions
      <3> QED
        BY <2>2, <3>1, <3>2 DEF Ledger
    <2> QED
      BY <2>1, <2>2
  <1> QED
    BY <1>1, InductiveInvariant, PTL

\* Operator, remediation agent and effect broker all had to act.
THEOREM EffectsNeedThreePrincipals == Spec => []SeparationOfDuties
  <1>1. IInv => SeparationOfDuties
    <2> SUFFICES ASSUME IInv, NEW i \in Incident, rows[i] # None, rows[i].effect_attempts = 1
                 PROVE  ThreePrincipals(rows[i], history[i])
      BY DEF SeparationOfDuties
    <2>1. rows[i] \in IncidentAuthority /\ valid_shape(rows[i]) /\ Ledger(rows[i], history[i])
      BY DEF IInv, TypeOK
    <2>2. Started(rows[i])
      BY <2>1 DEF valid_shape, StatusShape, NoEffect, Started, IncidentAuthority, Status
    <2> QED
      BY <2>1, <2>2 DEF Started, Ledger, ThreePrincipals
  <1> QED
    BY <1>1, InductiveInvariant, PTL

\* A step of a form only touches the row it names, and a terminal row has no form.
LEMMA TerminalHasNoForm ==
  ASSUME IInv, NEW i \in Incident, Form(i)
  PROVE  rows[i] # None => rows[i].status \notin {"CLOSED", "EXPIRED"}
  BY DEF Form, CreateForm, ExpireForm, ReserveForm, ClaimForm, ReleaseForm, BeginForm, SettleForm

\* A CLOSED or EXPIRED row is never stored again.
THEOREM TerminalRowsNeverChange == Spec => TerminalRowsFrozen
  <1>1. IInv /\ [Next]_vars =>
          [\A i \in Incident :
             (rows[i] # None /\ rows[i].status \in {"CLOSED", "EXPIRED"}) => rows'[i] = rows[i]]_vars
    <2> SUFFICES ASSUME IInv, Next, NEW i \in Incident, rows[i] # None, rows[i].status \in {"CLOSED", "EXPIRED"}
                 PROVE  rows'[i] = rows[i]
      OBVIOUS
    <2>1. CASE UNCHANGED <<rows, history>>
      BY <2>1
    <2>2. ASSUME NEW j \in Incident, Form(j) PROVE rows'[i] = rows[i]
      <3>1. PICK b, g : Touch(j, b, g)
        BY <2>2, FormKeepsRow
      <3>2. j # i
        BY <2>2, TerminalHasNoForm
      <3> QED
        BY <3>1, <3>2 DEF Touch, IInv, TypeOK
    <2> QED
      BY <2>1, <2>2, NextForms, RowsGoodFromIInv DEF IInv
  <1> QED
    BY <1>1, InductiveInvariant, PTL DEF Spec, TerminalRowsFrozen

\* Every form keeps the grant, the budget and the identities of a started effect.
LEMMA FormKeepsAuthority ==
  ASSUME IInv, NEW i \in Incident, Form(i), rows[i] # None
  PROVE  \E b : rows' = [rows EXCEPT ![i] = b] /\ Keeps(rows[i], b)
  <1> DEFINE a == rows[i]
  <1>1. GoodRow(a) /\ a \in IncidentAuthority
    BY DEF IInv, TypeOK, GoodRow
  <1>2. a.status \in {"ACTIVE", "RESERVED", "READY_RETRY", "EFFECT_CLAIMED"} => a.effect_attempts = 0
    BY <1>1 DEF GoodRow, valid_shape, StatusShape, NoEffect
  <1>3. ASSUME NEW b, GoodRow(b), rows' = [rows EXCEPT ![i] = b], Terms(b) = Terms(a),
               \/ a.effect_attempts = 0
               \/ /\ b.effect_attempts = a.effect_attempts
                  /\ b.effect_claim_id = a.effect_claim_id /\ b.effect_start_id = a.effect_start_id
        PROVE  \E c : rows' = [rows EXCEPT ![i] = c] /\ Keeps(rows[i], c)
    <2>1. b \in IncidentAuthority /\ b # None
      BY <1>3, AssumptionsHold DEF GoodRow, Assumptions
    <2>2. a.effect_attempts \in 0..1 /\ b.effect_attempts \in 0..1
      BY <1>1, <2>1 DEF IncidentAuthority
    <2>3. Keeps(a, b)
      BY <1>3, <2>1, <2>2 DEF Keeps
    <2> QED
      BY <1>3, <2>3
  <1>4. CASE ExpireForm(i)
    BY <1>1, <1>2, <1>3, <1>4, ExpireGood DEF ExpireForm, Touch, Terms, IncidentAuthority
  <1>5. CASE ReserveForm(i)
    BY <1>1, <1>2, <1>3, <1>5 DEF ReserveForm, Touch, Terms, Reserved, IncidentAuthority
  <1>6. CASE ClaimForm(i)
    BY <1>1, <1>2, <1>3, <1>6 DEF ClaimForm, Touch, Terms, Claimed, IncidentAuthority
  <1>7. CASE ReleaseForm(i)
    BY <1>1, <1>2, <1>3, <1>7 DEF ReleaseForm, Touch, Terms, Released, IncidentAuthority
  <1>8. CASE BeginForm(i)
    BY <1>1, <1>2, <1>3, <1>8 DEF BeginForm, Touch, Terms, Begun, IncidentAuthority
  <1>9. CASE SettleForm(i)
    BY <1>1, <1>3, <1>9 DEF SettleForm, Touch, Terms, Settled, IncidentAuthority
  <1> QED
    BY <1>4, <1>5, <1>6, <1>7, <1>8, <1>9 DEF Form, CreateForm

\* The terms of the grant, the spent budget and the identities of a started effect are
\* never rewritten.
THEOREM AuthorityNeverRewritten == Spec => AuthorityFixed
  <1>1. IInv /\ [Next]_vars => [\A i \in Incident : rows[i] # None => Keeps(rows[i], rows'[i])]_vars
    <2> SUFFICES ASSUME IInv, Next, NEW i \in Incident, rows[i] # None
                 PROVE  Keeps(rows[i], rows'[i])
      OBVIOUS
    <2>1. rows \in [Incident -> IncidentAuthority \cup {None}] /\ rows[i].effect_attempts \in 0..1
      BY DEF IInv, TypeOK, IncidentAuthority
    <2>2. Keeps(rows[i], rows[i])
      BY <2>1 DEF Keeps
    <2>3. CASE UNCHANGED <<rows, history>>
      BY <2>2, <2>3
    <2>4. ASSUME NEW j \in Incident, Form(j) PROVE Keeps(rows[i], rows'[i])
      <3>1. PICK b, g : Touch(j, b, g)
        BY <2>4, FormKeepsRow
      <3>2. CASE j = i
        BY <2>1, <2>4, <3>2, FormKeepsAuthority
      <3>3. CASE j # i
        BY <2>1, <2>2, <3>1, <3>3 DEF Touch
      <3> QED
        BY <3>2, <3>3
    <2> QED
      BY <2>3, <2>4, NextForms, RowsGoodFromIInv DEF IInv
  <1> QED
    BY <1>1, InductiveInvariant, PTL DEF Spec, AuthorityFixed
=============================================================================
