----------------------------- MODULE C1Contract -----------------------------
(***************************************************************************)
(* The C1 contract as deployed (contract/src/lib.rs): a key-value map of   *)
(* incident authorities, the cluster clock, and one action per exported    *)
(* function.  Each call is one transaction: read the row, decide, store.   *)
(* Callers, inputs and the order of calls are arbitrary, and so is the     *)
(* clock (the code compares now with created_at, so it expects a clock     *)
(* that may step back).  Calls that store nothing are stuttering steps;    *)
(* confirm-claim, confirm-effect-start and get-incident are among them.    *)
(***************************************************************************)
EXTENDS C1Model

VARIABLES
  rows,     \* incident id -> stored authority, or None
  now,      \* cluster_timestamp_secs
  history   \* history variable: the affirmative decisions on each incident

vars == <<rows, now, history>>

Grant == [function : {"create-incident", "reserve-incident", "claim-effect",
                      "release-not-attempted", "begin-effect"},
          caller   : Did,
          id       : StateId \cup {None}]

TypeOK ==
  /\ rows \in [Incident -> IncidentAuthority \cup {None}]
  /\ now \in U64
  /\ history \in [Incident -> SUBSET Grant]

Init ==
  /\ rows = [i \in Incident |-> None]
  /\ now \in U64
  /\ history = [i \in Incident |-> {}]

Record(i, function, caller, id) ==
  history' = [history EXCEPT ![i] = @ \cup {[function |-> function, caller |-> caller, id |-> id]}]

\* The end of dispatch: store the row when the outcome says so.
Store(i, o) ==
  /\ Writes(o)
  /\ rows' = [rows EXCEPT ![i] = o.authority]
  /\ UNCHANGED now

----------------------------------------------------------------------------
(* create-incident is exclusive: an existing row is never replaced.         *)

\* Mutant of Vacant: create-incident overwrites.
VacantAlways(i) == TRUE

Vacant(i) == rows[i] = None

create_incident(i, caller, rem, broker, key, ttl) ==
  /\ ~CreateDenied(caller, rem, broker, key, ttl, now)
  /\ Vacant(i)
  /\ rows' = [rows EXCEPT ![i] = build_incident_authority(i, rem, broker, key, ttl, now)]
  /\ Record(i, "create-incident", caller, None)
  /\ UNCHANGED now

reserve_incident(i, caller) ==
  /\ rows[i] # None
  /\ LET o == reserve(rows[i], caller, now)
     IN  /\ Store(i, o)
         /\ IF o.decision = "Won" THEN Record(i, "reserve-incident", caller, None) ELSE UNCHANGED history

claim_effect(i, caller, expected_claim_version, contender_nonce) ==
  /\ rows[i] # None
  /\ LET o == claim_with_nonce(rows[i], caller, now, expected_claim_version, contender_nonce)
     IN  /\ Store(i, o)
         /\ IF o.decision = "Proposed"
            THEN Record(i, "claim-effect", caller, o.authority.effect_claim_id)
            ELSE UNCHANGED history

release_not_attempted_call(i, caller, claim_id) ==
  /\ rows[i] # None
  /\ LET o == release_not_attempted(rows[i], caller, claim_id, now)
     IN  o.decision = "Won" /\ Store(i, o) /\ Record(i, "release-not-attempted", caller, claim_id)

begin_effect(i, caller, claim_id, start_nonce) ==
  /\ rows[i] # None
  /\ LET o == begin_effect_with_nonce(rows[i], caller, claim_id, start_nonce, now)
     IN  o.decision = "Won" /\ Store(i, o) /\ Record(i, "begin-effect", caller, o.authority.effect_start_id)

finalize_effect(i, caller, claim_id, effect_start_id, classification) ==
  /\ rows[i] # None
  /\ LET o == finalize_with_start(rows[i], caller, claim_id, effect_start_id, classification)
     IN  o.decision = "Won" /\ Store(i, o) /\ UNCHANGED history

reconcile_effect(i, caller, claim_id, effect_start_id, classification) ==
  /\ rows[i] # None
  /\ LET o == reconcile_with_start(rows[i], caller, claim_id, effect_start_id, classification)
     IN  o.decision = "Won" /\ Store(i, o) /\ UNCHANGED history

\* The cluster clock, forwards or backwards.
ClockStep ==
  /\ now' \in U64
  /\ UNCHANGED <<rows, history>>

Next ==
  \/ \E i \in Incident, caller \in Did \cup {None} :
       \/ \E rem, broker \in Did \cup {None}, key \in KeyId \cup {0}, ttl \in 0..(MaxTtl + 1) :
            create_incident(i, caller, rem, broker, key, ttl)
       \/ reserve_incident(i, caller)
       \/ \E version \in U64, nonce \in Nonce \cup {None} : claim_effect(i, caller, version, nonce)
       \/ \E claim \in StateId : release_not_attempted_call(i, caller, claim)
       \/ \E claim \in StateId, nonce \in Nonce \cup {None} : begin_effect(i, caller, claim, nonce)
       \/ \E claim, start \in StateId, classification \in Classification \cup {None} :
            \/ finalize_effect(i, caller, claim, start, classification)
            \/ reconcile_effect(i, caller, claim, start, classification)
  \/ ClockStep

Spec == Init /\ [][Next]_vars

----------------------------------------------------------------------------
(* Properties                                                               *)

\* The identities in a set h of grants that a function handed out or took back.
Ids(h, function) == {g.id : g \in {k \in h : k.function = function}}

Granted(h, function, caller, id) == [function |-> function, caller |-> caller, id |-> id] \in h

\* Every row a sequence of accepted calls can store passes valid_shape, the
\* check dispatch makes before it does anything (lib.rs: "incident authority
\* is invalid").  A row that failed it could never be closed or expired again.
RowsStayValid == \A i \in Incident : rows[i] # None => valid_shape(rows[i])

\* An incident hands out one effect-start identity in its whole life, and the
\* row keeps it: a second begin-effect can never be WON, whatever claims,
\* releases, reclaims and clock steps come between.
SingleStart ==
  \A i \in Incident :
    Ids(history[i], "begin-effect") =
      IF rows[i] # None /\ rows[i].effect_start_id # None THEN {rows[i].effect_start_id} ELSE {}

\* Claim generations fence stale brokers: no two claims of an incident share a
\* generation, none is newer than the row's, and a released claim is never the
\* row's claim again (so confirm-claim and begin-effect refuse it for ever).
ClaimFence ==
  \A i \in Incident :
    LET claims == Ids(history[i], "claim-effect")
    IN  /\ \A p, q \in claims : p.version = q.version => p = q
        /\ \A p \in claims : p.version <= rows[i].effect_claim_version
        /\ rows[i] # None => rows[i].effect_claim_id \notin Ids(history[i], "release-not-attempted")

\* Three different principals stand behind every started effect: the operator
\* created the incident, the row's remediation agent reserved it and the row's
\* effect broker claimed the generation the start belongs to and started it.
ThreePrincipals(a, h) ==
  /\ a.remediation_agent_did # a.effect_broker_did
  /\ Tenant \notin {a.remediation_agent_did, a.effect_broker_did}
  /\ Granted(h, "create-incident", Tenant, None)
  /\ Granted(h, "reserve-incident", a.remediation_agent_did, None)
  /\ Granted(h, "claim-effect", a.effect_broker_did, a.effect_claim_id)
  /\ Granted(h, "begin-effect", a.effect_broker_did, a.effect_start_id)
  /\ a.effect_start_id.version = a.effect_claim_id.version

SeparationOfDuties ==
  \A i \in Incident :
    (rows[i] # None /\ rows[i].effect_attempts = 1) => ThreePrincipals(rows[i], history[i])

\* CLOSED and EXPIRED are final: no call of anyone, at any clock reading,
\* changes such a row again.
TerminalRowsFrozen ==
  [][\A i \in Incident :
       (rows[i] # None /\ rows[i].status \in {"CLOSED", "EXPIRED"}) => rows'[i] = rows[i]]_vars

\* What the operator granted stays granted as it was: no later call changes the
\* principals, the target or the window, gives the budget back, or swaps the
\* identities an effect was started under.
Terms(a) == <<a.remediation_agent_did, a.effect_broker_did, a.deploy_key_id, a.created_at, a.expires_at>>

Keeps(a, b) ==
  /\ b # None
  /\ Terms(b) = Terms(a)
  /\ b.effect_attempts >= a.effect_attempts
  /\ a.effect_attempts = 1 =>
       b.effect_claim_id = a.effect_claim_id /\ b.effect_start_id = a.effect_start_id

AuthorityFixed == [][\A i \in Incident : rows[i] # None => Keeps(rows[i], rows'[i])]_vars
----------------------------------------------------------------------------
(* The inductive strengthening: what the grants h of an incident say of its *)
(* row a.                                                                   *)

Ledger(a, h) ==
  LET claims   == Ids(h, "claim-effect")
      released == Ids(h, "release-not-attempted")
  IN  /\ a.remediation_agent_did # a.effect_broker_did
      /\ Tenant \notin {a.remediation_agent_did, a.effect_broker_did}
      /\ Granted(h, "create-incident", Tenant, None)
      /\ a.reservation_version > 0 => Granted(h, "reserve-incident", a.remediation_agent_did, None)
      /\ claims \subseteq StateId
      /\ \A p, q \in claims : p.version = q.version => p = q
      /\ \A p \in claims : p.version <= a.effect_claim_version
      /\ released \subseteq claims
      /\ a.effect_claim_id # None =>
           /\ Granted(h, "claim-effect", a.effect_broker_did, a.effect_claim_id)
           /\ a.effect_claim_id.version = a.effect_claim_version
           /\ a.effect_claim_id \notin released
      /\ Ids(h, "begin-effect") = IF a.effect_start_id # None THEN {a.effect_start_id} ELSE {}
      /\ a.effect_start_id # None =>
           /\ Granted(h, "begin-effect", a.effect_broker_did, a.effect_start_id)
           /\ a.effect_start_id.version = a.effect_claim_version

IInv ==
  /\ TypeOK
  /\ \A i \in Incident :
       IF rows[i] = None THEN history[i] = {} ELSE valid_shape(rows[i]) /\ Ledger(rows[i], history[i])
=============================================================================
