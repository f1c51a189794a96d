----------------------------- MODULE BrokerChild -----------------------------
(***************************************************************************)
(* A broker child (broker/run.ts) as far as its surroundings depend on it: *)
(* what it does to the C1 row, whether the key is gone, and what the       *)
(* result file says.  Tokens, reads and the DELETE are one step, act.      *)
(*                                                                         *)
(* ChildSpec is what any number of such children may do in surroundings    *)
(* that create and reserve the incident, launch them with any expectation, *)
(* and reconcile what they verified.  EffectBroker implements it with      *)
(* every call in place; RuntimeRecovery composes it with a job.            *)
(***************************************************************************)
EXTENDS C1Model

CONSTANTS
  Agent,      \* the remediation agent's DID, used by the coordinator
  Broker,     \* the effect broker's DID
  Doubled     \* C1 may answer claim and begin affirmatively without a commit

ASSUME RoleAssumption == {Agent, Broker} \subseteq Did \ {Tenant} /\ Agent # Broker
ASSUME DoubledAssumption == Doubled \in BOOLEAN

\* A child is named for the nonces it draws.
Child == Nonce

VARIABLES
  row,       \* the committed C1 row, None before create-incident
  key,       \* the deploy key exists at GitHub
  child,     \* the broker children
  result     \* the child result file, None when unlinked

Calling == {"claim", "propose", "begin", "confirm", "act", "unknown", "verify", "settle", "resettle", "persist"}

ChildState ==
  [pc : Calling \cup {"off", "ended"}, expected : U64,
   claim : StateId \cup {None}, start : StateId \cup {None}, closed : BOOLEAN]

Off == [pc |-> "off", expected |-> 0, claim |-> None, start |-> None, closed |-> FALSE]

Ended == [Off EXCEPT !.pc = "ended"]

Result == [claim : StateId \cup {None}, start : StateId \cup {None}, closed : BOOLEAN]

ASSUME RecordAssumption == None \notin Result

----------------------------------------------------------------------------
(* C1 calls: committed and answered, committed and lost, neither.           *)

Stored(o) == IF Writes(o) THEN o.authority ELSE row

Fates(o) == {[row |-> Stored(o), reply |-> TRUE],
             [row |-> Stored(o), reply |-> FALSE],
             [row |-> row, reply |-> FALSE]}

FatesOrDoubled(o) == Fates(o) \cup (IF Doubled THEN {[row |-> row, reply |-> TRUE]} ELSE {})

----------------------------------------------------------------------------
(* The child.                                                               *)

Set(c, s) == child' = [child EXCEPT ![c] = s]

Advance(c, pc) == Set(c, [child[c] EXCEPT !.pc = pc])

Is(c, pc) == child[c].pc = pc

ResultOf(s) == [claim |-> s.claim, start |-> s.start, closed |-> s.closed]

\* claim-effect.
claim(c) ==
  /\ Is(c, "claim")
  /\ \E now \in U64 :
       LET o == claim_with_nonce(row, Broker, now, child[c].expected, c)
       IN  \E f \in FatesOrDoubled(o) :
             /\ row' = f.row
             /\ IF f.reply /\ o.decision = "Proposed"
                THEN Set(c, [child[c] EXCEPT !.pc = "propose", !.claim = o.authority.effect_claim_id])
                ELSE Advance(c, "persist")
  /\ UNCHANGED <<key, result>>

\* An accepted proposal is written to the result file.
propose(c) ==
  /\ Is(c, "propose")
  /\ result' = ResultOf(child[c])
  /\ Advance(c, "begin")
  /\ UNCHANGED <<row, key>>

\* confirm-claim and begin-effect.
begin(c) ==
  /\ Is(c, "begin")
  /\ \/ \E now \in U64 :
          LET o == begin_effect_with_nonce(row, Broker, child[c].claim, c, now)
          IN  \E f \in FatesOrDoubled(o) :
                /\ row' = f.row
                /\ IF f.reply /\ o.decision = "Won"
                   THEN Set(c, [child[c] EXCEPT !.pc = "confirm", !.start = o.authority.effect_start_id])
                   ELSE Advance(c, "persist")
     \/ Advance(c, "persist") /\ UNCHANGED row
  /\ UNCHANGED <<key, result>>

confirm(c) ==
  /\ Is(c, "confirm")
  /\ \/ confirm_effect_start(row, Broker, child[c].claim, child[c].start) /\ Advance(c, "act")
     \/ Advance(c, "persist")
  /\ UNCHANGED <<row, key, result>>

\* Token, checks, DELETE and verification: no verdict, no answer, or absent.
act(c) ==
  /\ Is(c, "act")
  /\ key' \in {key, FALSE}
  /\ \/ Advance(c, "persist")
     \/ Advance(c, "unknown")
     \/ ~key' /\ Advance(c, "settle")
  /\ UNCHANGED <<row, result>>

\* finalize as ATTEMPTED_OUTCOME_UNKNOWN, ...
unknown(c) ==
  /\ Is(c, "unknown")
  /\ \E f \in Fates(finalize_with_start(row, Broker, child[c].claim, child[c].start, "ATTEMPTED_OUTCOME_UNKNOWN")) :
       /\ row' = f.row
       /\ Advance(c, IF f.reply THEN "verify" ELSE "persist")
  /\ UNCHANGED <<key, result>>

\* ... then the independent verifier.
verify(c) ==
  /\ Is(c, "verify")
  /\ \/ ~key /\ Advance(c, "resettle")
     \/ Advance(c, "persist")
  /\ UNCHANGED <<row, key, result>>

settle(c) ==
  /\ child[c].pc \in {"settle", "resettle"}
  /\ LET o == IF Is(c, "settle")
              THEN finalize_with_start(row, Broker, child[c].claim, child[c].start, "VERIFIED_ABSENT")
              ELSE reconcile_with_start(row, Broker, child[c].claim, child[c].start, "VERIFIED_ABSENT")
     IN  \E f \in Fates(o) :
           /\ row' = f.row
           /\ Set(c, [child[c] EXCEPT !.pc = "persist", !.closed = f.reply /\ o.decision = "Won"])
  /\ UNCHANGED <<key, result>>

persist(c) ==
  /\ Is(c, "persist")
  /\ result' = ResultOf(child[c])
  /\ Set(c, Ended)
  /\ UNCHANGED <<row, key>>

die(c) ==
  /\ child[c].pc \in Calling
  /\ Set(c, Ended)
  /\ UNCHANGED <<row, key, result>>

ChildStep(c) ==
  \/ claim(c) \/ propose(c) \/ begin(c) \/ confirm(c) \/ act(c)
  \/ unknown(c) \/ verify(c) \/ settle(c) \/ persist(c) \/ die(c)

----------------------------------------------------------------------------
(* The world outside.                                                       *)

\* Somebody else removes the key, or a late DELETE lands.
key_removed ==
  /\ key /\ key' = FALSE
  /\ UNCHANGED <<row, child, result>>

\* An operator with the broker's key releases a claim it believes abandoned.
release ==
  /\ row # None
  /\ \E now \in U64 :
       LET o == release_not_attempted(row, Broker, row.effect_claim_id, now)
       IN  o.decision = "Won" /\ row' = o.authority
  /\ UNCHANGED <<key, child, result>>

----------------------------------------------------------------------------
(* The surroundings: they bring the incident to its reservation, launch     *)
(* children and reconcile.  What they know may be of any age.               *)

\* create-incident and reserve.
prepare ==
  /\ \/ /\ row = None
        /\ \E i \in Incident, k \in KeyId, ttl \in MinTtl..MaxTtl, now \in U64 :
             /\ ~CreateDenied(Tenant, Agent, Broker, k, ttl, now)
             /\ row' = build_incident_authority(i, Agent, Broker, k, ttl, now)
     \/ row # None /\ \E now \in U64 : row' = Stored(reserve(row, Agent, now))
  /\ UNCHANGED <<key, child, result>>

\* runChild unlinks the result file, ...
unlink ==
  /\ result' = None
  /\ UNCHANGED <<row, key, child>>

\* A child is launched with a claim that was seen, or to propose one.
Launched(expected, given) ==
  [Off EXCEPT !.pc = IF given = None THEN "claim" ELSE "begin", !.expected = expected, !.claim = given]

\* ... and launches a child.
launch(c) ==
  /\ Is(c, "off")
  /\ result' = None
  /\ \E expected \in U64, given \in StateId \cup {None} : Set(c, Launched(expected, given))
  /\ UNCHANGED <<row, key>>

\* The worker's reconcile-effect, which C1 accepts only of its own claim and start:
\* VERIFIED_ABSENT is said only of a key that is gone.
reconciled ==
  /\ row # None
  /\ \E class \in Classification :
       /\ class = "VERIFIED_ABSENT" => ~key
       /\ row' = Stored(reconcile_with_start(row, Broker, row.effect_claim_id, row.effect_start_id, class))
  /\ UNCHANGED <<key, child, result>>

childVars == <<row, key, child, result>>

ChildInit ==
  /\ row # None => row \in IncidentAuthority /\ valid_shape(row) /\ NoEffect(row)
  /\ key \in BOOLEAN
  /\ child = [c \in Child |-> Off]
  /\ result = None

Surroundings == prepare \/ reconciled \/ unlink \/ \E c \in Child : launch(c)

ChildNext == (\E c \in Child : ChildStep(c)) \/ key_removed \/ release \/ Surroundings

ChildSpec == ChildInit /\ [][ChildNext]_childVars
=============================================================================
