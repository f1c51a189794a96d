---------------------------- MODULE PushIngress ----------------------------
(***************************************************************************)
(* From authenticated deliveries to incidents: the webhook handlers of the *)
(* coordinator (acceptWebhook, push-ingress.ts), which run concurrently in *)
(* one process, and the files they meet in: receipts, policies, bindings,  *)
(* retirements and jobs.  Every await is a step boundary; the process may  *)
(* die between any two and restarts through initialize.  The policy CLIs   *)
(* are other processes.  GitHub may deliver an event any number of times.  *)
(*                                                                         *)
(* Abstractions.  Authentication, eligibility and the causal transition    *)
(* are a relation between events and policies, Causal; they are functions  *)
(* of immutable data.  The maintained registry admits policies of one      *)
(* repository and branch only, so every active policy matches every event. *)
(* A receipt is never removed, so its random reservation id never differs. *)
(* A registry read that lists three directories is one step.               *)
(***************************************************************************)
EXTENDS Integers, FiniteSets

CONSTANTS
  Handler,     \* webhook requests in progress at once
  Event,       \* authenticated pushes: [delivery, body], body the raw digest
  Policy,      \* policy id and version
  Causal,      \* <<event, policy>>: eligible, and the secret was introduced
  MaxCrashes,  \* crashes of the coordinator considered
  None

Delivery == {e.delivery : e \in Event}

ASSUME CausalAssumption == Causal \subseteq Event \X Policy
ASSUME CrashAssumption == MaxCrashes \in Nat
ASSUME NoneAssumption == None \notin Event \cup Policy

VARIABLES
  receipts,    \* receipts/: the dedupe record of each delivery id
  registered,  \* policies/
  bindings,    \* bindings/: the event each policy is bound to
  retired,     \* retirements/
  jobs,        \* jobs/: incidents with a runtime job
  closed,      \* incidents that C1 has CLOSED as VERIFIED_ABSENT
  handler,     \* the handlers' local state
  coordinator, \* "listening", "down", or "recovering"
  crashes

files == <<receipts, bindings, jobs>>
world == <<registered, retired, closed>>
vars == <<files, world, handler, coordinator, crashes>>

\* derivePushIncidentId: a hash of policy, delivery and body.
Incident == [policy : Policy, event : Event]

Receipt == [event : Event, state : {"RESERVED", "ACCEPTED", "REJECTED"}, policy : Policy \cup {None}]

ASSUME ReceiptAssumption == None \notin Receipt

HandlerState ==
  [pc       : {"idle", "find", "active", "bound", "reserve", "read", "check",
               "recheck", "link", "accept", "reject", "job"},
   event    : Event \cup {None},
   existing : {"ABSENT", "RESERVED"},  \* the receipt as found before the policies
   policies : SUBSET Policy,           \* selectedRecords
   bound    : BOOLEAN,                 \* the event's own binding was found
   policy   : Policy \cup {None}]      \* the policy that matched

Idle == [pc |-> "idle", event |-> None, existing |-> "ABSENT", policies |-> {},
         bound |-> FALSE, policy |-> None]

TypeOK ==
  /\ receipts \in [Delivery -> Receipt \cup {None}]
  /\ registered \subseteq Policy
  /\ bindings \in [Policy -> Event \cup {None}]
  /\ retired \subseteq Policy
  /\ jobs \subseteq Incident
  /\ closed \subseteq Incident
  /\ handler \in [Handler -> HandlerState]
  /\ coordinator \in {"listening", "down", "recovering"}
  /\ crashes \in 0..MaxCrashes

Init ==
  /\ receipts = [d \in Delivery |-> None]
  /\ registered = {} /\ retired = {} /\ closed = {} /\ jobs = {}
  /\ bindings = [p \in Policy |-> None]
  /\ handler = [h \in Handler |-> Idle]
  /\ coordinator = "listening"
  /\ crashes = 0

At(h, pc) == handler[h].pc = pc

Becomes(h, state) ==
  /\ handler' = [handler EXCEPT ![h] = state]
  /\ UNCHANGED <<coordinator, crashes>>

Goto(h, pc) == Becomes(h, [handler[h] EXCEPT !.pc = pc])

State(d) == IF receipts[d] = None THEN "ABSENT" ELSE receipts[d].state

----------------------------------------------------------------------------
(* acceptWebhook, up to the registry reads                                  *)

deliver(h, e) ==
  /\ coordinator = "listening"
  /\ At(h, "idle")
  /\ Becomes(h, [Idle EXCEPT !.pc = "find", !.event = e])
  /\ UNCHANGED <<files, world>>

\* A decided receipt needs no policies.
findDedupeRecord(h) ==
  /\ At(h, "find")
  /\ LET state == State(handler[h].event.delivery)
     IN  IF state \in {"ACCEPTED", "REJECTED"}
         THEN Goto(h, "reserve")
         ELSE Becomes(h, [handler[h] EXCEPT !.pc = "active", !.existing = state])
  /\ UNCHANGED <<files, world>>

Active == {p \in registered : bindings[p] = None /\ p \notin retired}

activePolicyRecords(h) ==
  /\ At(h, "active")
  /\ Becomes(h, [handler[h] EXCEPT !.pc = "bound", !.policies = Active])
  /\ UNCHANGED <<files, world>>

\* Mutant of BoundTo: the bound policy is looked for among the active ones.
BoundToActive(e) == {p \in Active : bindings[p] = e}

\* The policies bound to this very event, and those bound to any.
BoundTo(e) == {p \in Policy : bindings[p] = e}

BoundToAny == {p \in Policy : bindings[p] # None}

\* A reserved event gets back a policy it is bound to; a new one, when no policy
\* is active, meets the bound ones, so that it is refused as ALREADY_BOUND.
boundPolicies(h) ==
  /\ At(h, "bound")
  /\ LET s == [handler[h] EXCEPT !.pc = "reserve", !.existing = "ABSENT"]
     IN  \/ /\ handler[h].existing = "RESERVED"
            /\ \/ \E p \in BoundTo(s.event) :
                    Becomes(h, [s EXCEPT !.policies = @ \cup {p}, !.bound = TRUE])
               \/ BoundTo(s.event) = {} /\ Becomes(h, s)
         \/ /\ handler[h].existing = "ABSENT"
            /\ Becomes(h, IF s.policies = {} THEN [s EXCEPT !.policies = BoundToAny] ELSE s)
  /\ UNCHANGED <<files, world>>

----------------------------------------------------------------------------
(* processPushWebhook                                                       *)

\* Mutant of Matched: without a single match the request is answered, but not decided.
MatchedOrAnswered(h) ==
  \/ \E p \in Policy : handler[h].policies = {p} /\ Becomes(h, [handler[h] EXCEPT !.pc = "read", !.policies = {}, !.policy = p])
  \/ Cardinality(handler[h].policies) # 1 /\ Becomes(h, Idle)

\* lookupPreExistingPushPolicy: exactly one usable policy, or a rejection.
Matched(h) ==
  LET found == handler[h].policies
  IN  \/ \E p \in found :
           found = {p} /\ Becomes(h, [handler[h] EXCEPT !.pc = "read", !.policies = {}, !.policy = p])
      \/ Cardinality(found) # 1 /\ Becomes(h, [handler[h] EXCEPT !.pc = "reject", !.policies = {}])

\* reserveDedupe, and what follows without an await.  The event of a handler
\* whose binding was found resumes at once, any other when the reservation has
\* aged (5 min), which a slow handler or a restart makes possible at any time.
reserveDedupe(h) ==
  /\ At(h, "reserve")
  /\ LET e == handler[h].event
         d == e.delivery
         r == receipts[d]
     IN  \/ /\ r = None
            /\ receipts' = [receipts EXCEPT ![d] = [event |-> e, state |-> "RESERVED", policy |-> None]]
            /\ Matched(h)
         \/ /\ r # None
            /\ UNCHANGED receipts
            /\ IF r.event # e \/ r.state = "REJECTED" THEN Becomes(h, Idle)
               ELSE IF r.state = "ACCEPTED"
               THEN Becomes(h, [Idle EXCEPT !.pc = "job", !.event = r.event, !.policy = r.policy])
               ELSE \/ Matched(h)
                    \/ ~handler[h].bound /\ Becomes(h, Idle)
  /\ UNCHANGED <<bindings, jobs, world>>

\* Mutant of Verified: the source was read, what it says is not looked at.
VerifiedBlindly(e, p) == TRUE

\* assertPushAuthorityEligible and verifyPushSecretTransition.
Verified(e, p) == <<e, p>> \in Causal

\* createImmutablePushReadPlan and readPlan; a failing read rejects.
readObservations(h) ==
  /\ At(h, "read")
  /\ \/ Verified(handler[h].event, handler[h].policy) /\ Goto(h, "check")
     \/ Goto(h, "reject")
  /\ UNCHANGED <<files, world>>

\* Mutant of BoundToThis: any binding will do.
BoundToSome(p, e) == bindings[p] # None

\* The identity in the binding file is that of policy p and event e.
BoundToThis(p, e) == bindings[p] = e

\* bindVerifiedEvent reads the binding file, ...
checkBinding(h) ==
  /\ At(h, "check")
  /\ LET p == handler[h].policy
     IN  Goto(h, IF bindings[p] = None THEN "recheck"
                 ELSE IF BoundToThis(p, handler[h].event) THEN "accept" ELSE "reject")
  /\ UNCHANGED <<files, world>>

\* ... then lists retirements and bindings, ...
recheckBinding(h) ==
  /\ At(h, "recheck")
  /\ LET p == handler[h].policy
     IN  Goto(h, IF bindings[p] # None \/ p \in retired THEN "reject" ELSE "link")
  /\ UNCHANGED <<files, world>>

\* Mutant of Linkable: the file is written in place, not linked exclusively.
LinkableAlways(p) == TRUE

Linkable(p) == bindings[p] = None

\* ... then links the new file: the first link wins.
linkBinding(h) ==
  /\ At(h, "link")
  /\ LET p == handler[h].policy
         e == handler[h].event
     IN  IF Linkable(p)
         THEN bindings' = [bindings EXCEPT ![p] = e] /\ Goto(h, "accept")
         ELSE UNCHANGED bindings /\ Goto(h, IF BoundToThis(p, e) THEN "accept" ELSE "reject")
  /\ UNCHANGED <<receipts, jobs, world>>

\* Mutant of Finalizable: the file on disk is not looked at again.
FinalizableAlways(d) == TRUE

\* finalizeDedupe, under the receipt's lock.
Finalizable(d) == receipts[d].state = "RESERVED"

Decide(d, state, policy) ==
  receipts' = [receipts EXCEPT ![d].state = state, ![d].policy = policy]

acceptReceipt(h) ==
  /\ At(h, "accept")
  /\ LET d == handler[h].event.delivery
     IN  IF Finalizable(d)
         THEN Decide(d, "ACCEPTED", handler[h].policy) /\ Goto(h, "job")
         ELSE UNCHANGED receipts /\ Becomes(h, Idle)
  /\ UNCHANGED <<bindings, jobs, world>>

rejectReceipt(h) ==
  /\ At(h, "reject")
  /\ LET d == handler[h].event.delivery
     IN  IF Finalizable(d) THEN Decide(d, "REJECTED", None) ELSE UNCHANGED receipts
  /\ Becomes(h, Idle)
  /\ UNCHANGED <<bindings, jobs, world>>

\* jobs.create: exclusive, and idempotent for the same identity.
createJob(h) ==
  /\ At(h, "job")
  /\ jobs' = jobs \cup {[policy |-> handler[h].policy, event |-> handler[h].event]}
  /\ Becomes(h, Idle)
  /\ UNCHANGED <<receipts, bindings, world>>

----------------------------------------------------------------------------
(* Crash and restart                                                        *)

crash ==
  /\ coordinator # "down"
  /\ crashes < MaxCrashes
  /\ crashes' = crashes + 1
  /\ coordinator' = "down"
  /\ handler' = [h \in Handler |-> Idle]
  /\ UNCHANGED <<files, world>>

start ==
  /\ coordinator = "down"
  /\ coordinator' = "recovering"
  /\ UNCHANGED <<files, world, handler, crashes>>

IncidentOf(d) == [policy |-> receipts[d].policy, event |-> receipts[d].event]

\* Mutants of NeedsJob: a restart leaves accepted receipts alone; or takes any
\* receipt for an accepted one.
NeedsNoJob(d) == FALSE
NeedsJobAnyway(d) == receipts[d] # None /\ IncidentOf(d) \notin jobs

\* recoverAcceptedReceipts
NeedsJob(d) == State(d) = "ACCEPTED" /\ IncidentOf(d) \notin jobs

recoverReceipt(d) ==
  /\ coordinator = "recovering"
  /\ NeedsJob(d)
  /\ jobs' = jobs \cup {IncidentOf(d)}
  /\ UNCHANGED <<receipts, bindings, world, handler, coordinator, crashes>>

listen ==
  /\ coordinator = "recovering"
  /\ \A d \in Delivery : ~NeedsJob(d)
  /\ coordinator' = "listening"
  /\ UNCHANGED <<files, world, handler, crashes>>

----------------------------------------------------------------------------
(* The policy commands and C1                                               *)

createPolicy(p) ==
  /\ p \notin registered
  /\ registered' = registered \cup {p}
  /\ UNCHANGED <<files, retired, closed, handler, coordinator, crashes>>

closeIncident(i) ==
  /\ i \in jobs \ closed
  /\ closed' = closed \cup {i}
  /\ UNCHANGED <<files, registered, retired, handler, coordinator, crashes>>

\* Mutant of Retirable: any closed incident retires any policy.
RetirableByAny(p) == closed # {}

\* retire, after a CLOSED readback: the incident must be that of the binding.
Retirable(p) == bindings[p] # None /\ [policy |-> p, event |-> bindings[p]] \in closed

retire(p) ==
  /\ p \in registered \ retired
  /\ Retirable(p)
  /\ retired' = retired \cup {p}
  /\ UNCHANGED <<files, registered, closed, handler, coordinator, crashes>>

HandlerStep(h) ==
  \/ findDedupeRecord(h) \/ activePolicyRecords(h) \/ boundPolicies(h)
  \/ reserveDedupe(h) \/ readObservations(h)
  \/ checkBinding(h) \/ recheckBinding(h) \/ linkBinding(h)
  \/ acceptReceipt(h) \/ rejectReceipt(h) \/ createJob(h)

Recover == start \/ listen \/ \E d \in Delivery : recoverReceipt(d)

Next ==
  \/ \E h \in Handler : HandlerStep(h) \/ \E e \in Event : deliver(h, e)
  \/ crash \/ Recover
  \/ \E p \in Policy : createPolicy(p) \/ retire(p)
  \/ \E i \in Incident : closeIncident(i)

Spec == Init /\ [][Next]_vars

\* The event loop runs every handler that can go on, and the service manager
\* starts the process again.
Fairness == (\A h \in Handler : WF_vars(HandlerStep(h))) /\ WF_vars(Recover)

FairSpec == Spec /\ Fairness
----------------------------------------------------------------------------
(* Properties                                                               *)

Accepted(d) == State(d) = "ACCEPTED"

\* An accepted receipt is authority: it names a policy durably bound to its own
\* event, whoever raced for the policy, resumed the event or crashed on the way.
AcceptedIsBound ==
  \A d \in Delivery : Accepted(d) => receipts[d].policy # None /\ bindings[receipts[d].policy] = receipts[d].event

\* A policy is one shot: two jobs never share one, though several deliveries may
\* have matched it at once and each job may have been made twice.
OneJobPerPolicy == \A i, j \in jobs : i.policy = j.policy => i = j

\* A job exists only for a causal event and the policy its receipt was accepted
\* under: no replay under another body, resumption or recovery widens that.
JobsAreCausal ==
  \A i \in jobs :
    /\ <<i.event, i.policy>> \in Causal
    /\ Accepted(i.event.delivery) /\ IncidentOf(i.event.delivery) = i

\* A decision is final: no slow handler, redelivery or restart turns a rejected
\* receipt into an accepted one, or rewrites an accepted one.
DecisionsAreFinal ==
  [][\A d \in Delivery : State(d) \in {"ACCEPTED", "REJECTED"} => receipts'[d] = receipts[d]]_vars

Authorized == {IncidentOf(d) : d \in {q \in Delivery : Accepted(q)}}

\* The policy lifecycle HANDOVER.md promises, kept by all of this.
Lifecycle == INSTANCE OneShotPolicy WITH
  bound <- bindings, authorized <- Authorized

OneShot == Lifecycle!Spec

\* No accepted delivery is lost: whatever crashes come between the receipt and
\* the job file, the job is made.
AcceptedGetsJob == \A d \in Delivery : Accepted(d) ~> (Accepted(d) /\ IncidentOf(d) \in jobs)

IsDecided(d) == State(d) \in {"ACCEPTED", "REJECTED"}

Redelivered(e) == \E h \in Handler : At(h, "find") /\ handler[h].event = e

\* A reservation is not left without a decision.  While the process lives, its handler
\* or one that takes it over decides it, whatever policies there are and whoever binds
\* or retires them meanwhile.  A crash may leave it; but if a policy was bound to the
\* event by then, deliveries of it that keep coming are not put off for ever
\* (coordinator.ts: boundPolicyForEvent, reservedRecoveryMs 0; push-ingress.ts:126-130).
ReservationIsDecided ==
  /\ [](crashes = 0) => \A d \in Delivery : State(d) = "RESERVED" ~> IsDecided(d)
  /\ \A e \in Event : []<>Redelivered(e) => ((\E p \in Policy : bindings[p] = e) ~> IsDecided(e.delivery))

----------------------------------------------------------------------------
(* A sentence of the tests the code does not always keep.                   *)

\* w1-recovery.test.ts: "crash after binding before accepted receipt leaves
\* policy bound and exact event resumable".  Here: while a handler that found the
\* event's own binding is at work, the event is not rejected.
BoundEventIsResumable ==
  [][\A h \in Handler : handler[h].bound =>
       LET d == handler[h].event.delivery
       IN  receipts[d].state = "RESERVED" => receipts'[d].state # "REJECTED"]_vars

----------------------------------------------------------------------------
(* The inductive strengthening.                                             *)

\* The handler works on the receipt of its own event.
OwnReceipt(s) ==
  LET r == receipts[s.event.delivery]
  IN  s.pc \in {"read", "check", "recheck", "link", "accept", "reject", "job"} => r # None /\ r.event = s.event

Consistent(s) ==
  /\ s.pc # "idle" => s.event # None
  /\ OwnReceipt(s)
  /\ s.policies \subseteq registered
  /\ s.pc \in {"read", "check", "recheck", "link", "accept"} => s.policy \in registered
  /\ s.pc \in {"check", "recheck", "link", "accept"} => <<s.event, s.policy>> \in Causal
  /\ s.pc = "accept" => bindings[s.policy] = s.event
  /\ s.pc = "job" => Accepted(s.event.delivery) /\ receipts[s.event.delivery].policy = s.policy

AuthorityIsBound(r) ==
  /\ r.policy \in Policy
  /\ bindings[r.policy] = r.event
  /\ <<r.event, r.policy>> \in Causal

IInv ==
  /\ TypeOK
  /\ \A h \in Handler : Consistent(handler[h])
  /\ \A d \in Delivery : receipts[d] # None => receipts[d].event.delivery = d
  /\ \A d \in Delivery : Accepted(d) => AuthorityIsBound(receipts[d])
  /\ \A p \in Policy : bindings[p] # None => p \in registered
  /\ \A p \in retired : bindings[p] # None
  /\ jobs \subseteq Authorized
  /\ closed \subseteq jobs
=============================================================================
