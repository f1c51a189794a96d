---------------------------- MODULE EffectBroker ----------------------------
(***************************************************************************)
(* One reserved incident driven to its provider effect: the C1 row, GitHub *)
(* with one deploy key, the broker children (broker/run.ts) that claim,    *)
(* begin and delete, the worker (runtime/broker-worker.ts) that starts     *)
(* children and reconciles, and the coordinator's handoffs, which may be   *)
(* stale by the time they are used.                                        *)
(*                                                                         *)
(* Every await of the code is a step boundary.  Children and the worker    *)
(* may die at any of them; a child outlives its worker, and a restarted    *)
(* worker starts another child beside it.  C1 calls are transactions whose *)
(* reply may be lost; a claim or begin may also be answered affirmatively  *)
(* without having committed (seen in the R3 run).  A DELETE whose reply is *)
(* lost may have executed, may never execute, or may execute later.        *)
(*                                                                         *)
(* The job's local state machine is left out: the worker may use any       *)
(* handoff once.  Every call reads a clock of its own.                     *)
(***************************************************************************)
EXTENDS C1Model

CONSTANTS
  Agent,    \* the remediation agent's DID
  Broker    \* the effect broker's DID, shared by all children and the worker

ASSUME RoleAssumption == {Agent, Broker} \subseteq Did \ {Tenant} /\ Agent # Broker

\* A child is named for the 128 random bits it draws as contender and as start
\* nonce: children never share one.
Child == Nonce

VARIABLES
  row,       \* the committed C1 authority row
  key,       \* the deploy key exists at GitHub
  inflight,  \* children whose DELETE is still on its way
  tokens,    \* children whose write token GitHub still accepts
  deletes,   \* DELETE requests sent, by anybody
  child,     \* the broker children
  job,       \* what the job file hands to the worker
  worker,    \* the worker process
  result     \* the child result file, None when unlinked

vars == <<row, key, inflight, tokens, deletes, child, job, worker, result>>

Running == {"claim-effect", "persist-proposal", "confirm-claim", "begin-effect",
            "confirm-effect-start", "mint", "precheck", "delete", "after", "cleanup",
            "finally", "finalize-unknown", "verify", "settle", "persist"}

ChildState ==
  [pc       : Running \cup {"off", "ended"},
   expected : U64,                                 \* C1_EXPECTED_CLAIM_VERSION
   claim    : StateId \cup {None},
   start    : StateId \cup {None},                 \* effectStartId
   confirmed: BOOLEAN,                             \* effect_start_confirmed
   delete   : {"none", "204", "error", "unknown"},
   class    : Classification \cup {None},
   closed   : BOOLEAN]                             \* c1_state CLOSED and c1_result WON

\* A process that has not started or has ended holds nothing.
Off == [pc |-> "off", expected |-> 0, claim |-> None, start |-> None,
        confirmed |-> FALSE, delete |-> "none", class |-> None, closed |-> FALSE]

Ended == [Off EXCEPT !.pc = "ended"]

Job ==
  [fresh           : BOOLEAN,        \* operator_handoff_id differs from the consumed one
   remote_state    : Status,
   claim_id        : StateId \cup {None},
   claim_version   : U64,
   effect_start_id : StateId \cup {None}]

Worker ==
  [pc       : {"idle", "waiting", "verify", "reconcile"},
   child    : Child \cup {None},
   claim_id : StateId \cup {None},
   start_id : StateId \cup {None},
   class    : Classification \cup {None}]

IdleWorker == [pc |-> "idle", child |-> None, claim_id |-> None, start_id |-> None, class |-> None]

Result ==
  [by : Child, claim : StateId \cup {None}, start : StateId \cup {None},
   confirmed : BOOLEAN, closed : BOOLEAN]

TypeOK ==
  /\ row \in IncidentAuthority
  /\ key \in BOOLEAN
  /\ inflight \subseteq Child
  /\ tokens \subseteq Child
  /\ deletes \in Nat
  /\ child \in [Child -> ChildState]
  /\ job \in Job
  /\ worker \in Worker
  /\ result \in Result \cup {None}

ASSUME ResultAssumption == None \notin Result

\* The coordinator's readback of the row, written with a fresh handoff id when
\* the state is one the broker may act on.
Handoff(a) ==
  [fresh |-> a.status \in {"RESERVED", "READY_RETRY", "EFFECT_CLAIMED", "EFFECT_STARTED", "RECONCILE_REQUIRED"},
   remote_state |-> a.status, claim_id |-> a.effect_claim_id,
   claim_version |-> a.effect_claim_version, effect_start_id |-> a.effect_start_id]

\* The coordinator has created and reserved the incident and handed it over.
Init ==
  /\ \E i \in Incident, k \in KeyId, ttl \in MinTtl..MaxTtl, now \in U64 :
       /\ ~CreateDenied(Tenant, Agent, Broker, k, ttl, now)
       /\ row = reserve(build_incident_authority(i, Agent, Broker, k, ttl, now), Agent, now).authority
  /\ key \in BOOLEAN
  /\ inflight = {} /\ tokens = {} /\ deletes = 0
  /\ child = [c \in Child |-> Off]
  /\ job = Handoff(row)
  /\ worker = IdleWorker
  /\ result = None

----------------------------------------------------------------------------
(* Calls.  A fate is what a call did to the row and whether its reply came. *)

Stored(o) == IF Writes(o) THEN o.authority ELSE row

Fates(o) == {[row |-> Stored(o), reply |-> TRUE],
             [row |-> Stored(o), reply |-> FALSE],
             [row |-> row, reply |-> FALSE]}

\* An affirmative answer to a transaction that did not commit.
FatesOrDoubled(o) == Fates(o) \cup {[row |-> row, reply |-> TRUE]}

\* Reads of the target: the exact GET and the list.  Each may fail.
ExactReads == {IF key THEN "200" ELSE "404", "failed"}
ListReads == {IF key THEN "contains" ELSE "lacks", "failed"}

\* Mutant of TargetAbsent: reads that failed count as reads without the key.
TargetAbsentUnlessSeen(exact, list) == exact # "200" /\ list # "contains"

TargetAbsent(exact, list) == exact = "404" /\ list = "lacks"

\* Mutant of Classify: no status means no attempt.
ClassifyNotAttempted(delete, exact, list) ==
  IF delete = "unknown" THEN "NOT_ATTEMPTED"
  ELSE IF TargetAbsent(exact, list) THEN "VERIFIED_ABSENT"
  ELSE IF delete = "204" THEN "PROVIDER_ACKNOWLEDGED"
  ELSE "VERIFIED_PRESENT"

\* classifyProviderOutcome: a lost reply outranks what the reads say.
Classify(delete, exact, list) ==
  IF delete = "unknown" THEN "ATTEMPTED_OUTCOME_UNKNOWN"
  ELSE IF TargetAbsent(exact, list) THEN "VERIFIED_ABSENT"
  ELSE IF delete = "204" THEN "PROVIDER_ACKNOWLEDGED"
  ELSE "VERIFIED_PRESENT"

At(c, pc) == child[c].pc = pc

Becomes(c, state) == child' = [child EXCEPT ![c] = state]

Goto(c, pc) == Becomes(c, [child[c] EXCEPT !.pc = pc])

provider == <<key, inflight, tokens, deletes>>
runtime == <<job, worker, result>>

----------------------------------------------------------------------------
(* The broker child: runBroker.  Every failure that is not shown leads to   *)
(* persist, which writes the result file with what the child knows.         *)

claim_effect(c) ==
  /\ At(c, "claim-effect")
  /\ \E now \in U64 :
       LET o == claim_with_nonce(row, Broker, now, child[c].expected, c)
       IN  \E f \in FatesOrDoubled(o) :
             /\ row' = f.row
             /\ IF f.reply /\ o.decision = "Proposed"
                THEN Becomes(c, [child[c] EXCEPT !.pc = "persist-proposal",
                                                 !.claim = o.authority.effect_claim_id])
                ELSE Goto(c, "persist")
  /\ UNCHANGED <<provider, runtime>>

\* What persist writes of child c.
ResultOf(c) ==
  [by |-> c, claim |-> child[c].claim, start |-> child[c].start,
   confirmed |-> child[c].confirmed, closed |-> child[c].closed]

persist_proposal(c) ==
  /\ At(c, "persist-proposal")
  /\ result' = ResultOf(c)
  /\ Goto(c, "confirm-claim")
  /\ UNCHANGED <<row, provider, job, worker>>

confirm_claim_call(c) ==
  /\ At(c, "confirm-claim")
  /\ \/ /\ confirm_claim(row, Broker, child[c].claim)
        /\ Goto(c, "begin-effect")
     \/ Goto(c, "persist")
  /\ UNCHANGED <<row, provider, runtime>>

\* The installation is validated first; a failure there ends the child too.
begin_effect(c) ==
  /\ At(c, "begin-effect")
  /\ \/ \E now \in U64 :
          LET o == begin_effect_with_nonce(row, Broker, child[c].claim, c, now)
          IN  \E f \in FatesOrDoubled(o) :
                /\ row' = f.row
                /\ IF f.reply /\ o.decision = "Won"
                   THEN Becomes(c, [child[c] EXCEPT !.pc = "confirm-effect-start",
                                                    !.start = o.authority.effect_start_id])
                   ELSE Goto(c, "persist")
     \/ Goto(c, "persist") /\ UNCHANGED row
  /\ UNCHANGED <<provider, runtime>>

\* Mutant of StartConfirmed: the confirmation's answer is not looked at.
StartConfirmedByReply(c) == TRUE

StartConfirmed(c) == confirm_effect_start(row, Broker, child[c].claim, child[c].start)

confirm_effect_start_call(c) ==
  /\ At(c, "confirm-effect-start")
  /\ \/ StartConfirmed(c) /\ Becomes(c, [child[c] EXCEPT !.pc = "mint", !.confirmed = TRUE])
     \/ Goto(c, "persist")
  /\ UNCHANGED <<row, provider, runtime>>

\* A token whose reply is lost is live at GitHub and unknown to the child.
mint(c) ==
  /\ At(c, "mint")
  /\ \/ tokens' = tokens \cup {c} /\ Goto(c, "precheck")
     \/ tokens' \in {tokens, tokens \cup {c}} /\ Goto(c, "persist")
  /\ UNCHANGED <<row, key, inflight, deletes, runtime>>

\* Repository scope, exact GET and list before the DELETE.
precheck(c) ==
  /\ At(c, "precheck")
  /\ \/ key /\ Goto(c, "delete")
     \/ Goto(c, "finally")
  /\ UNCHANGED <<row, provider, runtime>>

\* Mutant of AfterDelete: a lost reply is retried.
AfterDeleteRetrying(outcome) == IF outcome = "unknown" THEN "delete" ELSE "after"

\* Whatever became of the DELETE, the next step only reads.
AfterDelete(outcome) == "after"

Deleted(c, outcome) ==
  Becomes(c, [child[c] EXCEPT !.pc = AfterDelete(outcome), !.delete = outcome])

\* The one DELETE: acknowledged, or answered with an error, or not answered.  In
\* the last two cases it may have executed, may do so later, or never.
delete_key(c) ==
  /\ At(c, "delete")
  /\ deletes' = deletes + 1
  /\ \/ key /\ key' = FALSE /\ Deleted(c, "204") /\ UNCHANGED inflight
     \/ /\ \E outcome \in {"error", "unknown"} : Deleted(c, outcome)
        /\ \/ key' = FALSE /\ UNCHANGED inflight
           \/ inflight' = inflight \cup {c} /\ UNCHANGED key
           \/ UNCHANGED <<key, inflight>>
  /\ UNCHANGED <<row, tokens, runtime>>

after(c) ==
  /\ At(c, "after")
  /\ \E exact \in ExactReads, list \in ListReads :
       Becomes(c, [child[c] EXCEPT !.pc = "cleanup", !.class = Classify(child[c].delete, exact, list)])
  /\ UNCHANGED <<row, provider, runtime>>

\* Where a child goes once its write token is revoked and refused.
Settlement(class) ==
  CASE class = "ATTEMPTED_OUTCOME_UNKNOWN" -> "finalize-unknown"
    [] class = "VERIFIED_ABSENT" -> "verify"
    [] OTHER -> "persist"

\* Mutant of CleanupGate: the child goes on without the cleanup's verdict.
CleanupUngated(revoked, refused) == TRUE

CleanupGate(revoked, refused) == revoked /\ refused

\* revokeAndRefuse: revoke, then probe that the token is refused.  A revocation
\* that was not acknowledged may have happened; a call that threw is retried in
\* the finally block.
cleanup(c) ==
  /\ At(c, "cleanup")
  /\ \/ \E revoked, refused \in BOOLEAN :
          /\ tokens' \in (IF revoked THEN {tokens \ {c}} ELSE {tokens})
          /\ refused => c \notin tokens'
          /\ Goto(c, IF CleanupGate(revoked, refused) THEN Settlement(child[c].class) ELSE "persist")
     \/ tokens' \in {tokens, tokens \ {c}} /\ Goto(c, "finally")
  /\ UNCHANGED <<row, key, inflight, deletes, runtime>>

finally(c) ==
  /\ At(c, "finally")
  /\ tokens' \in {tokens, tokens \ {c}}
  /\ Goto(c, "persist")
  /\ UNCHANGED <<row, key, inflight, deletes, runtime>>

\* finalize as ATTEMPTED_OUTCOME_UNKNOWN: the answer is recorded, not checked.
finalize_unknown(c) ==
  /\ At(c, "finalize-unknown")
  /\ \E f \in Fates(finalize_with_start(row, Broker, child[c].claim, child[c].start, "ATTEMPTED_OUTCOME_UNKNOWN")) :
       /\ row' = f.row
       /\ Goto(c, IF f.reply THEN "verify" ELSE "persist")
  /\ UNCHANGED <<provider, runtime>>

\* independentVerifier: a read-only token of its own, minted and revoked here.
verify(c) ==
  /\ At(c, "verify")
  /\ \/ \E exact \in ExactReads, list \in ListReads : TargetAbsent(exact, list) /\ Goto(c, "settle")
     \/ Goto(c, "persist")
  /\ UNCHANGED <<row, provider, runtime>>

\* finalize, or reconcile after an unknown outcome, as VERIFIED_ABSENT.
settle(c) ==
  /\ At(c, "settle")
  /\ LET o == IF child[c].class = "ATTEMPTED_OUTCOME_UNKNOWN"
              THEN reconcile_with_start(row, Broker, child[c].claim, child[c].start, "VERIFIED_ABSENT")
              ELSE finalize_with_start(row, Broker, child[c].claim, child[c].start, "VERIFIED_ABSENT")
     IN  \E f \in Fates(o) :
           /\ row' = f.row
           /\ Becomes(c, [child[c] EXCEPT !.pc = "persist", !.closed = f.reply /\ o.decision = "Won"])
  /\ UNCHANGED <<provider, runtime>>

persist(c) ==
  /\ At(c, "persist")
  /\ result' = ResultOf(c)
  /\ Becomes(c, Ended)
  /\ UNCHANGED <<row, provider, job, worker>>

crash(c) ==
  /\ child[c].pc \in Running
  /\ Becomes(c, Ended)
  /\ UNCHANGED <<row, provider, runtime>>

----------------------------------------------------------------------------
(* The worker and the coordinator.                                          *)

observe ==
  /\ job' = Handoff(row)
  /\ UNCHANGED <<row, provider, child, worker, result>>

\* The claim the coordinator saw is passed on; otherwise the child proposes one.
ExistingClaim == job.remote_state = "EFFECT_CLAIMED"

\* processHandoff and runChild: consume the handoff, unlink the result, spawn.
spawn(c) ==
  /\ worker.pc = "idle"
  /\ At(c, "off")
  /\ job.fresh
  /\ job.remote_state \in {"RESERVED", "READY_RETRY", "EFFECT_CLAIMED"}
  /\ ExistingClaim => job.claim_id # None /\ job.claim_version > 0
  /\ job' = [job EXCEPT !.fresh = FALSE]
  /\ result' = None
  /\ worker' = [IdleWorker EXCEPT !.pc = "waiting", !.child = c]
  /\ Becomes(c, [Off EXCEPT !.pc = IF ExistingClaim THEN "confirm-claim" ELSE "claim-effect",
                            !.expected = job.claim_version,
                            !.claim = IF ExistingClaim THEN job.claim_id ELSE None])
  /\ UNCHANGED <<row, provider>>

Or(new, old) == IF new # None THEN new ELSE old

\* The child exited: whatever the result file holds updates the job.
collect ==
  /\ worker.pc = "waiting"
  /\ At(worker.child, "ended")
  /\ worker' = IdleWorker
  /\ job' = IF result = None THEN job
            ELSE [job EXCEPT !.claim_id = Or(result.claim, @),
                             !.claim_version = IF result.claim # None THEN result.claim.version ELSE @,
                             !.effect_start_id = Or(result.start, @)]
  /\ UNCHANGED <<row, provider, child, result>>

\* processReconciliation: consume the handoff, ...
reconcile_begin ==
  /\ worker.pc = "idle"
  /\ job.fresh
  /\ job.remote_state \in {"EFFECT_STARTED", "RECONCILE_REQUIRED", "FAILED"}
  /\ job.claim_id # None /\ job.effect_start_id # None
  /\ job' = [job EXCEPT !.fresh = FALSE]
  /\ worker' = [IdleWorker EXCEPT !.pc = "verify", !.claim_id = job.claim_id, !.start_id = job.effect_start_id]
  /\ UNCHANGED <<row, provider, child, result>>

\* ... verify the target with a read-only token (a throw defers the job), ...
reconcile_verify ==
  /\ worker.pc = "verify"
  /\ \/ \E exact \in ExactReads, list \in ListReads :
          worker' = [worker EXCEPT !.pc = "reconcile",
                                   !.class = IF TargetAbsent(exact, list) THEN "VERIFIED_ABSENT" ELSE "VERIFIED_PRESENT"]
     \/ worker' = IdleWorker
  /\ UNCHANGED <<row, provider, child, job, result>>

\* ... and report it to C1.
reconcile_call ==
  /\ worker.pc = "reconcile"
  /\ \E f \in Fates(reconcile_with_start(row, Broker, worker.claim_id, worker.start_id, worker.class)) :
       /\ row' = f.row
       /\ job' = IF f.reply THEN [job EXCEPT !.remote_state = f.row.status] ELSE job
  /\ worker' = IdleWorker
  /\ UNCHANGED <<provider, child, result>>

worker_crash ==
  /\ worker.pc # "idle"
  /\ worker' = IdleWorker
  /\ UNCHANGED <<row, provider, child, job, result>>

----------------------------------------------------------------------------
(* The world outside.                                                       *)

\* An operator holding the broker key releases a claim it believes abandoned.
release ==
  /\ \E now \in U64 :
       LET o == release_not_attempted(row, Broker, row.effect_claim_id, now)
       IN  o.decision = "Won" /\ row' = o.authority
  /\ UNCHANGED <<provider, child, runtime>>

\* Somebody else removes the key.
key_removed ==
  /\ key /\ key' = FALSE
  /\ UNCHANGED <<row, inflight, tokens, deletes, child, runtime>>

delete_lands(c) ==
  /\ c \in inflight
  /\ inflight' = inflight \ {c}
  /\ key' = FALSE
  /\ UNCHANGED <<row, tokens, deletes, child, runtime>>

\* GitHub expires an installation token within the hour.
token_expires(c) ==
  /\ c \in tokens
  /\ tokens' = tokens \ {c}
  /\ UNCHANGED <<row, key, inflight, deletes, child, runtime>>

ChildStep(c) ==
  \/ claim_effect(c) \/ persist_proposal(c) \/ confirm_claim_call(c)
  \/ begin_effect(c) \/ confirm_effect_start_call(c)
  \/ mint(c) \/ precheck(c) \/ delete_key(c) \/ after(c) \/ cleanup(c) \/ finally(c)
  \/ finalize_unknown(c) \/ verify(c) \/ settle(c) \/ persist(c) \/ crash(c)

WorkerStep ==
  \/ collect \/ reconcile_begin \/ reconcile_verify \/ reconcile_call \/ worker_crash

Next ==
  \/ \E c \in Child : ChildStep(c) \/ spawn(c) \/ delete_lands(c) \/ token_expires(c)
  \/ WorkerStep
  \/ observe
  \/ release
  \/ key_removed

Spec == Init /\ [][Next]_vars

----------------------------------------------------------------------------
(* Properties                                                               *)

\* Zero additional automated destructive attempts: however many children ran,
\* crashed, were orphaned or replaced, at most one DELETE was ever sent.
AtMostOneDelete == deletes <= 1

\* Write authority exists only under the committed effect start: every token
\* GitHub accepts, and every child past the confirmation, belongs to the start
\* the row records, whatever double affirmatives other children were given.
Armed == {"mint", "precheck", "delete"}

WriteAuthorityIsStarted ==
  \A c \in Child :
    (c \in tokens \/ child[c].pc \in Armed) =>
      row.effect_attempts = 1 /\ row.effect_start_id # None /\ row.effect_start_id.nonce = c

\* C1 is CLOSED only when the key is gone, though DELETEs may land late, reads
\* may fail, and the worker and an orphaned child may settle the same incident.
ClosedMeansAbsent == row.status = "CLOSED" => ~key

\* What the result file claims is true, of C1 and of GitHub, at any time it can
\* be read: a confirmed start is the committed one, and an incident reported
\* closed is closed, its key gone and its child's write token dead.
ResultsAreTrue ==
  result # None =>
    /\ result.confirmed => result.start = row.effect_start_id /\ result.start # None
    /\ result.closed => row.status = "CLOSED" /\ ~key /\ result.by \notin tokens

\* The promise of OneShotEffect, kept by all of this.
Promise == INSTANCE OneShotEffect WITH
  Authority <- StateId, authority <- row.effect_start_id, fired <- deletes,
  present <- key, closed <- row.status = "CLOSED"

OneShot == Promise!Spec

\* What a child is to the job it works for: its tokens, reads and DELETE are one step.
FoldedPc(s) ==
  CASE s.pc = "claim-effect" -> "claim"
    [] s.pc = "persist-proposal" -> "propose"
    [] s.pc \in {"confirm-claim", "begin-effect"} -> "begin"
    [] s.pc = "confirm-effect-start" -> "confirm"
    [] s.pc \in {"mint", "precheck", "delete", "after", "cleanup", "finally"} -> "act"
    [] s.pc = "finalize-unknown" -> "unknown"
    [] s.pc = "verify" -> IF s.class = "ATTEMPTED_OUTCOME_UNKNOWN" THEN "verify" ELSE "act"
    [] s.pc = "settle" -> IF s.class = "ATTEMPTED_OUTCOME_UNKNOWN" THEN "resettle" ELSE "settle"
    [] s.pc \in {"off", "persist", "ended"} -> s.pc

FoldedState(s) ==
  [pc |-> FoldedPc(s), expected |-> s.expected, claim |-> s.claim, start |-> s.start, closed |-> s.closed]

FoldedResult ==
  IF result = None THEN None
  ELSE [claim |-> result.claim, start |-> result.start, closed |-> result.closed]

Folded == INSTANCE BrokerChild WITH
  Doubled <- TRUE, child <- [c \in Child |-> FoldedState(child[c])], result <- FoldedResult

\* The children RuntimeRecovery composes with a job are these, in any surroundings:
\* no order of crashes, late DELETEs and lost replies shows the job anything else.
ChildrenAreFolded == Folded!ChildSpec

----------------------------------------------------------------------------
(* The inductive strengthening.                                             *)

PastConfirmation == {"mint", "precheck", "delete", "after", "cleanup", "finally",
                     "finalize-unknown", "verify", "settle"}

PastDelete == {"after", "cleanup", "finally", "finalize-unknown", "verify", "settle", "persist", "ended"}

\* What a child c in state s holds, given the committed row r, the presence k of
\* the key and the live tokens.
Consistent(c, s, r, k, live) ==
  /\ s.start # None => s.start.nonce = c
  /\ s.pc = "confirm-effect-start" => s.start # None
  /\ s.pc \in PastConfirmation => s.confirmed
  /\ s.confirmed => s.start # None /\ s.start = r.effect_start_id
  /\ c \in live => r.effect_start_id # None /\ r.effect_start_id.nonce = c
  /\ s.pc \in {"finalize-unknown", "verify", "settle"} => c \notin live
  /\ s.pc = "settle" => ~k
  /\ s.pc = "finalize-unknown" => s.class = "ATTEMPTED_OUTCOME_UNKNOWN"
  /\ s.closed => s.pc = "persist" /\ r.status = "CLOSED" /\ c \notin live

\* Whoever sent a DELETE is the committed start's child, and past sending one.
DeleteSpent ==
  /\ deletes <= 1
  /\ deletes # 0 => row.effect_start_id # None /\ child[row.effect_start_id.nonce].pc \in PastDelete

ResultHolds ==
  result # None =>
    /\ result.confirmed => result.start = row.effect_start_id /\ result.start # None
    /\ result.closed => row.status = "CLOSED" /\ result.by \notin tokens /\ At(result.by, "ended")

IInv ==
  /\ TypeOK
  /\ valid_shape(row)
  /\ \A c \in Child : Consistent(c, child[c], row, key, tokens)
  /\ DeleteSpent
  /\ row.status = "CLOSED" => ~key
  /\ worker.pc = "reconcile" /\ worker.class = "VERIFIED_ABSENT" => ~key
  /\ ResultHolds
=============================================================================
