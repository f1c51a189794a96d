-------------------------- MODULE RuntimeRecovery --------------------------
(***************************************************************************)
(* One accepted job driven to its end by two processes that know of each   *)
(* other only through the job file and C1: the coordinator                 *)
(* (runtime/coordinator.ts: ensureIncidentAndReservation, run by the       *)
(* recovery tick and by webhook requests at once) and the worker           *)
(* (runtime/broker-worker.ts), which starts broker children.  The subject  *)
(* is the job's local state (job-store.ts: canTransition, update), what it *)
(* says of the C1 row, and the retirement of the policy.                   *)
(*                                                                         *)
(* The children are those of BrokerChild, which EffectBroker's implement.  *)
(* The worker holds the job's lease (JobLease) from take to its end; after *)
(* a crash its successor gets it.  Readbacks are of the committed row.     *)
(***************************************************************************)
EXTENDS BrokerChild, JobStates

CONSTANTS
  Thread,     \* runs of ensureIncidentAndReservation that may overlap
  HandoffId   \* operator handoff ids

ASSUME HandoffAssumption == None \notin HandoffId /\ \A h \in HandoffId \cup {None} : \E g \in HandoffId : g # h

VARIABLES
  job,       \* the job file
  thread,    \* the coordinator's runs
  worker,    \* the worker process
  retired    \* the policy's retirement tombstone exists

vars == <<row, key, job, thread, worker, child, result, retired>>

Job ==
  [state         : JobState,
   remote_state  : Status \cup {None},
   claim_id      : StateId \cup {None},
   claim_version : U64,
   start_id      : StateId \cup {None},
   handoff       : HandoffId \cup {None},    \* operator_handoff_id
   consumed      : HandoffId \cup {None}]    \* broker_consumed_handoff_id

NewJob == [state |-> "PENDING", remote_state |-> None, claim_id |-> None, claim_version |-> 0,
           start_id |-> None, handoff |-> None, consumed |-> None]

\* local is job.state as read before the calls, seen the readback that routes the
\* job; dangerous was computed from the first readback.
ThreadState ==
  [pc        : {"idle", "get", "create", "reread", "reserve", "recheck", "update", "retire"},
   local     : JobState,
   seen      : IncidentAuthority \cup {None},
   dangerous : BOOLEAN]

IdleThread == [pc |-> "idle", local |-> "PENDING", seen |-> None, dangerous |-> FALSE]

\* handoff is held until it is consumed; the identities are those of the job that
\* the last update returned.
Worker ==
  [pc            : {"idle", "consume", "mark", "wait", "defer", "rconsume", "verify", "reconcile", "record"},
   handoff       : HandoffId \cup {None},
   claim_id      : StateId \cup {None},
   claim_version : U64,
   start_id      : StateId \cup {None},
   first         : BOOLEAN,                     \* firstAttempt
   child         : Child \cup {None},
   absent        : BOOLEAN,                     \* verification.classification
   reply         : Status \cup {None}]          \* response.state

IdleWorker == [pc |-> "idle", handoff |-> None, claim_id |-> None, claim_version |-> 0, start_id |-> None,
               first |-> FALSE, child |-> None, absent |-> FALSE, reply |-> None]

TypeOK ==
  /\ row \in IncidentAuthority \cup {None}
  /\ key \in BOOLEAN
  /\ job \in Job
  /\ thread \in [Thread -> ThreadState]
  /\ worker \in Worker
  /\ child \in [Child -> ChildState]
  /\ result \in Result \cup {None}
  /\ retired \in BOOLEAN

Init ==
  /\ row = None
  /\ key = TRUE
  /\ job = NewJob
  /\ thread = [t \in Thread |-> IdleThread]
  /\ worker = IdleWorker
  /\ child = [c \in Child |-> Off]
  /\ result = None
  /\ retired = FALSE

----------------------------------------------------------------------------
(* The job file.                                                            *)

Permitted(to, allowConflict) == canTransition(job.state, to, allowConflict)

Fresh(j) == j.handoff # None /\ j.handoff # j.consumed

----------------------------------------------------------------------------
(* The coordinator: one run t of ensureIncidentAndReservation.  Whatever    *)
(* throws ends the run (fail); the next tick starts another.                *)

Becomes(t, s) == thread' = [thread EXCEPT ![t] = s]

In(t, pc) == thread[t].pc = pc

\* jobs.list of the tick, jobs.create of a redelivery.
look(t) ==
  /\ In(t, "idle")
  /\ Becomes(t, [IdleThread EXCEPT !.pc = "get", !.local = job.state])
  /\ UNCHANGED <<row, key, job, worker, child, result, retired>>

\* A terminal or conflicted local job reserves nothing.
Blocked(t) == thread[t].local \in {"CLOSED", "FAILED", "STATE_CONFLICT"}

Dangerous(a) == a.status \in {"EFFECT_STARTED", "RECONCILE_REQUIRED"} \/ a.effect_start_id # None

Seen(t, pc, a, dangerous) ==
  Becomes(t, [thread[t] EXCEPT !.pc = pc, !.seen = a, !.dangerous = dangerous])

Observed(t, a) ==
  Seen(t, IF a.status = "ACTIVE" /\ ~Blocked(t) THEN "reserve" ELSE "update", a, Dangerous(a))

get(t) ==
  /\ In(t, "get")
  /\ \/ row # None /\ Observed(t, row)
     \/ row = None /\ Becomes(t, [thread[t] EXCEPT !.pc = "create"])
     \/ Becomes(t, [thread[t] EXCEPT !.pc = "reread"])
  /\ UNCHANGED <<row, key, job, worker, child, result, retired>>

\* create-incident by the operator; whatever is answered, a readback follows.
create(t) ==
  /\ In(t, "create")
  /\ \/ /\ row = None
        /\ \E i \in Incident, k \in KeyId, ttl \in MinTtl..MaxTtl, now \in U64 :
             /\ ~CreateDenied(Tenant, Agent, Broker, k, ttl, now)
             /\ row' = build_incident_authority(i, Agent, Broker, k, ttl, now)
     \/ UNCHANGED row
  /\ Becomes(t, [thread[t] EXCEPT !.pc = "reread"])
  /\ UNCHANGED <<key, job, worker, child, result, retired>>

reread(t) ==
  /\ In(t, "reread")
  /\ row # None /\ Observed(t, row)
  /\ UNCHANGED <<row, key, job, worker, child, result, retired>>

\* A lost reply throws; an answer that is neither WON nor RESERVED is read back.
reserve_call(t) ==
  /\ In(t, "reserve")
  /\ \E now \in U64 :
       LET o == reserve(row, Agent, now)
       IN  \E f \in Fates(o) :
             /\ row' = f.row
             /\ IF ~f.reply THEN Becomes(t, IdleThread)
                ELSE IF o.decision = "Won" \/ f.row.status = "RESERVED"
                THEN Seen(t, "update", f.row, thread[t].dangerous)
                ELSE Becomes(t, [thread[t] EXCEPT !.pc = "recheck"])
  /\ UNCHANGED <<key, job, worker, child, result, retired>>

recheck(t) ==
  /\ In(t, "recheck")
  /\ Seen(t, "update", row, thread[t].dangerous)
  /\ UNCHANGED <<row, key, job, worker, child, result, retired>>

\* Where readback a, dangerous or not, sends a job that was in local state s when
\* the run began.
NextState(s, a, dangerous) ==
  CASE a.status = "CLOSED" -> "CLOSED"
    [] a.status \in {"FAILED", "EXPIRED"} ->
         IF s \in {"CLOSED", "STATE_CONFLICT"} THEN "STATE_CONFLICT" ELSE "FAILED"
    [] a.status \notin {"CLOSED", "FAILED", "EXPIRED"} /\ dangerous -> "RECONCILE_REQUIRED"
    [] a.status = "ACTIVE" /\ ~dangerous -> IF s = "PROCESSING" THEN "RETRY_READY" ELSE s
    [] a.status \notin {"ACTIVE", "CLOSED", "FAILED", "EXPIRED"} /\ ~dangerous ->
         IF s \in {"CLOSED", "FAILED", "STATE_CONFLICT"} THEN "STATE_CONFLICT"
         ELSE IF s \in {"PROCESSING", "RETRY_READY"} THEN "RETRY_READY" ELSE "HANDOFF_READY"

\* Mutant of BrokerEligible: reconciliation gets no handoff.
BrokerEligibleToRun(s) == s \in {"HANDOFF_READY", "RETRY_READY"}

BrokerEligible(s) == s \in {"HANDOFF_READY", "RETRY_READY", "RECONCILE_REQUIRED"}

\* A random id: not the one the worker still holds.
NewHandoff == CHOOSE h \in HandoffId : h # worker.handoff

\* Mutant of ObservedJob: without a claim its generation is not kept either.
ObservedJobVersionless(s, a) ==
  [state |-> s, remote_state |-> a.status, claim_id |-> a.effect_claim_id,
   claim_version |-> IF a.effect_claim_id = None THEN None ELSE a.effect_claim_version,
   start_id |-> a.effect_start_id,
   handoff |-> IF BrokerEligible(s) THEN NewHandoff ELSE None, consumed |-> None]

ObservedJob(s, a) ==
  [state |-> s, remote_state |-> a.status, claim_id |-> a.effect_claim_id,
   claim_version |-> a.effect_claim_version, start_id |-> a.effect_start_id,
   handoff |-> IF BrokerEligible(s) THEN NewHandoff ELSE None, consumed |-> None]

update(t) ==
  /\ In(t, "update")
  /\ LET a == thread[t].seen
         s == NextState(thread[t].local, a, thread[t].dangerous)
         allowConflict == s = "STATE_CONFLICT" \/ thread[t].local = "STATE_CONFLICT"
     IN  IF Permitted(s, allowConflict)
         THEN /\ job' = ObservedJob(s, a)
              /\ Becomes(t, IF a.status = "CLOSED" THEN [IdleThread EXCEPT !.pc = "retire"] ELSE IdleThread)
         ELSE Becomes(t, IdleThread) /\ UNCHANGED job
  /\ UNCHANGED <<row, key, worker, child, result, retired>>

\* retireClosedPolicy: a readback of its own, and the tombstone.
retire(t) ==
  /\ In(t, "retire")
  /\ row.status = "CLOSED" /\ row.final_result_classification = "VERIFIED_ABSENT"
  /\ retired' = TRUE
  /\ Becomes(t, IdleThread)
  /\ UNCHANGED <<row, key, job, worker, child, result>>

\* A read or call that fails throws; so does a process that dies.
fail(t) ==
  /\ ~In(t, "idle")
  /\ Becomes(t, IdleThread)
  /\ UNCHANGED <<row, key, job, worker, child, result, retired>>

----------------------------------------------------------------------------
(* The worker: processHandoff.                                              *)

Work(w) == worker' = w

Routable(j) == j.remote_state \in {"RESERVED", "READY_RETRY", "EFFECT_CLAIMED"}

Reconcilable(j) == j.remote_state \in {"EFFECT_STARTED", "RECONCILE_REQUIRED", "FAILED"}

Conflict == job' = IF Permitted("STATE_CONFLICT", TRUE) THEN [job EXCEPT !.state = "STATE_CONFLICT"] ELSE job

Identified(j) == j.claim_id # None /\ j.claim_version > 0

\* Under the lease: read the job; a handoff that does not fit is a conflict.
take ==
  /\ worker.pc = "idle"
  /\ job.state \in {"HANDOFF_READY", "RETRY_READY"} /\ Fresh(job)
  /\ IF Routable(job) /\ (job.remote_state = "EFFECT_CLAIMED" => Identified(job))
     THEN Work([IdleWorker EXCEPT !.pc = "consume", !.handoff = job.handoff]) /\ UNCHANGED job
     ELSE Conflict /\ UNCHANGED worker
  /\ UNCHANGED <<row, key, thread, child, result, retired>>

\* The handoff that was read is consumed in the job as it is by now.
Consumed == [job EXCEPT !.consumed = worker.handoff]

\* The worker at pc with the identities of job j.
Holding(j, pc) ==
  [IdleWorker EXCEPT !.pc = pc, !.claim_id = j.claim_id, !.claim_version = j.claim_version, !.start_id = j.start_id]

\* runChild with job j: unlink the result, pass the claim the coordinator saw.
Spawn(c, j, first) ==
  /\ child[c].pc = "off"
  /\ Work([Holding(j, "wait") EXCEPT !.first = first, !.child = c])
  /\ LET existing == j.remote_state = "EFFECT_CLAIMED" /\ Identified(j)
     IN  child' = [child EXCEPT ![c] =
           Launched(j.claim_version, IF existing THEN j.claim_id ELSE None)]

\* Bound: once Child is used up, a child dies before its first step.
Attempt(j, first) ==
  /\ result' = None
  /\ \/ \E c \in Child : Spawn(c, j, first)
     \/ /\ \A c \in Child : child[c].pc # "off"
        /\ Work([Holding(j, "defer") EXCEPT !.first = first])
        /\ UNCHANGED child

\* What the update returns decides whether this is the first attempt.
consume ==
  /\ worker.pc = "consume"
  /\ job' = Consumed
  /\ \/ job.state = "HANDOFF_READY" /\ Work([IdleWorker EXCEPT !.pc = "mark"]) /\ UNCHANGED <<child, result>>
     \/ job.state # "HANDOFF_READY" /\ Attempt(Consumed, FALSE)
  /\ UNCHANGED <<row, key, thread, retired>>

mark ==
  /\ worker.pc = "mark"
  /\ IF Permitted("PROCESSING", FALSE)
     THEN LET j == [job EXCEPT !.state = "PROCESSING"] IN job' = j /\ Attempt(j, TRUE)
     ELSE Work(IdleWorker) /\ UNCHANGED <<job, child, result>>
  /\ UNCHANGED <<row, key, thread, retired>>

Or(new, old) == IF new # None THEN new ELSE old

ResultState(r) ==
  IF r.closed THEN "CLOSED" ELSE IF r.start # None THEN "RECONCILE_REQUIRED" ELSE "RETRY_READY"

\* What a child's result makes of the job: identities it lacks are the worker's.
Collected(r) ==
  [job EXCEPT !.state = ResultState(r),
              !.claim_id = Or(r.claim, worker.claim_id),
              !.claim_version = IF r.claim # None THEN r.claim.version ELSE worker.claim_version,
              !.start_id = Or(r.start, worker.start_id)]

\* The child exited; without a result, or one that may not be recorded, defer.
collect ==
  /\ worker.pc = "wait" /\ child[worker.child].pc = "ended"
  /\ IF result # None /\ Permitted(ResultState(result), FALSE)
     THEN job' = Collected(result) /\ Work(IdleWorker)
     ELSE Work([worker EXCEPT !.pc = "defer"]) /\ UNCHANGED job
  /\ UNCHANGED <<row, key, thread, child, result, retired>>

defer ==
  /\ worker.pc = "defer"
  /\ LET s == IF worker.first THEN "PROCESSING" ELSE "RETRY_READY"
     IN  job' = IF Permitted(s, FALSE) THEN [job EXCEPT !.state = s] ELSE job
  /\ Work(IdleWorker)
  /\ UNCHANGED <<row, key, thread, child, result, retired>>

----------------------------------------------------------------------------
(* The worker: processReconciliation, ...                                   *)

rtake ==
  /\ worker.pc = "idle"
  /\ job.state = "RECONCILE_REQUIRED" /\ job.claim_id # None /\ job.start_id # None /\ Fresh(job)
  /\ IF Reconcilable(job)
     THEN Work([IdleWorker EXCEPT !.pc = "rconsume", !.handoff = job.handoff]) /\ UNCHANGED job
     ELSE Conflict /\ UNCHANGED worker
  /\ UNCHANGED <<row, key, thread, child, result, retired>>

rconsume ==
  /\ worker.pc = "rconsume"
  /\ job' = Consumed
  /\ Work(Holding(job, "verify"))
  /\ UNCHANGED <<row, key, thread, child, result, retired>>

\* ... verify the target: a read that fails finds the key present, ...
Verify(absent) ==
  /\ worker.pc = "verify"
  /\ Work([worker EXCEPT !.pc = "reconcile", !.absent = absent])
  /\ UNCHANGED <<row, key, job, thread, child, result, retired>>

verify_absent == ~key /\ Verify(TRUE)

verify_present == Verify(FALSE)

Class == IF worker.absent THEN "VERIFIED_ABSENT" ELSE "VERIFIED_PRESENT"

\* ... report it to C1, ...
Reconcile(f) ==
  /\ row' = f.row
  /\ Work(IF f.reply THEN [worker EXCEPT !.pc = "record", !.reply = f.row.status] ELSE IdleWorker)
  /\ UNCHANGED <<key, job, thread, child, result, retired>>

reconcile ==
  /\ worker.pc = "reconcile"
  /\ \E f \in Fates(reconcile_with_start(row, Broker, worker.claim_id, worker.start_id, Class)) : Reconcile(f)

\* Mutant of Recorded: a reconciliation that was answered is taken for done.
RecordedAnyway == "CLOSED"

\* The verification decides, not the answer.
Recorded == IF worker.absent THEN "CLOSED" ELSE "RECONCILE_REQUIRED"

\* ... and record the verification, whatever C1 decided.
record ==
  /\ worker.pc = "record"
  /\ job' = IF Permitted(Recorded, FALSE)
            THEN [job EXCEPT !.state = Recorded, !.remote_state = worker.reply] ELSE job
  /\ Work(IdleWorker)
  /\ UNCHANGED <<row, key, thread, child, result, retired>>

\* A call that throws, or a worker that dies; its child lives on.
stop ==
  /\ worker.pc # "idle"
  /\ Work(IdleWorker)
  /\ UNCHANGED <<row, key, job, thread, child, result, retired>>

----------------------------------------------------------------------------

Ensure(t) ==
  \/ look(t) \/ get(t) \/ create(t) \/ reread(t) \/ reserve_call(t) \/ recheck(t) \/ update(t) \/ retire(t)

WorkerStep ==
  \/ take \/ consume \/ mark \/ collect \/ defer
  \/ rtake \/ rconsume \/ verify_absent \/ verify_present \/ reconcile \/ record

\* What neither a child nor the world outside can touch.
others == <<job, thread, worker, retired>>

Broke(c) == ChildStep(c) /\ UNCHANGED others

World == (key_removed \/ release) /\ UNCHANGED others

Next ==
  \/ \E t \in Thread : Ensure(t) \/ fail(t)
  \/ WorkerStep \/ stop
  \/ \E c \in Child : Broke(c)
  \/ World

Spec == Init /\ [][Next]_vars

\* What an outage does: a process dies, a call or a read is not answered.  A step
\* that merely refuses an update is none.
Outage ==
  \/ stop /\ ~WorkerStep
  \/ \E t \in Thread : fail(t) /\ ~Ensure(t)
  \/ verify_present /\ ~key
  \/ reconcile /\ worker'.pc = "idle"

\* The timers of both processes tick, what they began goes on, children end, and
\* outages are over some day.
Fairness ==
  /\ \A t \in Thread : WF_vars(Ensure(t))
  /\ WF_vars(WorkerStep)
  /\ \A c \in Child : WF_vars(Broke(c))
  /\ <>[][~Outage]_vars

FairSpec == Spec /\ Fairness

----------------------------------------------------------------------------
(* Properties                                                               *)

Remote == IF row = None THEN "ABSENT" ELSE row.status

\* Neither stale readbacks nor results of orphans make a job terminal: CLOSED says
\* that the effect was begun and the key is gone, FAILED that C1 let it expire.
TerminalIsTrue ==
  /\ job.state = "CLOSED" => ~key /\ Remote \in {"EFFECT_STARTED", "RECONCILE_REQUIRED", "CLOSED"}
  /\ job.state = "FAILED" => Remote = "EXPIRED"

\* States no attempt starts from any more, whoever writes next.
Settling == {"RECONCILE_REQUIRED", "CLOSED", "STATE_CONFLICT"}

\* A retired policy's incident is closed and its key gone, and no observation of the
\* past that is still to be written gives its job another attempt.
RetiredIsSettled == retired => Remote = "CLOSED" /\ ~key /\ job.state \in Settling

\* An effect start the job knows of is replaced by no other, and is lost at most to a
\* readback that overlapped with it, which leaves a conflict and never an attempt.
StartIsKept ==
  [][job.start_id # None =>
       job'.start_id = job.start_id \/ (job'.start_id = None /\ job'.state = "STATE_CONFLICT")]_vars

\* Even if C1 answers without committing: no job is closed over a living key.
ClosedJobMeansAbsent == job.state = "CLOSED" => ~key

\* However the incident was closed and whatever failed, its policy is retired.
ClosedIsRetired == Remote = "CLOSED" ~> retired

\* A started effect whose key is gone is not left open for ever, whoever died and
\* whatever older readback was written: in the end C1 holds it CLOSED, or the worker
\* has closed the job against C1's refusal.  Such a job names the open state C1
\* answered, and is not reconciled again (broker-worker.ts:206, canTransition).
ClosedAgainstC1 == job.state = "CLOSED" /\ job.remote_state # "CLOSED"

StartedIsResolved ==
  (Remote \in {"EFFECT_STARTED", "RECONCILE_REQUIRED"} /\ ~key) ~> (Remote = "CLOSED" \/ ClosedAgainstC1)

----------------------------------------------------------------------------
(* A sentence of the repository the code does not keep.                     *)

\* w1-recovery.test.ts: "a locally CLOSED job conflicts with nonterminal remote truth".
ClosedConflicts ==
  [][\A t \in Thread :
       (update(t) /\ thread[t].local = "CLOSED" /\ thread[t].seen.status # "CLOSED")
         => job'.state = "STATE_CONFLICT"]_vars

----------------------------------------------------------------------------
(* The inductive strengthening: what each process knows of the row and the  *)
(* job stays true however they move meanwhile.                              *)

\* Whatever a row that was read says of terminality and of the start still holds.
Advances(a, b) ==
  /\ a.status # "ACTIVE" => b.status # "ACTIVE"
  /\ a.status = "CLOSED" => b.status = "CLOSED"
  /\ a.status = "EXPIRED" => b.status = "EXPIRED"
  /\ a.effect_start_id # None => b.effect_claim_id = a.effect_claim_id /\ b.effect_start_id = a.effect_start_id

\* A first attempt was marked: the job is never offered as a first one again.
Past == job.state \notin {"PENDING", "HANDOFF_READY"}

HasStarted == row # None /\ row.effect_start_id # None

IsStart(c, s) == row # None /\ row.effect_claim_id = c /\ row.effect_start_id = s

Sane(a) == valid_shape(a) /\ a.status # "FAILED"

RowOK == row # None => Sane(row) /\ (row.status = "CLOSED" => ~key) /\ (row.effect_start_id # None => Past)

JobOK ==
  /\ job.state # "PENDING" => row # None /\ row.status # "ACTIVE"
  /\ job.state = "CLOSED" => ~key
  /\ job.state = "FAILED" => row.status = "EXPIRED"

RetiredOK == retired => row # None /\ row.status = "CLOSED" /\ job.state \in Settling

Rests(s) ==
  /\ s.pc # "idle" /\ s.local # "PENDING" => row # None /\ row.status # "ACTIVE"
  /\ s.pc \in {"reserve", "recheck"} => row # None /\ s.local = "PENDING" /\ ~s.dangerous
  /\ s.pc = "update" =>
       /\ row # None /\ s.seen # None /\ Sane(s.seen) /\ Advances(s.seen, row)
       /\ s.local # "PENDING" => s.seen.status # "ACTIVE"
       /\ s.dangerous => s.seen.effect_start_id # None
       /\ s.local # "PENDING" /\ s.seen.effect_start_id # None => s.dangerous
  /\ s.pc = "retire" => row # None /\ row.status = "CLOSED" /\ job.state \in Settling

ThreadOK == \A t \in Thread : Rests(thread[t])

WorkerOK ==
  /\ worker.pc # "idle" => job.state # "PENDING"
  /\ worker.pc \notin {"idle", "consume", "mark"} => Past
  /\ worker.pc = "wait" => worker.child # None
  /\ worker.absent => ~key

Underway(s) == s.pc \in {"confirm", "act", "unknown", "verify", "settle", "resettle"} \/ s.closed

ChildSound(s) ==
  /\ s.pc # "off" => Past
  /\ s.pc = "claim" => s.start = None
  /\ s.pc \in {"settle", "resettle"} \/ s.closed => ~key
  /\ Underway(s) => s.start # None

ChildOK == \A c \in Child : ChildSound(child[c])

ResultOK == result # None /\ result.closed => ~key /\ result.start # None

\* If C1 never answers affirmatively without a commit, a start that anyone holds is
\* the row's.
JobTold ==
  /\ job.start_id # None => IsStart(job.claim_id, job.start_id) /\ job.state \in Settling
  /\ job.state \in {"RECONCILE_REQUIRED", "CLOSED"} => HasStarted
  /\ job.state = "RECONCILE_REQUIRED" => job.start_id # None

WorkerTold ==
  worker.start_id # None \/ worker.pc \in {"rconsume", "verify", "reconcile", "record"} =>
    HasStarted /\ job.state \in Settling

ChildTold == \A c \in Child : child[c].start # None => IsStart(child[c].claim, child[c].start)

ResultTold == result # None /\ result.start # None => IsStart(result.claim, result.start)

Committed == JobTold /\ WorkerTold /\ ChildTold /\ ResultTold

IInv ==
  /\ TypeOK /\ RowOK /\ JobOK /\ RetiredOK /\ ThreadOK /\ WorkerOK /\ ChildOK /\ ResultOK
  /\ ~Doubled => Committed
=============================================================================
