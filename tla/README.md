# BreakGlass in TLA+

BreakGlass (`src/winner/`) turns a GitHub push that introduces a secret into
one audited remediation: a GitHub deploy key is deleted, once, under authority
that a T3N contract hands out and takes back. This directory models the
maintained runtime and the live-run scripts that produced the repository's
recorded evidence, model-checks them with TLC and proves their safety
properties and refinements with TLAPS.

    tlc -config MC_X.cfg MC_X.tla     one of the runs below
    tlapm XProofs.tla                 the proofs of a module

## 1. The system

    GitHub push --webhook--> coordinator --C1 calls (operator, agent)--> C1 contract
                                 |  files: receipts, policies, bindings,       ^
                                 |  retirements, jobs                          | C1 calls (broker)
                                 +--job file, handoff--> broker worker --> broker child
                                                            |  result file  <---+  |
                                                            +-- GitHub reads       +-- GitHub DELETE

| part | code | state | operations |
| --- | --- | --- | --- |
| C1 contract | `contract/src/lib.rs`, `model.rs` | one authority row per incident | create, reserve, claim, confirm, begin, confirm start, release, finalize, reconcile, get |
| effect broker child | `broker/run.ts`, `logic.ts`, `github-app.ts` | locals of one run; the result file | claim, confirm, begin, confirm, mint, precheck, DELETE, verify, settle, revoke |
| broker worker | `runtime/broker-worker.ts`, `broker/provider-verifier.ts` | `running`, the job it leased | handoff, child, result, reconciliation |
| coordinator | `runtime/coordinator.ts` | none of its own but the requests in progress | webhook, recovery of receipts, recovery tick, retirement |
| push ingress | `c2/push-ingress.ts`, `c2/push-source-reader.ts` | one request, one source token | reserve, match, read, verify, bind, decide |
| push decision | `c2/push-policy.ts`, `push-event.ts`, `push-read-plan.ts`, `push-transition.ts`, `push-c1.ts` | none | validate, look up, eligible, transition, derive |
| receipts | `c2/dedupe.ts` | `receipts/` | reserve, find, finalize |
| policy registry | `runtime/policy-registry.ts` | `policies/`, `bindings/`, `retirements/` | create, active, bound, bind, retire |
| job store | `runtime/job-store.ts` | `jobs/`, `*.lock`, `*.lease` | create, update (`canTransition`), lease |
| live-run scripts | `scripts/*-live.ts`, `c1-r6b-*.ts`, `broker/run.ts` as a contender, `c2/*-webhook-server.ts` | evidence files, barriers, a receiver | one recorded run each |
| C1 client, integrity, config, doctor, inspect, CLI | `runtime/*.ts` | none | adapters |

They interact by C1 transactions, by files that several processes and several
concurrent requests of one process read and write, by one child process whose
result is a file, and by GitHub requests. Nothing else is shared.

What is hard about it:

* every `await` lets another webhook request, the recovery tick or a policy
  command run; files are read before and used after;
* the coordinator, the worker and the child die separately; a child is not tied
  to its worker and goes on without it;
* C1 answers can be lost after the commit, and (recorded in the R3 run, see
  `R4A-ARCHITECTURE.md`) affirmative without one;
* a DELETE whose answer is lost may have happened, may never happen, or may
  happen later; reads after it can fail; token revocation can fail;
* GitHub redelivers, and a delivery id may come back with another body;
* lock files name no owner and are broken after 30 s, slow owner or dead;
* a live-run script is killed anywhere and launched again on what it left.

What makes each part correct:

* **C1**: rows stay valid; one effect start per incident; claims are fenced by
  their generation; three principals stand behind an effect; final rows stay.
* **broker**: at most one DELETE whatever crashes; write tokens only under the
  committed start; CLOSED only when the key is gone; result files tell the truth.
* **ingress, receipts, registry**: an accepted receipt is bound, causal and
  final; a policy is one shot; no accepted delivery is lost.
* **job store**: one worker at a time works on a job; local states follow C1.
* **push decision**: only the push that put the secret on the branch counts, and
  only under the sole usable policy.
* **live runs**: recorded success is true, and one secret push and one released
  DELETE are the most a run can cause.

`PROJECT.json` lists the hazards at their lines.

## 2. Modules

| module | what it is |
| --- | --- |
| `C1Model` | the row and every C1 function as an operator on one row (no variables) |
| `C1Contract` | the map of rows under any callers in any order, with a clock that may step back, and the history of what was granted |
| `OneShotEffect` | abstract: one authority is committed, fires at most once, and closes over an absent target |
| `BrokerChild` | what children may do to the row, the key and the result file, in any surroundings |
| `EffectBroker` | one incident driven to its effect: C1 row, GitHub, children, worker, stale handoffs |
| `OneShotPolicy` | abstract: ACTIVE, BOUND_TO_EVENT, RETIRED, and one authorized incident per policy and delivery |
| `PushIngress` | concurrent webhook handlers over receipts, policies, bindings and jobs, with crashes and restarts |
| `JobLease` | the lease file of one job under several broker processes, file operation by file operation |
| `RuntimeRecovery` | one job from creation to retirement: coordinator runs, worker and children over the job file and C1 |
| `JobStates` | the local job states and `canTransition` (no variables) |
| `PushDecision` | policy lookup, eligibility, transition and derivation as operators (no variables) |
| `PushAuthority` | one delivery under repeated requests: source reads, decision, receipt and job under their lock files |
| `BrokerAdjudication` | the two adjudications of a pair of contenders, as predicates on their results |
| `LiveRun` | what the live-run scripts share: runner, GitHub, C1, evidence, receiver, barriers, contenders |
| `E2ER3Live`, `E2ER1Live`, `B1Live`, `R2BReplayLive`, `C1ProofLive` | the sequence of each script |
| `LiveRuns` | the scripts joined, killed and launched again |
| `C1ModelLemmas`, `*Proofs` | lemmas and theorems |
| `MC_*` | instances for TLC |

`RuntimeRecovery` extends `BrokerChild` with a job, and `EffectBroker` implements it:
the former takes for granted of a child what the latter is proved to keep.
`EffectBroker`, `RuntimeRecovery` and the live runs use the operators of `C1Model`
on their row: the C1 they talk to is the contract of `C1Contract`, not a
simplification of it. `PushIngress` stops where a job exists and takes `closed`
from outside. `RuntimeRecovery` and `PushAuthority` share `JobStates`, and what
the one takes as an atomic `update` the other shows to be one (`FilesAreAtomic`).

### C1Model and C1Contract

A row is `IncidentAuthority`; a call returns a decision and the row to store, as
in `model.rs`, and `dispatch` stores it. Principals are checked as in the code.
Ids (claim and start strings) are records of their fields. `MaxU64` stands for
the largest `u64`: it is small in the run so that sums of a clock reading and a
ttl reach it. The generation counter then reaches it too, which it cannot do
within a real incident's window; the guard is modelled with the rest of the call.
`clock` is what a call reads as now; `ClockStep` moves it either way.
`history` records grants and releases; it guards nothing.

### EffectBroker

Each `await` of `runBroker`, `processHandoff` and `processReconciliation` is an
action. `Fates` gives an answered, a lost-after-commit and a lost-before-commit
outcome of every C1 call; `FatesOrDoubled` adds, for claim and begin only, the
affirmative answer without commit. Finalize and reconcile are assumed not to do
that: the code has no confirmation after them. `delete_key` sends and counts;
its fates are done, failed, unknown and executed, unknown and still in flight
(`delete_lands`). Reads are independent and may fail. `crash` and
`worker_crash` stop a process at any step; a restarted worker may start another
child while the orphan runs on. `observe` is the coordinator's readback,
which becomes a handoff that can be arbitrarily stale when used.

Left out: the job's local states (in `RuntimeRecovery`) and lease (in `JobLease`):
here the worker may use any fresh handoff once, a superset of what they allow.
Also left out: CLAIM_TARGET_MISMATCH, the result file
of an uncaught error (`run.ts` 352-359), the verifier's read-only token, the
test harness's barriers. A key id is never created again after its deletion
(GitHub does not reuse ids). Nonces are unique (128 random bits).
`release-not-attempted` is in the contract but never called by the maintained
broker; an action does it so that released claims are covered.

### PushIngress

A handler walks from `findDedupeRecord` to the job file; each `await` is an
action. The link of the binding file (`linkBinding`) is the atomic step, with
the existing-file check and the listing before it as steps of their own.
`reserveDedupe` covers NEW, CONFLICT, decided duplicates, and reservations:
a handler that found the event's own binding resumes at once
(`reservedRecoveryMs: 0`), any other when the reservation has aged 5 minutes,
which the model lets happen at any time. `crash` ends every handler; `start`,
`recoverReceipt` and `listen` are `initialize`.

Left out or assumed: authentication, eligibility and the causal transition are
the relation `Causal` (pure functions of immutable data, in `PushDecision`); all active policies
match all events, since the maintained registry freezes repository and branch;
reservation ids never differ, since receipts are never removed; a listing of
three directories is one step; the local file system does not fail (a failing
source read does); the clock does not step back across a resumed reservation;
the receipt's lock file is an atomic decision (`FilesAreAtomic` of
`PushAuthority`, while no lock is overdue).

### PushDecision and PushAuthority

A request and a policy are records of the facts that are compared; the checks of
their shape are one flag. A commit names its content, and a content is a digest
or absent. `lookupPreExistingPushPolicy`, `verifyPushSecretTransition` and the
rest are the code's case splits, in its order; `Introduced` and `SoleAuthority`
are what they are to mean, stated without them.

`PushAuthority` puts these functions at their awaits. A run of `acceptWebhook`
reserves, plans, mints a token, reads twice, revokes, probes, judges, binds,
finalizes, creates the job and updates it. A revocation that was not
acknowledged, or a probe not refused, rejects the push. The token itself is not
modelled: the code takes any 401 or 403 as the refusal of a revoked token
(push-source-reader.ts:199), GitHub answers 403 to living tokens too, and a
revocation may take a while to be carried out, so nothing follows about the token
from a push being selected. Each call under
a lock is `open`, then `stat` and `break` or the reading and the writing, then
`close`, one file operation per step: `grow_old` is 30 s passing at any moment,
whether the owner is dead or slow, and `overdue` remembers it.

`FilesAreAtomic` is promised as long as no lock is overdue. Past that, the lock
says nothing: two finalizers that both found an old lock read the same
reservation, and TLC shows the slower write its REJECTED over the decision of
the faster (dedupe.ts:171). What remains true then is `JobIsAuthorised`: however often a
decision was overwritten, a job exists only for a push that introduced the
secret, under the sole usable policy, after that policy was bound to it. Thirty
seconds are far more than the few local file operations a call makes under its
lock, but nothing enforces it.

Left out: the token's life, a policy bound to another event (any of the outcomes of
`bindVerifiedEvent` may happen), the decision's policy id on a rejection.
`crash` is the death of the coordinator; its lock files stay.

### JobLease

One `withLease` call per process at a time (the worker's `running` flag), from
the exclusive link to the unlink of the release. Each file operation is an
action; a reading and what the code does with it before its next `await` are one.
Heartbeats are tasks of their own: `beats` holds the owners between read and
write, where a release does not wait for them. `lapse` is time passing, at any
moment, so an event loop or a disk that is too slow is included.

Assumed: a pid is not reused while a lease names it; owner ids (96 random bits)
do not repeat; an owner has one heartbeat in flight. `lost` only decides whether
the call ends in a result or an error.

### BrokerChild

The child of `run.ts` as its surroundings see it: the C1 calls with their fates,
the two writes of the result file, and the key. Mint, prechecks, the DELETE, its
reads and the token cleanup are the one step `act`, which may remove the key and
ends without a verdict, as unknown, or verified absent. What other processes can
come between is a step of its own: the proposal is written after the claim was
answered (`propose`), the verification follows the finalization as unknown
(`verify`), and the key may go in between.

`Surroundings` is what a child may meet: the incident is created and reserved,
the result is unlinked, a child is launched with any claim or none at any
expected version, and a reconciliation names the row's own claim and start, as
VERIFIED_ABSENT of a missing key only. `ChildrenFold` proves that `EffectBroker`
under the mapping `FoldedState` does nothing else, and `ChildrenAsPromised` that
`RuntimeRecovery` does not: the composition rests on no child that the detailed
model does not have.

### RuntimeRecovery

Three kinds of processes meet in one job file, and two of them in C1:

* a run of `ensureIncidentAndReservation` (`Thread`): `look` is the listing of
  the tick or the job of a webhook, then `get`, `create`, `reread`,
  `reserve_call`, `recheck`, `update`, `retire`, one per `await`. The job it read
  and the readback it writes may be outdated when it writes; `dangerous` is
  computed from the first readback, as in the code. Whatever throws is `fail`.
* the worker: `take`, `consume`, `mark`, `collect`, `defer` for a handoff, and
  `rtake` to `record` for a reconciliation; `stop` is its death or an exception.
* broker children, those of `BrokerChild`: their C1 calls, whether the key is
  gone, and the results they write (`Broke`).

`update` of the job store merges a patch into the job as it is then, if
`canTransition` (in `JobStates`, table and all) permits the state. An update
without a state is always permitted.

Left out or assumed: readbacks are true, so the branches for contradictory ones
(coordinator.ts 279-294) cannot be reached; the lease is granted (`JobLease`)
and `take` is its re-read of the job; the result is read when the job is
updated; an attempt started when `Child` is used up ends without a result (a
bound). `HandoffId` needs two values: random ids are only compared with the one
the worker holds and the one last consumed.

`Doubled` switches on the affirmative answer without a commit. With it, a job can
be CLOSED while C1 is not (violation 2), so `TerminalIsTrue` and `StartIsKept`
are of the C1 whose answers are true; `ClosedJobMeansAbsent` and
`RetiredIsSettled` are promised of either, and `StartedIsResolved` names what it
makes of liveness: a started effect whose key is gone is closed in C1, or its job
has been closed against C1 (`ClosedAgainstC1`) and stays so: the coordinator asks
for RECONCILE_REQUIRED, which CLOSED does not permit, C1 keeps a started incident
for ever, and its policy is never retired.

What an older readback can do. Two coordinator runs that overlap, with two
children, may write readbacks of different age: an orphan begins; one run writes
RECONCILE_REQUIRED with the start; the other, which read EFFECT_CLAIMED before,
writes STATE_CONFLICT and no start. The job has lost its start to a conflict. A
worker that had taken the job for reconciliation and consumes the handoff just
then holds no start; C1 refuses it, a later readback makes the job
RECONCILE_REQUIRED again, and the worker records CLOSED for a row still
EFFECT_STARTED (31 steps, 6.6 million states before TLC finds it): every answer
of C1 was true, and the start stays in C1 for ever all the same, which is why the
alternative in `StartedIsResolved` is not a matter of `Doubled` alone. The
properties say what remains true of every such run: a CLOSED job's effect was
begun and its key is gone, a start is never replaced and is lost to a
STATE_CONFLICT alone, and a retired policy's job starts nothing.

### LiveRun and the scripts

Eight scripts are modelled: the causal end-to-end runs R3, R1 and B1 (B1 without
the contract), the redelivery replay R2B on what an R3 run left, and the
contract proofs R4C, R4D, R4D-R1 and R4E. Each script module is its `main` as a
sequence of steps with all their outcomes; every wait (for a webhook, a barrier
file, a child's exit) is an action of its own, and a failure at any step goes to
the script's own catch and finally. Contenders are `broker/run.ts` (or the
R6B contenders) between its barrier files. `die` and `crash` end a child or the
runner anywhere, and `relaunch` starts the script again on the files, branch,
receipts, row and key it finds, when no process of the last launch is left.

`PassIsTrue` compares what a script records as success with what really
happened; `AuthorisedDelete` is the chain of barriers between C1's start and the
DELETE; `OneTrigger` and `ReplayChangesNothing` are what the refusals to run
twice are for; `RunsEnd` says that every wait has a deadline or a writer.

Left out or assumed: the wording and redaction of evidence, key material on
disk, DELETEs that land late (`EffectBroker` has them), readings of the clock
(every call may see any time). `prepare-target` and the offline verifiers are
external: the first makes the key of R4E, the second may refuse any evidence.

Seen while modelling:

* R1 cannot pass: its receiver reserves the receipt before it captures the
  delivery, and `main` then calls `processPushWebhook` without `recoverReserved`,
  so it is answered C2_PUSH_REJECTED (push-ingress.ts:128-130), while
  c2-e2e-r1-live.ts:669-670 requires SELECTED and DUPLICATE_SAME. R3 mends it.
* R3 requires SAFE_CLOSED_REPLAY_DENIED, which C1 answers only after the
  incident's 900 s; R2B requires LOST, which it answers only within them. Each
  fails outside its window, without evidence of success.
* c1-r6b-r4d-live.ts:138-139 throws if `claim-effect` answers "WON", which it
  never does (PROPOSED); the condition is vacuous. `RunsEnd` leaves R4C out, whose contenders wait
  for the barrier for ever (c1-r6b-claim-contender.ts:25).
* `incidentCreated` is set after the answer (c2-e2e-r3-live.ts:720-721): an
  answer lost after the commit leaves an incident the failure evidence denies.
* a token or key whose creation was not answered, or whose revocation was
  skipped by a throw between (c2-e2e-r3-live.ts:698-701, B1's catch), stays
  until it expires; the next launch does not know it.
* the R2B receiver looks at `captured` before it awaits the body
  (replay-webhook-server.ts:111-117): two deliveries can pass and both be answered
  202 where the comment says exactly one. The model captures both. They are copies
  of one delivery, so nothing that is checked depends on it.

## 3. Runs

| run | question | bounds | result |
| --- | --- | --- | --- |
| `c1_contract` | are rows, starts, claims and final rows right under any calls? | 1 incident, 3 principals, 2 nonces, 3 generations, clock of 4 readings | holds |
| `effect_broker` | can crashes, orphans, lost replies and late DELETEs cause two DELETEs, a false closure or a false result? | 1 incident, 2 children, 2 generations | holds, and implements `OneShotEffect` |
| `push_ingress` | can races, redeliveries, reused ids and crashes widen, double or rewrite authority? | 2 handlers, 3 pushes of 2 delivery ids (one id with two bodies), 2 policies, 2 crashes | holds, and implements `OneShotPolicy` |
| `push_ingress_live` | does every accepted delivery get its job, and can a reservation stay open for ever? | as above with 1 policy, no symmetry | yes; no |
| `bound_event_rejected` | "crash after binding ... leaves ... exact event resumable" (w1-recovery.test.ts:76) | as `push_ingress`, 1 crash | violated |
| `job_lease` | do late heartbeats, slow releases or impatient callers let two processes work? is a dead process's lease got rid of? | 3 processes, 2 owner ids each, no symmetry | not while nobody died; yes |
| `runtime_recovery` | do stale readbacks, orphans' results, refused reconciliations and answers without a commit close a job over a living key, or spoil a retirement? | 1 coordinator run, 2 children, 2 handoff ids, 2 generations, `Doubled` | holds |
| `runtime_recovery_overlap` | with two overlapping coordinator runs, do stale readbacks make a job terminal, or replace or lose a start? | 2 runs, 1 child, 1 generation, every answer committed | no; lost to a conflict only |
| `runtime_recovery_live` | are closed incidents retired, and started ones closed in C1 unless the job was closed against it? | 1 run, 1 child, `Doubled`, no symmetry | yes |
| `closed_job_no_conflict` | "a locally CLOSED job conflicts with nonterminal remote truth" (w1-recovery.test.ts:174) | as `runtime_recovery` | violated |
| `push_authority` | over every kind of request, policy list and repository, can repetition, crashes, failed reads or slow locks accept anything but the causal push, or make a job of it? | 2 handlers; 12 requests, 12 policy lists, 9 contents, retirement; 2 patches | no |
| `live_runs` | can killing, repeating or racing make a recorded success untrue, or cause a second push or an unreleased DELETE? do runs end? | 8 scripts, 1 incident and key, 2 contenders, 2 secret pushes | no; yes |

Why the bounds are enough. Incidents do not interact, so one row; two nonces are
two contenders in one generation; three generations hold a claim, a released
one and a reclaimed one. Two children are an orphan and its
successor, the only overlap the code can make of one kind; a third would be
another successor. Two handlers race for one policy, or for one receipt; three
events give a reused id and a competitor; the second crash falls into the
recovery from the first. Three
processes are a dead owner and two reclaimers, the fewest that can go wrong.
A webhook and the tick are the two coordinator runs that overlap for one job
(`recoveryRunning` keeps ticks apart); with both, one child suffices, since what
overlaps is the writing of readbacks. `runtime_recovery_live` has less than that:
with one run and one child a job is not closed against C1 beside a started row
(this takes a second child, see `closed_job_no_conflict`), so in this run every
start is closed in C1; the larger instances are beyond a liveness check in
reasonable time. The requests of `push_authority` are a
causal push and every single way to differ from it; contents and policy lists
are all that the case splits tell apart; the two handlers are the least that
meet under a lock. In `live_runs` the claim race has two contenders in the
code too, one generation is all a script uses (`MaxU64 = 1`), and the second
push is the one `OneTrigger` forbids. The theorems hold without these bounds.

`ReservationIsDecided` is two promises about a receipt that was only reserved. If
no process dies, its handler or one that takes it over decides it, whatever
policies it meets and whoever decides at the same time. If processes die, nobody
but a redelivery takes it up again, and only at once when its event has bound a
policy; that redeliveries go on is a hypothesis of the property, not of the
specification.

Symmetry is used in safety runs only, on values the specification treats alike.

The violations. (1) A resumed event runs through policy lookup and the source
reads again; either may reject the receipt for good while the policy stays bound
to it, so that the policy is spent without an incident. (2)
`processReconciliation` records its own verification whatever C1 answered. A job
closed against a refusal of C1 cannot leave CLOSED for RECONCILE_REQUIRED: every
tick throws, and the policy is never retired.

Also seen while modelling, not among the runs. All are behaviours of the modules:

* `runBroker` deletes on a confirmation made several awaits earlier, and nothing
  stops a child whose worker died: its DELETE may follow a reconciliation by the
  restarted worker, where HANDOVER.md:85 says "No DELETE". It is still the only
  one (`AtMostOneDelete`);
* a living token that meets a rate limit passes for a refused one, since 403 counts
  as refusal (push-source-reader.ts:199), though the error there speaks of a
  revoked token that "was not refused";
* `acquireLease` unlinks the path and not the lease it read (job-store.ts:170):
  the slower of two reclaimers removes the new lease of the faster, and two
  processes work (w1-broker-runtime.test.ts:472 says "ownership remains
  exclusive"). The described deployment has one broker, so this takes a second;
* an orphan can write the job's result file after the next attempt unlinked it,
  and the worker then takes its result for that attempt's (broker-worker.ts:61
  wants to exclude this); by `ResultsAreTrue` its ids are the committed ones;
* `release` does not wait for a heartbeat in flight, which writes the lease back
  under a live process (job-store.ts:148-161);
* a tick during an attempt records the claim the child just made; a result
  without a claim id erases it, and the worker calls the handoff it then finds
  a STATE_CONFLICT, though C1 was consistent (broker-worker.ts:145, 163);
* the coordinator writes jobs without the lease, so that a broker may be launched
  for a job that has just become CLOSED (broker-worker.ts:153); C1 refuses it;
* a tick during an attempt turns PROCESSING into RETRY_READY, and if the attempt
  dies the retry starts on that older readback (coordinator.ts:316).

## 4. Fairness

`FairSpec` of `PushIngress`: weak fairness of each handler's steps (the event
loop runs every continuation whose I/O has completed, and file and source reads
end, by success or error) and of `Recover` (the service manager restarts the
process, and `initialize` runs to its end before listening). Deliveries,
policy commands and closures are not fair: nobody owes them (where
`ReservationIsDecided` supposes redeliveries, it says so itself). Crashes are bounded
by `MaxCrashes`: a process that dies for ever recovers nothing.

`FairSpec` of `JobLease`: weak fairness of each process's call (the worker polls
jobs that need work, operations and file accesses end), of heartbeats in flight,
and of time. Starting and dying are not fair.

`FairSpec` of `RuntimeRecovery`: weak fairness of each coordinator run and of the
worker (both are timers: `recoveryTick` and `tick` start again whatever
happened), of children (a process ends, or is killed), and outages end
(`<>[][~Outage]_vars`): from some time on no process dies, no call and no read
fails. A refused update, which leaves the same state as a failure, is no outage
and may recur for ever. Removing the key and releasing claims are not fair.

`FairSpec` of `LiveRuns`: weak fairness of the runner's steps and of each contender's
(a process that runs goes on, and its calls and polls end or time out).
Deliveries, deaths and launches are not fair, so a webhook that never comes is
included.

`C1Contract`, `EffectBroker` and `PushAuthority` state no fairness: their
properties are of safety only.

## 5. Proofs

All theorems hold for any values of the constants under the named assumptions
of the modules (numbers are naturals, the principals differ, `None` is not a
value, `Causal` relates events and policies).

* `C1ModelLemmas`: what each C1 function returns: the outcome of a claim, a
  begin, a settlement; every stored row is `valid_shape`.
* `C1ContractProofs`: `TypeOK` and the properties of rows and history, with
  `SeparationOfDuties`, which only this proof covers: an effect has the
  operator, the agent and the broker behind it.
  `valid_shape` alone is not inductive for the history; `Ledger` adds what the
  grants say of the row (claims have distinct generations not above the row's;
  a released claim is not the row's; the starts granted are exactly the row's).
* `EffectBrokerProofs`: the five invariants and `Spec => OneShot`. The
  strengthening says what each child at each step knows (`Consistent`: a
  confirmed child's start is the row's, a live token belongs to the row's
  start), that a sent DELETE belongs to a child past sending (`DeleteSpent`),
  and that whoever decided VERIFIED_ABSENT knows the key is gone, which is
  stable. At most one DELETE then follows from one committed start per row.
  `Spec => ChildrenAreFolded` is the refinement of `BrokerChild`: every step maps
  to one of the child, of its surroundings, or to none. It needs the invariant
  (a child about to finalize as unknown has that class; who settles or
  reconciles as absent meets a missing key) and that the instance's contract is
  the same (`SameCalls` to `SameSettle`). TLC finds no counterexample to it on the
  instance of the `effect_broker` run (688 668 states) either; with that property
  the run takes several times as long, so no run checks it.
* `PushIngressProofs`: the four invariants, `DecisionsAreFinal`, and
  `Spec => OneShot` (`OneShotPolicy`). The strengthening gives each handler the
  facts its step rests on (`Consistent`: it owns a reservation of its event,
  what it verified is causal, before `acceptReceipt` its policy is bound to its
  event); they survive other handlers since events of receipts, acceptances,
  bindings and registrations are only ever added (`FilesKept`).
* `JobLeaseProofs`: `TypeOK` and `ExclusiveWhileAlive`. `IInv` adds that,
  while nobody died, a holder implies a lease file (its own or one a late
  heartbeat put there), which keeps `acquire` out, and that nobody is about to
  unlink an expired lease, which would take a dead owner.
* `PushAuthorityProofs`: `TypeOK`, `AcceptedIsCausal`, `JobIsAuthorised`,
  `FilesAreAtomic`, for any set of worlds. `Sound` says what each run rests on at
  its step (past the plan, its policy is the usable one; what it has read is
  what the repository holds); `Exclusive` says that, until a lock is overdue, who
  is inside is alone and what it has read is still in the file. `Founded` is for
  the job: whoever goes on to create it has written the acceptance or read it
  (`GoesOn`), so the push is causal and bound, which nothing undoes, and the
  receipt is still accepted as long as `Exclusive` holds.
* `RuntimeRecoveryProofs`: `TypeOK`, `ClosedJobMeansAbsent`, `RetiredIsSettled`,
  and, if C1's answers are true (`~Doubled`), `TerminalIsTrue` and
  `StartIsKept`, for any number of coordinator runs and children. `IInv` says
  what every process's knowledge is still worth when it uses it: the row only
  `Advances` from a readback, the job never offers a first attempt again once
  `Past` it, a start, wherever it is held, is the row's, a verification of
  absence stays true since the key never comes back, and after the retirement
  the job and every process are in a state that starts nothing. `Committed`
  holds the part that needs true answers. `Keeps` then carries this knowledge
  over any step that advances the row. `Spec => ChildSpec` says that the job's
  coordinator and worker are surroundings as `BrokerChild` describes them; what
  it needs of `IInv` is that the worker reconciles as absent only a missing key.

* `LiveRunsProofs`: `TypeOK`, `PassIsTrue`, `AuthorisedDelete`, `OneTrigger` and
  `ReplayChangesNothing`, for any number of contenders and any window. None of
  them is inductive, since each rests on what other steps did long before.
  `IInv` of `LiveRuns` says three things. What a runner at a step has done:
  published, pushed, minted, created (`CausalOK`, `ProofOK`, `ProviderOK`); a
  second push is impossible because POLICY is on disk from the first on, and the
  preflight refuses it. What a contender at a step holds (`ContenderOK`): its
  start is the row's, its token is the only one since a token's owner is the
  start's (`RaceOK`), and it has been released. What outlives a launch
  (`ClosedOK`, `Published`): a closed row's key is gone by the one DELETE, and
  FINAL is only on disk when it is true. The row moves in three ways, whoever
  calls: `Idles`, `Starts` and `Settles`. The proof splits `IInv` into `Parts`
  and takes each script, its contenders, deliveries, crashes and launches
  separately. Beyond the assumptions of `C1Model` it needs the roles to differ
  and a contender not to be named as a purpose of the runner's tokens
  (`TokenAssumption`, a matter of naming).

Only model-checked: the liveness properties (with fairness, out of the prover's
reach; so is `DeadLeaseGoes`), and the violations.

## 6. Not modelled, and why

* `c1-r6b-state.ts`, `c1-r6b-r3-state.ts`: proofs of a retired contract version
  (2.0.3), of which the repository no longer has the code;
* diagnostics, probes and signers under `scripts/`: one call each, printed;
* `c2/ingress.ts`, `c2/policy.ts`: the secret-scanning ingress that the push
  ingress superseded, which no maintained entry point uses;
* the offline verifiers: pure checks of recorded evidence, a step that may
  refuse in the live runs;
* integrity envelopes (canonical JSON and HMAC): assumed unforgeable, so records
  that fail their check, and readbacks that contradict the stored authority
  (coordinator.ts:279-294), do not occur;
* the C1 client: its lost and doubled answers are at the calls that suffer them;
* configuration, doctor, inspect, start, logger and the CLIs keep no state that
  another part reads; target preparation is straight-line provider calls;
* the hazard of an EXPIRED claim whose holder died (model.rs:290): the code
  promises nothing of such an incident but operator review.

## 7. Plan

What is left:

* `FilesAreAtomic` as a refinement: `PushAuthority` implementing the atomic
  decision of `PushIngress` while no lock is overdue.
