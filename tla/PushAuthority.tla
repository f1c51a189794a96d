--------------------------- MODULE PushAuthority ---------------------------
(***************************************************************************)
(* One delivery, sent again and again, from its reservation to its         *)
(* decision and to the job of its incident, at the level of the awaits     *)
(* PushIngress takes as one step: the source reader with its installation  *)
(* token (push-source-reader.ts), and the receipt and the job file under   *)
(* their lock files (dedupe.ts, job-store.ts).                             *)
(*                                                                         *)
(* A lock file is opened exclusively and unlinked by whoever is done, or   *)
(* by anybody who finds it older than 30 s.  It names no owner, and an     *)
(* owner that is only slow does not notice: overdue records that a lock    *)
(* has reached that age.                                                   *)
(*                                                                         *)
(* The policies are those the coordinator selected (PushIngress); whether  *)
(* one is bound to another event is left open at bindVerifiedEvent.        *)
(***************************************************************************)
EXTENDS PushDecision, JobStates

CONSTANTS
  Handler,   \* runs of acceptWebhook in progress at once
  World,     \* requests, policies and repositories considered
  Patch      \* job states that updates ask for

ASSUME WorldAssumption ==
  World \subseteq [request : Request, policies : SUBSET C2PushPolicyV2,
                   retired : SUBSET PolicyId, content : [Sha -> Digest \cup {Absent}]]
ASSUME PatchAssumption == Patch \subseteq JobState

VARIABLES
  world,    \* the request and what it meets, fixed
  receipt,  \* the dedupe record of the delivery
  aged,     \* its reservation is as old as DEFAULT_RESERVED_RECOVERY_MS
  bound,    \* a policy is bound to the event
  job,      \* the job file: state, and the runs whose patches it holds
  lock,     \* the lock files of receipt and job
  overdue,  \* history: a lock file has reached 30 s
  handler   \* the runs' local state

vars == <<world, receipt, aged, bound, job, lock, overdue, handler>>

Rejection == {"C2_PUSH_NO_MATCHING_POLICY", "C2_PUSH_POLICY_AMBIGUOUS",
              "C2_PUSH_POLICY_DISABLED", "C2_PUSH_NOT_AUTHORITY_ELIGIBLE",
              "C2_PUSH_REJECTED", "C2_PUSH_TRANSITION_REJECTED",
              "C2_PUSH_POLICY_ALREADY_BOUND"}

Decision == Rejection \cup {"C2_PUSH_SELECTED"}

\* validateDedupeRecord: an accepted record is complete.  The policy a rejection
\* names is left out.
Receipt ==
  [state : {"RESERVED"}, decision : {None}, policy : {None}]
  \cup [state : {"ACCEPTED"}, decision : {"C2_PUSH_SELECTED"}, policy : C2PushPolicyV2]
  \cup [state : {"REJECTED"}, decision : Rejection, policy : {None}]

ASSUME ReceiptAssumption == None \notin Receipt

Reserved == [state |-> "RESERVED", decision |-> None, policy |-> None]

File == {"receipt", "job"}

Job == [state : JobState, patched : SUBSET Handler]

ASSUME JobAssumption == None \notin Job

\* open .. close are the steps of one call under a lock file.
HandlerState ==
  [pc       : {"idle", "reserve", "open", "stat", "break", "inside", "write", "close",
               "decide", "mint", "before", "after", "revoke", "probe", "judge",
               "bind", "create", "ready"},
   call     : {"reserve", "finalize", "update"},
   seen     : Receipt \cup Job \cup {None},  \* what the call has read
   resumes  : BOOLEAN,                       \* a binding was found: recovery is due at once
   policy   : C2PushPolicyV2 \cup {None},
   before   : ImmutablePathObservation \cup {None},
   after    : ImmutablePathObservation \cup {None},
   failed   : BOOLEAN,                       \* a read threw
   decision : Decision \cup {None},          \* what finalizeDedupe is to write
   patch    : Patch \cup {None}]

Idle == [pc |-> "idle", call |-> "reserve", seen |-> None, resumes |-> FALSE, policy |-> None,
         before |-> None, after |-> None, failed |-> FALSE, decision |-> None, patch |-> None]

TypeOK ==
  /\ world \in World
  /\ receipt \in Receipt \cup {None}
  /\ aged \in BOOLEAN /\ bound \in BOOLEAN /\ overdue \in BOOLEAN
  /\ job \in Job \cup {None}
  /\ lock \in [File -> {"free", "held", "old"}]
  /\ handler \in [Handler -> HandlerState]

Init ==
  /\ world \in World
  /\ receipt = None /\ job = None
  /\ aged = FALSE /\ bound = FALSE /\ overdue = FALSE
  /\ lock = [f \in File |-> "free"]
  /\ handler = [h \in Handler |-> Idle]

event == world.request

At(h, pc) == handler[h].pc = pc

Becomes(h, state) == handler' = [handler EXCEPT ![h] = state]

Goto(h, pc) == Becomes(h, [handler[h] EXCEPT !.pc = pc])

\* acceptWebhook and normalizeVerifiedPushEvent.  A binding found beside the
\* reservation makes it recoverable at once.
accept(h) ==
  /\ At(h, "idle")
  /\ normalizeVerifiedPushEvent(event)
  /\ Becomes(h, [Idle EXCEPT !.pc = "reserve",
                             !.resumes = (receipt = Reserved /\ bound)])
  /\ UNCHANGED <<world, receipt, aged, bound, job, lock, overdue>>

----------------------------------------------------------------------------
(* withReceiptLock, and the same lines in update                            *)

FileOf(h) == IF handler[h].call = "update" THEN "job" ELSE "receipt"

Calls(h, state, call) == Becomes(h, [state EXCEPT !.pc = "open", !.call = call, !.seen = None])

\* open(lock, "wx")
open(h) ==
  /\ At(h, "open")
  /\ IF lock[FileOf(h)] = "free"
     THEN lock' = [lock EXCEPT ![FileOf(h)] = "held"] /\ Goto(h, "inside")
     ELSE UNCHANGED lock /\ Goto(h, "stat")
  /\ UNCHANGED <<world, receipt, aged, bound, job, overdue>>

\* Mutant of Breakable: the age is not looked at.
BreakableAlways(f) == lock[f] # "free"

Breakable(f) == lock[f] = "old"

stat(h) ==
  /\ At(h, "stat")
  /\ Goto(h, IF Breakable(FileOf(h)) THEN "break" ELSE "open")
  /\ UNCHANGED <<world, receipt, aged, bound, job, lock, overdue>>

\* Whatever file is there by now.
break(h) ==
  /\ At(h, "break")
  /\ lock' = [lock EXCEPT ![FileOf(h)] = "free"]
  /\ Goto(h, "open")
  /\ UNCHANGED <<world, receipt, aged, bound, job, overdue>>

\* finally: unlink(lock)
close(h) ==
  /\ At(h, "close")
  /\ lock' = [lock EXCEPT ![FileOf(h)] = "free"]
  /\ \/ handler[h].call = "reserve" /\ Goto(h, "decide")
     \/ /\ handler[h].call = "finalize"
        /\ Becomes(h, IF handler[h].seen = Reserved /\ handler[h].decision = "C2_PUSH_SELECTED"
                      THEN [Idle EXCEPT !.pc = "create"] ELSE Idle)
     \/ /\ handler[h].call = "update"
        /\ Becomes(h, IF handler[h].patch = None THEN Idle ELSE [Idle EXCEPT !.pc = "ready"])
  /\ UNCHANGED <<world, receipt, aged, bound, job, overdue>>

\* The lock file reaches 30 s: its owner died, or is slow.
grow_old(f) ==
  /\ lock[f] = "held"
  /\ lock' = [lock EXCEPT ![f] = "old"]
  /\ overdue' = TRUE
  /\ UNCHANGED <<world, receipt, aged, bound, job, handler>>

----------------------------------------------------------------------------
(* reserveDedupe and the decision that follows it                           *)

\* The first link of the record wins; the others read it under the lock.
reserveDedupe(h) ==
  /\ At(h, "reserve")
  /\ IF receipt = None
     THEN receipt' = Reserved /\ Goto(h, "decide")
     ELSE UNCHANGED receipt /\ Calls(h, handler[h], "reserve")
  /\ UNCHANGED <<world, aged, bound, job, lock, overdue>>

reserve_read(h) ==
  /\ At(h, "inside") /\ handler[h].call = "reserve"
  /\ Becomes(h, [handler[h] EXCEPT !.pc = "close", !.seen = receipt])
  /\ UNCHANGED <<world, receipt, aged, bound, job, lock, overdue>>

\* What the run goes on with is only kept where it is used again.
Rejects(h, decision) == Calls(h, [Idle EXCEPT !.decision = decision], "finalize")

Selects(h) ==
  Calls(h, [handler[h] EXCEPT !.decision = "C2_PUSH_SELECTED", !.before = None, !.after = None],
        "finalize")

reservedRecoveryDue(h) == handler[h].resumes \/ aged

lookup == lookupPreExistingPushPolicy(event, world.policies, world.retired)

\* A policy is found and the push is eligible, or the receipt is rejected.
createImmutablePushReadPlan(h) ==
  IF lookup # "MATCH" THEN Rejects(h, LookupRejection[lookup])
  ELSE IF ~assertPushAuthorityEligible(event) THEN Rejects(h, "C2_PUSH_NOT_AUTHORITY_ELIGIBLE")
  ELSE \E p \in Usable(event, world.policies, world.retired) :
         Becomes(h, [handler[h] EXCEPT !.pc = "mint", !.seen = None, !.policy = p])

\* Mutant of Replays: whatever has been decided is replayed.
ReplaysDecided(record) == record # Reserved

Replays(record) == record.state = "ACCEPTED"

\* An accepted receipt is replayed, a rejected one stands, a reservation is
\* somebody's unless recovery is due.
decide(h) ==
  /\ At(h, "decide")
  /\ LET seen == handler[h].seen
     IN  \/ seen = None /\ createImmutablePushReadPlan(h)
         \/ /\ seen = Reserved
            /\ IF reservedRecoveryDue(h) THEN createImmutablePushReadPlan(h) ELSE Becomes(h, Idle)
         \/ /\ seen \notin {None, Reserved}
            /\ Becomes(h, IF Replays(seen) THEN [Idle EXCEPT !.pc = "create"] ELSE Idle)
  /\ UNCHANGED <<world, receipt, aged, bound, job, lock, overdue>>

----------------------------------------------------------------------------
(* readPlan: one contents:read token, two immutable reads, revocation.      *)
(* Nothing is said of the token itself: it may expire or be taken away, so  *)
(* that a read fails, and what its answers mean is GitHub's.                *)

mintContentsReadToken(h) ==
  /\ At(h, "mint")
  /\ Goto(h, "before") \/ Rejects(h, "C2_PUSH_REJECTED")
  /\ UNCHANGED <<world, receipt, aged, bound, job, lock, overdue>>

\* Any read may fail; then the token is revoked.
ReadFails(h) == Becomes(h, [handler[h] EXCEPT !.pc = "revoke", !.failed = TRUE])

readBefore(h) ==
  /\ At(h, "before")
  /\ \/ Becomes(h, [handler[h] EXCEPT !.pc = "after",
                                      !.before = readImmutableContent(world.content, event.before)])
     \/ ReadFails(h)
  /\ UNCHANGED <<world, receipt, aged, bound, job, lock, overdue>>

readAfter(h) ==
  /\ At(h, "after")
  /\ \/ Becomes(h, [handler[h] EXCEPT !.pc = "revoke",
                                      !.after = readImmutableContent(world.content, event.after)])
     \/ ReadFails(h)
  /\ UNCHANGED <<world, receipt, aged, bound, job, lock, overdue>>

\* finally.  Anything but a 204, or no answer, ends the read whatever became of
\* the token.
revokeToken(h) ==
  /\ At(h, "revoke")
  /\ Goto(h, "probe") \/ Rejects(h, "C2_PUSH_REJECTED")
  /\ UNCHANGED <<world, receipt, aged, bound, job, lock, overdue>>

\* The read with the revoked token may be answered anything: accepted while the
\* revocation has not reached GitHub, 401 once it has, 403 then and also when a
\* living token meets a rate limit.  Both count as refusals.
Answer == {"200", "401", "403", "other"}

Refused(answer) == answer \in {"401", "403"}

probeRevokedToken(h) ==
  /\ At(h, "probe")
  /\ \E answer \in Answer :
       IF Refused(answer) /\ ~handler[h].failed
       THEN Goto(h, "judge")
       ELSE Rejects(h, "C2_PUSH_REJECTED")
  /\ UNCHANGED <<world, receipt, aged, bound, job, lock, overdue>>

----------------------------------------------------------------------------
(* The decision                                                             *)

judge(h) ==
  /\ At(h, "judge")
  /\ LET s == handler[h]
         transition == verifyPushSecretTransition(s.before, s.after, event, s.policy)
     IN  IF transition # "CAUSAL_SECRET_INTRODUCED" THEN Rejects(h, "C2_PUSH_TRANSITION_REJECTED")
         ELSE IF derivePushC1CreateRequest(event, s.policy, transition) THEN Goto(h, "bind")
         ELSE Rejects(h, "C2_PUSH_REJECTED")
  /\ UNCHANGED <<world, receipt, aged, bound, job, lock, overdue>>

\* The policy becomes bound to this event; or it is another event's, or
\* retired; or an error leaves the reservation as it is.
bindVerifiedEvent(h) ==
  /\ At(h, "bind")
  /\ \/ bound' = TRUE /\ Selects(h)
     \/ UNCHANGED bound /\ (Rejects(h, "C2_PUSH_POLICY_ALREADY_BOUND") \/ Becomes(h, Idle))
  /\ UNCHANGED <<world, receipt, aged, job, lock, overdue>>

finalize_read(h) ==
  /\ At(h, "inside") /\ handler[h].call = "finalize"
  /\ Becomes(h, [handler[h] EXCEPT !.pc = IF receipt = Reserved THEN "write" ELSE "close",
                                   !.seen = receipt])
  /\ UNCHANGED <<world, receipt, aged, bound, job, lock, overdue>>

\* Mutant of Decided: a rejection keeps the state it found.
DecidedLoosely(s) ==
  IF s.decision = "C2_PUSH_SELECTED"
  THEN [state |-> "ACCEPTED", decision |-> s.decision, policy |-> s.policy]
  ELSE [s.seen EXCEPT !.decision = s.decision]

Decided(s) ==
  IF s.decision = "C2_PUSH_SELECTED"
  THEN [state |-> "ACCEPTED", decision |-> s.decision, policy |-> s.policy]
  ELSE [state |-> "REJECTED", decision |-> s.decision, policy |-> None]

finalizeDedupe(h) ==
  /\ At(h, "write") /\ handler[h].call = "finalize"
  /\ receipt' = Decided(handler[h])
  /\ Goto(h, "close")
  /\ UNCHANGED <<world, aged, bound, job, lock, overdue>>

----------------------------------------------------------------------------
(* The job                                                                  *)

\* jobs.create: the first link wins, the identity is always the same.
create(h) ==
  /\ At(h, "create")
  /\ job' = IF job = None THEN [state |-> "PENDING", patched |-> {}] ELSE job
  /\ Goto(h, "ready")
  /\ UNCHANGED <<world, receipt, aged, bound, lock, overdue>>

\* ensureIncidentAndReservation patches the job a number of times.
update(h) ==
  /\ At(h, "ready")
  /\ \/ \E to \in Patch : Calls(h, [Idle EXCEPT !.patch = to], "update")
     \/ Becomes(h, Idle)
  /\ UNCHANGED <<world, receipt, aged, bound, job, lock, overdue>>

update_read(h) ==
  /\ At(h, "inside") /\ handler[h].call = "update"
  /\ Becomes(h, IF canTransition(job.state, handler[h].patch, FALSE)
                THEN [handler[h] EXCEPT !.pc = "write", !.seen = job]
                ELSE [handler[h] EXCEPT !.pc = "close", !.patch = None])
  /\ UNCHANGED <<world, receipt, aged, bound, job, lock, overdue>>

\* The patch over what was read.
Merged(h) == [state |-> handler[h].patch, patched |-> handler[h].seen.patched \cup {h}]

update_write(h) ==
  /\ At(h, "write") /\ handler[h].call = "update"
  /\ job' = Merged(h)
  /\ Goto(h, "close")
  /\ UNCHANGED <<world, receipt, aged, bound, lock, overdue>>

----------------------------------------------------------------------------
(* Time and failure                                                         *)

reservation_ages ==
  /\ receipt = Reserved
  /\ aged' = TRUE
  /\ UNCHANGED <<world, receipt, bound, job, lock, overdue, handler>>

\* The coordinator dies, and its lock files stay.
crash ==
  /\ handler' = [h \in Handler |-> Idle]
  /\ UNCHANGED <<world, receipt, aged, bound, job, lock, overdue>>

Locked(h) ==
  \/ open(h) \/ stat(h) \/ break(h) \/ close(h)
  \/ reserve_read(h) \/ finalize_read(h) \/ finalizeDedupe(h)
  \/ update_read(h) \/ update_write(h)

Reads(h) ==
  \/ mintContentsReadToken(h) \/ readBefore(h) \/ readAfter(h)
  \/ revokeToken(h) \/ probeRevokedToken(h)

HandlerStep(h) ==
  \/ accept(h) \/ reserveDedupe(h) \/ decide(h) \/ judge(h) \/ bindVerifiedEvent(h)
  \/ create(h) \/ update(h)
  \/ Reads(h) \/ Locked(h)

Next ==
  \/ \E h \in Handler : HandlerStep(h)
  \/ \E f \in File : grow_old(f)
  \/ reservation_ages \/ crash

Spec == Init /\ [][Next]_vars

----------------------------------------------------------------------------
(* Properties                                                               *)

\* Whatever the reads, the repetitions and the crashes, authority is accepted
\* only for a push that put the secret on the branch: the policy's private key
\* is in the repository after the push and was not there before it, the push
\* moved an existing branch forward, and exactly one policy of that repository
\* and branch was enabled, live and not retired (push-ingress.ts,
\* push-policy.ts, push-transition.ts).
Introduced(p) ==
  /\ event.authentic
  /\ world.content[event.after] = p.digest
  /\ world.content[event.before] # p.digest
  /\ {event.before, event.after} \cap {ZERO_SHA} = {}
  /\ ~event.created /\ ~event.deleted /\ ~event.forced

SoleAuthority(p) ==
  /\ p \in world.policies
  /\ p.enabled /\ p.live /\ p.sound /\ p.policy_id \notin world.retired
  /\ <<p.repository, p.ref>> = <<event.repository, event.ref>>
  /\ \A r \in world.policies \ {p} :
       /\ <<r.repository, r.ref>> = <<p.repository, p.ref>>
       => r.policy_id # p.policy_id /\ ~(r.enabled /\ r.live /\ r.sound /\ r.policy_id \notin world.retired)

Accepted == receipt # None /\ receipt.state = "ACCEPTED"

AcceptedIsCausal == Accepted => Introduced(receipt.policy) /\ SoleAuthority(receipt.policy)

\* Broken locks can overwrite a decision, never make a job of nothing: a job
\* exists only for a push that introduced the secret of a sole policy, after that
\* policy was bound to it, whoever replayed, took over or overwrote the receipt;
\* and as long as no lock file has reached 30 s, only beside an accepted receipt
\* (push-ingress.ts: processPushWebhookWithObservationProvider, coordinator.ts:
\* acceptWebhook).
CausalPush == \E p \in world.policies : Introduced(p) /\ SoleAuthority(p)

Authorised == bound /\ CausalPush /\ (overdue \/ Accepted)

JobIsAuthorised == job # None => Authorised

\* As long as no lock file has reached 30 s, the two files behave as PushIngress
\* and RuntimeRecovery take them: a decision is written once and for all, and an
\* update of the job loses no other and makes only a permitted transition.  A
\* slow owner may break it, as may two runs that find the lock of a dead one.
FilesAreAtomic ==
  [][\/ overdue'
     \/ /\ receipt \notin {None, Reserved} => receipt' = receipt
        /\ job # None => /\ canTransition(job.state, job'.state, FALSE)
                         /\ job.patched \subseteq job'.patched]_vars

----------------------------------------------------------------------------
(* The inductive strengthening.                                             *)

\* Where a run is: under a lock file, before its decision, or past the plan.
Calling(s) == s.pc \in {"open", "stat", "break", "inside", "write", "close"}

Outside(s) ==
  s.pc \in {"reserve", "decide", "mint", "before", "after", "revoke", "probe", "judge", "bind"}

Deciding(s) == Outside(s) \/ (Calling(s) /\ s.call # "update")

Planned(s) ==
  \/ s.pc \in {"mint", "before", "after", "revoke", "probe", "judge", "bind"}
  \/ s.call = "finalize" /\ s.decision = "C2_PUSH_SELECTED"

Verified(s) ==
  \/ s.pc = "bind"
  \/ s.call = "finalize" /\ s.decision = "C2_PUSH_SELECTED"

\* A run past the plan acts for an eligible event under the one usable policy; it
\* holds what the repository says once it has read it.
HasRead(s) ==
  /\ s.before = readImmutableContent(world.content, event.before)
  /\ s.after = readImmutableContent(world.content, event.after)

SoundRead(s) ==
  /\ Deciding(s) => normalizeVerifiedPushEvent(event)
  /\ Planned(s) => /\ assertPushAuthorityEligible(event)
                   /\ lookup = "MATCH"
                   /\ s.policy \in Usable(event, world.policies, world.retired)
  /\ s.pc = "after" => s.before = readImmutableContent(world.content, event.before)
  /\ s.pc \in {"revoke", "probe"} /\ ~s.failed => HasRead(s)
  /\ s.pc = "judge" => HasRead(s)
  /\ Verified(s) => Introduced(s.policy)

\* A call under a lock has something to read, and knows what it is to write.
SoundCall(s) ==
  /\ Outside(s) => s.call = "reserve"
  /\ Deciding(s) /\ s.pc # "reserve" => receipt # None
  /\ Calling(s) /\ s.call = "finalize" => s.decision \in Decision
  /\ Calling(s) /\ s.call = "update" => job # None /\ (s.patch \in Patch \/ s.pc = "close")
  /\ s.pc = "write" => \/ s.call = "finalize" /\ s.seen = Reserved
                       \/ s.call = "update" /\ s.seen \in Job
  /\ s.pc = "ready" => job # None

Sound(s) == SoundRead(s) /\ SoundCall(s)

\* Who selects has bound the policy; who goes on to the job has accepted the
\* receipt, or read it accepted.
GoesOn(s) ==
  \/ s.pc = "create"
  \/ s.call = "reserve" /\ s.seen # None /\ s.seen.state = "ACCEPTED"
  \/ /\ s.call = "finalize" /\ s.pc = "close"
     /\ s.seen = Reserved /\ s.decision = "C2_PUSH_SELECTED"

Founded(s) ==
  /\ s.call = "finalize" /\ s.decision = "C2_PUSH_SELECTED" => bound
  /\ GoesOn(s) => Authorised

\* Until a lock is overdue, who is inside is alone there, and what it has read is
\* what the file still says.
Inside(h) == handler[h].pc \in {"inside", "write", "close"}

Current(h) ==
  At(h, "write") => \/ handler[h].call = "finalize" /\ receipt = Reserved
                    \/ /\ handler[h].call = "update"
                       /\ handler[h].seen = job
                       /\ canTransition(job.state, handler[h].patch, FALSE)

Exclusive ==
  /\ \A f \in File : lock[f] # "old"
  /\ \A h \in Handler :
       /\ ~At(h, "break")
       /\ Inside(h) => lock[FileOf(h)] = "held"
       /\ Current(h)
       /\ \A g \in Handler : Inside(h) /\ Inside(g) /\ FileOf(h) = FileOf(g) => h = g

IInv ==
  /\ TypeOK
  /\ \A h \in Handler : Sound(handler[h])
  /\ ~overdue => Exclusive
  /\ AcceptedIsCausal
  /\ Accepted => bound
  /\ \A h \in Handler : Founded(handler[h])
  /\ JobIsAuthorised
=============================================================================
