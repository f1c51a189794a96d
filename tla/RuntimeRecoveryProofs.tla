----------------------- MODULE RuntimeRecoveryProofs -----------------------
(***************************************************************************)
(* Theorems about RuntimeRecovery, for any number of coordinator runs and  *)
(* broker children: what a terminal job, a retired policy and a recorded   *)
(* effect start say of C1 and of the key.                                  *)
(***************************************************************************)
EXTENDS RuntimeRecovery, C1ModelLemmas, TLAPS

----------------------------------------------------------------------------
(* How the row moves.                                                       *)

Follows(a, b) == GoodRow(b) /\ b.status # "FAILED" /\ Advances(a, b)

\* ... without an effect being started or closed.
Idles(a, b) ==
  /\ Follows(a, b)
  /\ b.status = "CLOSED" => a.status = "CLOSED"
  /\ b.effect_start_id # None => a.effect_start_id # None

LEMMA AdvancesAll ==
  ASSUME NEW a, NEW b, NEW c, Advances(a, b), Advances(b, c)
  PROVE  Advances(a, c) /\ Advances(a, a)
  BY DEF Advances

LEMMA IdlesSame ==
  ASSUME NEW a, GoodRow(a), a.status # "FAILED"
  PROVE  Idles(a, a)
  BY DEF Idles, Follows, Advances

\* reserve and claim-effect may let the row expire instead.
LEMMA ExpireIdles ==
  ASSUME NEW a, GoodRow(a), a.status # "FAILED"
  PROVE  Idles(a, Expire(a))
<1>1. CASE a.status \in {"ACTIVE", "RESERVED", "READY_RETRY"}
  <2>1. GoodRow(Expire(a)) /\ Expire(a) = [a EXCEPT !.status = "EXPIRED"]
    BY <1>1, ExpireGood
  <2>2. a.effect_start_id = None
    BY <1>1 DEF GoodRow, valid_shape, StatusShape, NoEffect
  <2> QED  BY <1>1, <2>1, <2>2 DEF Idles, Follows, Advances, GoodRow, IncidentAuthority
<1>2. CASE a.status \notin {"ACTIVE", "RESERVED", "READY_RETRY"}
  BY <1>2, IdlesSame DEF Expire
<1> QED  BY <1>1, <1>2

LEMMA ReserveIdles ==
  ASSUME NEW a, GoodRow(a), a.status # "FAILED", NEW caller, NEW now, NEW o, o = reserve(a, caller, now)
  PROVE  Idles(a, o.authority) /\ (o.decision = "Won" => o.authority.status = "RESERVED")
<1>1. CASE o.decision = "Won" /\ o.authority = Reserved(a) /\ a.status = "ACTIVE" /\ GoodRow(Reserved(a))
  <2>1. a.effect_start_id = None
    BY <1>1 DEF GoodRow, valid_shape, StatusShape, NoEffect
  <2> QED  BY <1>1, <2>1 DEF Idles, Follows, Advances, GoodRow, IncidentAuthority, Reserved
<1>2. CASE o.decision \in {"Denied", "Lost"} /\ o.authority \in {a, Expire(a)}
  BY <1>2, IdlesSame, ExpireIdles
<1> QED  BY <1>1, <1>2, ReserveOutcome

LEMMA ClaimIdles ==
  ASSUME NEW a, GoodRow(a), a.status # "FAILED", NEW caller, NEW now, NEW version, NEW nonce, NEW o,
         o = claim_with_nonce(a, caller, now, version, nonce)
  PROVE  Idles(a, o.authority)
<1>1. CASE /\ o.decision = "Proposed" /\ o.authority = Claimed(a, nonce)
           /\ a.status \in {"RESERVED", "READY_RETRY"} /\ GoodRow(Claimed(a, nonce))
  <2>1. a.effect_start_id = None
    BY <1>1 DEF GoodRow, valid_shape, StatusShape, NoEffect
  <2> QED  BY <1>1, <2>1 DEF Idles, Follows, Advances, GoodRow, IncidentAuthority, Claimed
<1>2. CASE o.decision \in {"Denied", "Lost"} /\ o.authority \in {a, Expire(a)}
  BY <1>2, IdlesSame, ExpireIdles
<1> QED  BY <1>1, <1>2, ClaimOutcome

LEMMA ReleaseIdles ==
  ASSUME NEW a, GoodRow(a), a.status # "FAILED", NEW caller, NEW claim_id, NEW now, NEW o,
         o = release_not_attempted(a, caller, claim_id, now), o.decision = "Won"
  PROVE  Idles(a, o.authority)
<1>1. o.authority = Released(a) /\ OwnsClaim(a, caller, claim_id) /\ GoodRow(Released(a))
  BY ReleaseOutcome
<1>2. a.status = "EFFECT_CLAIMED" /\ a.effect_start_id = None
  BY <1>1 DEF OwnsClaim, GoodRow, valid_shape, StatusShape, NoEffect
<1> QED  BY <1>1, <1>2 DEF Idles, Follows, Advances, GoodRow, IncidentAuthority, Released

\* begin-effect: the row's start is the answered one.
LEMMA BeginFollows ==
  ASSUME NEW a, GoodRow(a), a.status # "FAILED", NEW caller, NEW claim_id, NEW nonce, NEW now, NEW o,
         o = begin_effect_with_nonce(a, caller, claim_id, nonce, now)
  PROVE  /\ Follows(a, o.authority)
         /\ o.authority.status = "CLOSED" => a.status = "CLOSED"
         /\ o.decision = "Won" => /\ o.authority.effect_start_id \in StateId
                                  /\ o.authority.effect_claim_id = claim_id
<1>1. CASE o.decision = "Won"
  <2>1. /\ o.authority = Begun(a, StartOf(a, nonce)) /\ OwnsClaim(a, caller, claim_id)
        /\ StartOf(a, nonce) \in StateId /\ GoodRow(Begun(a, StartOf(a, nonce)))
    BY <1>1, BeginOutcome
  <2>2. a.status = "EFFECT_CLAIMED" /\ a.effect_start_id = None /\ a.effect_claim_id = claim_id
    BY <2>1 DEF OwnsClaim, GoodRow, valid_shape, StatusShape, NoEffect
  <2> QED  BY <2>1, <2>2 DEF Follows, Advances, GoodRow, IncidentAuthority, Begun
<1>2. CASE o.decision # "Won"
  <2>1. o.authority = a
    BY <1>2 DEF begin_effect_with_nonce, Outcome
  <2> QED  BY <1>2, <2>1 DEF Follows, Advances
<1> QED  BY <1>1, <1>2

\* finalize and reconcile: a row is closed only by a verified absence, and no answer
\* changes the start.
LEMMA SettleFollows ==
  ASSUME NEW a, GoodRow(a), a.status # "FAILED", NEW caller, NEW claim_id, NEW start_id, NEW classification,
         NEW o,
         \/ o = finalize_with_start(a, caller, claim_id, start_id, classification) /\ classification # "VERIFIED_PRESENT"
         \/ o = reconcile_with_start(a, caller, claim_id, start_id, classification)
  PROVE  /\ Follows(a, o.authority)
         /\ o.authority.effect_start_id = a.effect_start_id
         /\ o.authority.status = "CLOSED" => a.status = "CLOSED" \/ classification = "VERIFIED_ABSENT"
<1>1. CASE o.decision = "Won"
  <2>1. PICK status \in {"CLOSED", "RECONCILE_REQUIRED", "FAILED"} :
          /\ o.authority = Settled(a, status, classification)
          /\ a.status \in {"EFFECT_STARTED", "RECONCILE_REQUIRED", "FAILED"}
          /\ GoodRow(Settled(a, status, classification))
    BY <1>1, SettleOutcome
  <2>2. Settled(a, status, classification).status = status
    BY DEF Settled, GoodRow, IncidentAuthority
  <2>3. \/ status = FinalStatus(classification) /\ classification # "VERIFIED_PRESENT"
        \/ status = IF classification = "VERIFIED_ABSENT" THEN "CLOSED" ELSE "RECONCILE_REQUIRED"
    <3>1. CASE o = finalize_with_start(a, caller, claim_id, start_id, classification) /\ classification # "VERIFIED_PRESENT"
      <4>1. o.authority.status = FinalStatus(classification)
        BY <1>1, <3>1 DEF finalize_with_start, Outcome, GoodRow, IncidentAuthority
      <4> QED  BY <2>1, <2>2, <3>1, <4>1
    <3>2. CASE o = reconcile_with_start(a, caller, claim_id, start_id, classification)
      <4>1. o.authority.status = IF classification = "VERIFIED_ABSENT" THEN "CLOSED" ELSE "RECONCILE_REQUIRED"
        BY <1>1, <3>2 DEF reconcile_with_start, Outcome, GoodRow, IncidentAuthority
      <4> QED  BY <2>1, <2>2, <4>1
    <3> QED  BY <3>1, <3>2
  <2>4. o.authority.status # "FAILED" /\ (o.authority.status = "CLOSED" => classification = "VERIFIED_ABSENT")
    BY <2>1, <2>2, <2>3 DEF FinalStatus
  <2> QED  BY <2>1, <2>2, <2>4 DEF Follows, Advances, GoodRow, IncidentAuthority, Settled
<1>2. CASE o.decision # "Won"
  <2>1. o.authority = a
    BY <1>2 DEF finalize_with_start, reconcile_with_start, Outcome
  <2> QED  BY <2>1 DEF Follows, Advances
<1> QED  BY <1>1, <1>2

----------------------------------------------------------------------------
(* How the world moves under a process: the row advances, the key never     *)
(* comes back, the job leaves neither its past nor a settling state.        *)

RowMoves == row # None => row' # None /\ Advances(row, row')

KeyFalls == ~key => ~key'

JobMoves ==
  /\ job.state # "PENDING" => job'.state # "PENDING"
  /\ Past => Past'
  /\ job.state \in Settling /\ row # None /\ (row.status = "CLOSED" \/ row.effect_start_id # None)
       => job'.state \in Settling

WorldMoves == RowMoves /\ KeyFalls /\ JobMoves

LEMMA StillWorld ==
  ASSUME row' = row, key' = key, job' = job
  PROVE  WorldMoves
  BY DEF WorldMoves, RowMoves, KeyFalls, JobMoves, Advances, Past

\* What update permits is a move, if it fails the job only of an expired row.
LEMMA TransitionMoves ==
  ASSUME NEW allow \in BOOLEAN, job.state \in JobState, job'.state \in JobState,
         canTransition(job.state, job'.state, allow),
         row # None => Sane(row),
         job'.state = "FAILED" => row # None /\ row.status = "EXPIRED"
  PROVE  JobMoves
<1>1. row # None /\ row.status = "EXPIRED" => row.effect_start_id = None
  BY DEF Sane, valid_shape, StatusShape, NoEffect
<1> QED  BY <1>1 DEF canTransition, Successors, JobMoves, Past, Settling, JobState

\* What a process rests on is kept while it does nothing.
LEMMA RestsKept ==
  ASSUME WorldMoves, NEW t, Rests(thread[t]), thread'[t] = thread[t]
  PROVE  Rests(thread[t])'
<1>1. /\ row # None => row' # None
      /\ row # None /\ row.status # "ACTIVE" => row'.status # "ACTIVE"
      /\ row # None /\ row.status = "CLOSED" => row'.status = "CLOSED"
      /\ row # None /\ row.status = "CLOSED" /\ job.state \in Settling => job'.state \in Settling
  BY DEF WorldMoves, RowMoves, JobMoves, Advances
<1>2. row # None /\ Advances(thread[t].seen, row) => Advances(thread[t].seen, row')
  BY AdvancesAll DEF WorldMoves, RowMoves
<1>3. Advances(thread[t].seen, row)' <=> Advances(thread[t].seen, row')
  BY DEF Advances
<1>4. Sane(thread[t].seen)' <=> Sane(thread[t].seen)
  BY DEF Sane, valid_shape, StatusShape, NoEffect, Started
<1> QED  BY <1>1, <1>2, <1>3, <1>4 DEF Rests

LEMMA ChildKept ==
  ASSUME WorldMoves, NEW c, child'[c] = child[c], ChildSound(child[c])
  PROVE  ChildSound(child[c])'
  BY DEF WorldMoves, KeyFalls, JobMoves, ChildSound, Underway

LEMMA StartKept ==
  ASSUME WorldMoves, NEW c, NEW s, s # None, IsStart(c, s)
  PROVE  IsStart(c, s)'
  BY DEF WorldMoves, RowMoves, Advances, IsStart

ChildSays(s) == s.start # None => IsStart(s.claim, s.start)

LEMMA ChildSaysKept ==
  ASSUME WorldMoves, NEW c, child'[c] = child[c], ChildSays(child[c])
  PROVE  ChildSays(child[c])'
  BY DEF WorldMoves, RowMoves, Advances, IsStart, ChildSays

\* A step keeps the invariant if it moves the world and what it changes is sound.
LEMMA Keeps ==
  ASSUME IInv, TypeOK', WorldMoves,
         (row' = row /\ key' = key) \/ RowOK',
         job' = job \/ (JobOK' /\ (~Doubled => JobTold')),
         retired' = retired \/ RetiredOK',
         \A t \in Thread : thread'[t] = thread[t] \/ Rests(thread[t])',
         worker' = worker \/ (WorkerOK' /\ (~Doubled => WorkerTold')),
         \A c \in Child : \/ child'[c] = child[c]
                          \/ (ChildSound(child[c])' /\ (~Doubled => ChildSays(child[c])')),
         result' = result \/ (ResultOK' /\ (~Doubled => ResultTold'))
  PROVE  IInv'
<1>1. RowOK'
  <2>1. CASE row' = row /\ key' = key
    BY <2>1 DEF IInv, RowOK, WorldMoves, JobMoves, Sane
  <2> QED  BY <2>1
<1>2. JobOK'
  <2>1. CASE job' = job
    BY <2>1 DEF IInv, JobOK, WorldMoves, RowMoves, KeyFalls, Advances
  <2> QED  BY <2>1
<1>3. RetiredOK'
  <2>1. CASE retired' = retired
    BY <2>1 DEF IInv, RetiredOK, WorldMoves, RowMoves, JobMoves, Advances
  <2> QED  BY <2>1
<1>4. ThreadOK'
  BY RestsKept DEF IInv, ThreadOK
<1>5. WorkerOK'
  <2>1. CASE worker' = worker
    BY <2>1 DEF IInv, WorkerOK, WorldMoves, KeyFalls, JobMoves
  <2> QED  BY <2>1
<1>6. ChildOK'
  BY ChildKept DEF IInv, ChildOK
<1>7. ResultOK'
  <2>1. CASE result' = result
    BY <2>1 DEF IInv, ResultOK, WorldMoves, KeyFalls
  <2> QED  BY <2>1
<1>8. ~Doubled => Committed'
  <2> SUFFICES ASSUME ~Doubled PROVE Committed'
    OBVIOUS
  <2>1. JobTold'
    <3>1. CASE job' = job
      BY <3>1 DEF IInv, Committed, JobTold, WorldMoves, RowMoves, Advances, IsStart, HasStarted
    <3> QED  BY <3>1
  <2>2. WorkerTold'
    <3>1. CASE worker' = worker
      BY <3>1 DEF IInv, Committed, WorkerTold, WorldMoves, RowMoves, JobMoves, Advances, HasStarted
    <3> QED  BY <3>1
  <2>3. ChildTold'
    BY ChildSaysKept DEF IInv, Committed, ChildTold, ChildSays
  <2>4. ResultTold'
    <3>1. CASE result' = result
      BY <3>1 DEF IInv, Committed, ResultTold, WorldMoves, RowMoves, Advances, IsStart
    <3> QED  BY <3>1
  <2> QED  BY <2>1, <2>2, <2>3, <2>4 DEF Committed
<1> QED  BY <1>1, <1>2, <1>3, <1>4, <1>5, <1>6, <1>7, <1>8 DEF IInv

----------------------------------------------------------------------------
(* Calls to C1: their fates, and the row after them.                        *)

LEMMA FateRow ==
  ASSUME NEW o, NEW f \in FatesOrDoubled(o)
  PROVE  f.row \in {row, o.authority} /\ f.reply \in BOOLEAN
<1>1. Stored(o) \in {row, o.authority}
  BY DEF Stored
<1>2. f \in Fates(o) \cup {[row |-> row, reply |-> TRUE]}
  BY DEF FatesOrDoubled
<1>3. /\ f.reply = TRUE \/ f.reply = FALSE
      /\ f.row \in {row, Stored(o)}
  BY <1>2 DEF Fates
<1> QED  BY <1>1, <1>3

\* What was answered affirmatively was stored, unless C1 answers without a commit.
LEMMA AnsweredRow ==
  ASSUME NEW o, NEW f \in FatesOrDoubled(o), ~Doubled, f.reply, o.decision \in {"Won", "Proposed"}
  PROVE  f.row = o.authority
  BY DEF FatesOrDoubled, Fates, Stored, Writes

LEMMA GoodRowNow ==
  ASSUME IInv, row # None
  PROVE  GoodRow(row) /\ row.status # "FAILED" /\ row \in IncidentAuthority
  BY DEF IInv, TypeOK, RowOK, Sane, GoodRow

LEMMA RowStep ==
  ASSUME IInv, row # None, NEW q, Follows(row, q), row' \in {row, q}, key' = key, job' = job,
         q.status = "CLOSED" => row.status = "CLOSED" \/ ~key,
         q.effect_start_id # None => row.effect_start_id # None \/ Past
  PROVE  /\ WorldMoves /\ RowOK' /\ row' # None
         /\ row' \in IncidentAuthority /\ valid_shape(row') /\ row'.status # "FAILED"
<1>1. GoodRow(row) /\ row.status # "FAILED" /\ row \in IncidentAuthority
  BY GoodRowNow
<1>2. q \in IncidentAuthority /\ q # None
  BY AssumptionsHold DEF Follows, GoodRow, Assumptions
<1>3. Follows(row, row')
  BY <1>1 DEF Follows, Advances
<1>4. WorldMoves
  BY <1>2, <1>3 DEF WorldMoves, RowMoves, KeyFalls, JobMoves, Follows, Past
<1>5. RowOK'
  <2>1. Sane(row') /\ (row'.status = "CLOSED" => ~key') /\ (row'.effect_start_id # None => Past')
    BY <1>3 DEF IInv, RowOK, Sane, Follows, GoodRow, Past
  <2>2. Sane(row)' <=> Sane(row')
    BY DEF Sane, valid_shape, StatusShape, NoEffect, Started
  <2> QED  BY <2>1, <2>2 DEF RowOK
<1> QED  BY <1>1, <1>2, <1>3, <1>4, <1>5 DEF Follows, GoodRow

LEMMA IdleStep ==
  ASSUME IInv, row # None, NEW q, Idles(row, q), row' \in {row, q}, key' = key, job' = job
  PROVE  /\ WorldMoves /\ RowOK' /\ row' # None
         /\ row' \in IncidentAuthority /\ valid_shape(row') /\ row'.status # "FAILED"
  BY RowStep DEF Idles

----------------------------------------------------------------------------
(* The coordinator.                                                         *)

LEMMA ThreadKeeps ==
  ASSUME IInv, NEW t \in Thread, NEW s \in ThreadState, Becomes(t, s), Rests(s)', WorldMoves,
         row' = row \/ (RowOK' /\ row' \in IncidentAuthority),
         job' = job \/ (job' \in Job /\ JobOK' /\ (~Doubled => JobTold')),
         retired' = retired \/ (retired' = TRUE /\ RetiredOK'),
         key' = key, worker' = worker, child' = child, result' = result
  PROVE  IInv'
<1>1. /\ thread' \in [Thread -> ThreadState] /\ thread'[t] = s
      /\ \A u \in Thread : u # t => thread'[u] = thread[u]
  BY DEF IInv, TypeOK, Becomes
<1>2. TypeOK'
  BY <1>1 DEF IInv, TypeOK
<1>3. ASSUME NEW u \in Thread
      PROVE  thread'[u] = thread[u] \/ Rests(thread[u])'
  <2>1. CASE u = t
    BY <1>1, <2>1 DEF Rests
  <2> QED  BY <1>1, <2>1
<1> QED  BY <1>2, <1>3, Keeps

LEMMA IdleThreadRests ==
  IdleThread \in ThreadState /\ IdleThread.pc = "idle"
  BY DEF IdleThread, ThreadState, JobState

\* A run that ends, whatever it knew, rests on nothing.
LEMMA EndKeeps ==
  ASSUME IInv, NEW t \in Thread, Becomes(t, IdleThread), WorldMoves,
         row' = row \/ (RowOK' /\ row' \in IncidentAuthority),
         job' = job \/ (job' \in Job /\ JobOK' /\ (~Doubled => JobTold')),
         retired' = retired \/ (retired' = TRUE /\ RetiredOK'),
         key' = key, worker' = worker, child' = child, result' = result
  PROVE  IInv'
<1>1. PICK s \in ThreadState : s = IdleThread /\ s.pc = "idle"
  BY IdleThreadRests
<1>2. Rests(s)'
  BY <1>1 DEF Rests
<1> QED  BY <1>1, <1>2, ThreadKeeps

LEMMA LookKeeps ==
  ASSUME IInv, NEW t \in Thread, look(t)
  PROVE  IInv'
<1> DEFINE s0 == [IdleThread EXCEPT !.pc = "get", !.local = job.state]
<1>0. s0 \in ThreadState /\ s0.pc = "get" /\ s0.local = job.state
  BY IdleThreadRests DEF IInv, TypeOK, Job, ThreadState
<1>1. PICK s \in ThreadState : Becomes(t, s) /\ s.pc = "get" /\ s.local = job.state
  BY <1>0 DEF look
<1>2. Rests(s)'
  BY <1>1 DEF look, Rests, IInv, JobOK
<1>3. WorldMoves
  BY StillWorld DEF look
<1> QED  BY <1>1, <1>2, <1>3, ThreadKeeps DEF look

\* A readback of the row, from which the run goes on.
LEMMA ObservedKeeps ==
  ASSUME IInv, NEW t \in Thread, thread[t].pc \in {"get", "reread"}, row # None, Observed(t, row),
         UNCHANGED <<row, key, job, worker, child, result, retired>>
  PROVE  IInv'
<1>1. row \in IncidentAuthority /\ Sane(row)
  BY GoodRowNow DEF GoodRow, Sane
<1>2. thread[t] \in ThreadState /\ Rests(thread[t])
  BY DEF IInv, TypeOK, ThreadOK
<1>3. Dangerous(row) => row.effect_start_id # None
  BY <1>1 DEF Dangerous, Sane, valid_shape, StatusShape, Started
<1>4. row.effect_start_id # None => Dangerous(row)
  BY DEF Dangerous
<1>5. row.status = "ACTIVE" => ~Dangerous(row)
  BY <1>1 DEF Dangerous, Sane, valid_shape, StatusShape, NoEffect
<1>6. PICK s \in ThreadState :
        /\ Becomes(t, s) /\ s.local = thread[t].local /\ s.seen = row /\ s.dangerous = Dangerous(row)
        /\ s.pc = IF row.status = "ACTIVE" /\ ~Blocked(t) THEN "reserve" ELSE "update"
  <2> DEFINE pc == IF row.status = "ACTIVE" /\ ~Blocked(t) THEN "reserve" ELSE "update"
             s0 == [thread[t] EXCEPT !.pc = pc, !.seen = row, !.dangerous = Dangerous(row)]
  <2>1. Dangerous(row) \in BOOLEAN /\ pc \in {"reserve", "update"}
    BY DEF Dangerous
  <2>2. s0 \in ThreadState /\ s0.local = thread[t].local /\ s0.seen = row /\ s0.dangerous = Dangerous(row) /\ s0.pc = pc
    BY <1>1, <1>2, <2>1 DEF ThreadState
  <2>3. Becomes(t, s0)
    BY DEF Observed, Seen
  <2> QED  BY <2>2, <2>3
<1>7. thread[t].local # "PENDING" => row.status # "ACTIVE"
  BY <1>2 DEF Rests
<1>8. Rests(s)'
  <2>1. Advances(s.seen, row)' /\ Sane(s.seen)'
    BY <1>1, <1>6 DEF Advances, Sane, valid_shape, StatusShape, NoEffect, Started
  <2> QED  BY <1>3, <1>4, <1>5, <1>6, <1>7, <2>1, AssumptionsHold DEF Rests
<1>9. WorldMoves
  BY StillWorld
<1> QED  BY <1>6, <1>8, <1>9, ThreadKeeps

LEMMA GetKeeps ==
  ASSUME IInv, NEW t \in Thread, get(t)
  PROVE  IInv'
<1>1. CASE row # None /\ Observed(t, row)
  BY <1>1, ObservedKeeps DEF get, In
<1>2. CASE Becomes(t, [thread[t] EXCEPT !.pc = "create"]) \/ Becomes(t, [thread[t] EXCEPT !.pc = "reread"])
  <2>1. thread[t] \in ThreadState /\ Rests(thread[t]) /\ thread[t].pc = "get"
    BY DEF IInv, TypeOK, ThreadOK, get, In
  <2>2. PICK s \in ThreadState : Becomes(t, s) /\ s.pc \in {"create", "reread"} /\ s.local = thread[t].local
    BY <1>2, <2>1 DEF ThreadState
  <2>3. Rests(s)'
    BY <2>1, <2>2 DEF Rests, get
  <2>4. WorldMoves
    BY StillWorld DEF get
  <2>5. UNCHANGED <<row, key, job, worker, child, result, retired>>
    BY DEF get
  <2> QED  BY <2>2, <2>3, <2>4, <2>5, ThreadKeeps
<1> QED  BY <1>1, <1>2 DEF get

LEMMA RereadKeeps ==
  ASSUME IInv, NEW t \in Thread, reread(t)
  PROVE  IInv'
  BY ObservedKeeps DEF reread, In

LEMMA CreateKeeps ==
  ASSUME IInv, NEW t \in Thread, create(t)
  PROVE  IInv'
<1>1. thread[t] \in ThreadState /\ Rests(thread[t]) /\ thread[t].pc = "create"
  BY DEF IInv, TypeOK, ThreadOK, create, In
<1> DEFINE s0 == [thread[t] EXCEPT !.pc = "reread"]
<1>2. s0 \in ThreadState /\ s0.pc = "reread" /\ s0.local = thread[t].local
  BY <1>1 DEF ThreadState
<1>3. PICK s \in ThreadState : Becomes(t, s) /\ s.pc = "reread" /\ s.local = thread[t].local
  BY <1>2 DEF create
<1>4. key' = key /\ job' = job /\ worker' = worker /\ child' = child /\ result' = result /\ retired' = retired
  BY DEF create
<1>5. CASE row' = row
  <2>1. WorldMoves
    BY <1>4, <1>5, StillWorld
  <2>2. Rests(s)'
    BY <1>1, <1>3, <1>5 DEF Rests
  <2> QED  BY <1>3, <1>4, <1>5, <2>1, <2>2, ThreadKeeps
<1>6. CASE /\ row = None
           /\ \E i \in Incident, k \in KeyId, ttl \in MinTtl..MaxTtl, now \in U64 :
                /\ ~CreateDenied(Tenant, Agent, Broker, k, ttl, now)
                /\ row' = build_incident_authority(i, Agent, Broker, k, ttl, now)
  <2>1. PICK i \in Incident, k \in KeyId, ttl \in MinTtl..MaxTtl, now \in U64 :
          /\ ~CreateDenied(Tenant, Agent, Broker, k, ttl, now)
          /\ row' = build_incident_authority(i, Agent, Broker, k, ttl, now)
    BY <1>6
  <2>2. ttl \in Nat
    BY AssumptionsHold DEF Assumptions
  <2>3. GoodRow(build_incident_authority(i, Agent, Broker, k, ttl, now))
    BY <2>1, <2>2, CreateGood
  <2>4. row' \in IncidentAuthority /\ valid_shape(row') /\ row'.status = "ACTIVE" /\ row'.effect_start_id = None
    BY <2>1, <2>3 DEF GoodRow, build_incident_authority
  <2>5. Sane(row)'
    BY <2>4 DEF Sane, valid_shape, StatusShape, NoEffect, Started
  <2>6. RowOK'
    BY <2>4, <2>5 DEF RowOK
  <2>7. WorldMoves
    BY <1>4, <1>6 DEF WorldMoves, RowMoves, KeyFalls, JobMoves, Past
  <2>8. Rests(s)'
    BY <1>1, <1>3, <1>6 DEF Rests
  <2> QED  BY <1>3, <1>4, <2>4, <2>6, <2>7, <2>8, ThreadKeeps
<1> QED  BY <1>5, <1>6 DEF create

LEMMA ReserveKeeps ==
  ASSUME IInv, NEW t \in Thread, reserve_call(t)
  PROVE  IInv'
<1>1. thread[t] \in ThreadState /\ Rests(thread[t]) /\ thread[t].pc = "reserve"
  BY DEF IInv, TypeOK, ThreadOK, reserve_call, In
<1>2. row # None /\ thread[t].local = "PENDING" /\ thread[t].dangerous = FALSE
  BY <1>1 DEF Rests, ThreadState
<1>3. key' = key /\ job' = job /\ worker' = worker /\ child' = child /\ result' = result /\ retired' = retired
  BY DEF reserve_call
<1>4. PICK now, o, f :
        /\ now \in U64 /\ o = reserve(row, Agent, now) /\ f \in Fates(o) /\ row' = f.row
        /\ IF ~f.reply THEN Becomes(t, IdleThread)
           ELSE IF o.decision = "Won" \/ f.row.status = "RESERVED"
           THEN Seen(t, "update", f.row, thread[t].dangerous)
           ELSE Becomes(t, [thread[t] EXCEPT !.pc = "recheck"])
  BY DEF reserve_call
<1>5. row' \in {row, o.authority}
  BY <1>4, FateRow DEF FatesOrDoubled
<1>6. Idles(row, o.authority)
  BY <1>2, <1>4, GoodRowNow, ReserveIdles
<1>7. PICK q : q = o.authority
  OBVIOUS
<1>8. /\ WorldMoves /\ RowOK' /\ row' # None
      /\ row' \in IncidentAuthority /\ valid_shape(row') /\ row'.status # "FAILED"
  BY <1>2, <1>3, <1>5, <1>6, <1>7, IdleStep
<1>9. CASE Becomes(t, IdleThread)
  BY <1>3, <1>8, <1>9, EndKeeps
<1>10. CASE Seen(t, "update", f.row, thread[t].dangerous)
  <2> DEFINE s0 == [thread[t] EXCEPT !.pc = "update", !.seen = f.row, !.dangerous = thread[t].dangerous]
  <2>1. /\ s0 \in ThreadState /\ s0.pc = "update" /\ s0.seen = row'
        /\ s0.local = "PENDING" /\ s0.dangerous = FALSE
    BY <1>1, <1>2, <1>4, <1>8 DEF ThreadState
  <2>2. PICK s \in ThreadState : /\ Becomes(t, s) /\ s.pc = "update" /\ s.seen = row'
                                 /\ s.local = "PENDING" /\ s.dangerous = FALSE
    BY <1>10, <2>1 DEF Seen
  <2>3. Advances(s.seen, row)' /\ Sane(s.seen)'
    BY <1>8, <2>2 DEF Advances, Sane, valid_shape, StatusShape, NoEffect, Started
  <2>4. Rests(s)'
    BY <1>8, <2>2, <2>3 DEF Rests
  <2> QED  BY <1>3, <1>8, <2>2, <2>4, ThreadKeeps
<1>11. CASE Becomes(t, [thread[t] EXCEPT !.pc = "recheck"])
  <2> DEFINE s0 == [thread[t] EXCEPT !.pc = "recheck"]
  <2>1. s0 \in ThreadState /\ s0.pc = "recheck" /\ s0.local = "PENDING" /\ s0.dangerous = FALSE
    BY <1>1, <1>2 DEF ThreadState
  <2>2. PICK s \in ThreadState : Becomes(t, s) /\ s.pc = "recheck" /\ s.local = "PENDING" /\ s.dangerous = FALSE
    BY <1>11, <2>1
  <2>3. Rests(s)'
    BY <1>8, <2>2 DEF Rests
  <2> QED  BY <1>3, <1>8, <2>2, <2>3, ThreadKeeps
<1> QED  BY <1>4, <1>9, <1>10, <1>11

LEMMA RecheckKeeps ==
  ASSUME IInv, NEW t \in Thread, recheck(t)
  PROVE  IInv'
<1>1. thread[t] \in ThreadState /\ Rests(thread[t]) /\ thread[t].pc = "recheck"
  BY DEF IInv, TypeOK, ThreadOK, recheck, In
<1>2. row # None /\ thread[t].local = "PENDING" /\ thread[t].dangerous = FALSE
  BY <1>1 DEF Rests, ThreadState
<1>3. row \in IncidentAuthority /\ valid_shape(row) /\ row.status # "FAILED"
  BY <1>2, GoodRowNow DEF GoodRow
<1>4. /\ row' = row /\ key' = key /\ job' = job /\ worker' = worker /\ child' = child
      /\ result' = result /\ retired' = retired
  BY DEF recheck
<1> DEFINE s0 == [thread[t] EXCEPT !.pc = "update", !.seen = row, !.dangerous = thread[t].dangerous]
<1>5. s0 \in ThreadState /\ s0.pc = "update" /\ s0.seen = row /\ s0.local = "PENDING" /\ s0.dangerous = FALSE
  BY <1>1, <1>2, <1>3 DEF ThreadState
<1>6. PICK s \in ThreadState : /\ Becomes(t, s) /\ s.pc = "update" /\ s.seen = row
                               /\ s.local = "PENDING" /\ s.dangerous = FALSE
  BY <1>5 DEF recheck, Seen
<1>7. Advances(s.seen, row)' /\ Sane(s.seen)'
  BY <1>3, <1>4, <1>6 DEF Advances, Sane, valid_shape, StatusShape, NoEffect, Started
<1>8. s.seen # None
  BY <1>2, <1>6
<1>9. Rests(s)'
  BY <1>2, <1>4, <1>6, <1>7, <1>8 DEF Rests
<1>10. WorldMoves
  BY <1>4, StillWorld
<1> QED  BY <1>4, <1>6, <1>9, <1>10, ThreadKeeps

\* Where a sound readback sends the job.
LEMMA NextStateSound ==
  ASSUME NEW l \in JobState, NEW a \in IncidentAuthority, NEW d \in BOOLEAN, NEW s, s = NextState(l, a, d),
         Sane(a), l # "PENDING" => a.status # "ACTIVE", d => a.effect_start_id # None
  PROVE  /\ s \in JobState
         /\ s # "PENDING" => a.status # "ACTIVE"
         /\ s = "FAILED" => a.status = "EXPIRED"
         /\ s = "CLOSED" => a.status = "CLOSED" /\ a.effect_start_id # None
         /\ s = "RECONCILE_REQUIRED" => a.effect_start_id # None
         /\ (l # "PENDING" /\ a.effect_start_id # None => d) /\ a.effect_start_id # None
              => s \in Settling \cup {"HANDOFF_READY"}
<1>1. CASE a.status = "CLOSED"
  <2>1. s = "CLOSED"
    BY <1>1 DEF NextState
  <2>2. a.effect_start_id # None
    BY <1>1 DEF Sane, valid_shape, StatusShape, Started
  <2> QED  BY <1>1, <2>1, <2>2 DEF JobState, Settling
<1>2. CASE a.status = "EXPIRED"
  <2>1. s \in {"STATE_CONFLICT", "FAILED"}
    BY <1>2 DEF NextState
  <2>2. a.effect_start_id = None
    BY <1>2 DEF Sane, valid_shape, StatusShape, NoEffect
  <2> QED  BY <1>2, <2>1, <2>2 DEF JobState, Settling
<1>3. CASE a.status \notin {"CLOSED", "EXPIRED"} /\ d
  <2>1. a.status # "FAILED"
    BY DEF Sane
  <2>2. s = "RECONCILE_REQUIRED"
    BY <1>3, <2>1 DEF NextState
  <2>3. a.status # "ACTIVE"
    BY <1>3 DEF Sane, valid_shape, StatusShape, NoEffect
  <2> QED  BY <1>3, <2>2, <2>3 DEF JobState, Settling
<1>4. CASE a.status = "ACTIVE" /\ ~d
  <2>1. s = "PENDING"
    BY <1>4 DEF NextState
  <2>2. a.effect_start_id = None
    BY <1>4 DEF Sane, valid_shape, StatusShape, NoEffect
  <2> QED  BY <1>4, <2>1, <2>2 DEF JobState, Settling
<1>5. CASE a.status \notin {"ACTIVE", "CLOSED", "EXPIRED"} /\ ~d
  <2>1. a.status # "FAILED"
    BY DEF Sane
  <2>2. s = IF l \in {"CLOSED", "FAILED", "STATE_CONFLICT"} THEN "STATE_CONFLICT"
            ELSE IF l \in {"PROCESSING", "RETRY_READY"} THEN "RETRY_READY" ELSE "HANDOFF_READY"
    BY <1>5, <2>1 DEF NextState
  <2> QED  BY <1>5, <2>2 DEF JobState, Settling
<1> QED  BY <1>1, <1>2, <1>3, <1>4, <1>5

\* ... and a permitted update from it is sound.
LEMMA ObservedSound ==
  ASSUME IInv, NEW t \in Thread, thread[t].pc = "update", NEW s, NEW allow \in BOOLEAN,
         s = NextState(thread[t].local, thread[t].seen, thread[t].dangerous),
         Permitted(s, allow), job' = ObservedJob(s, thread[t].seen), row' = row, key' = key
  PROVE  /\ job' \in Job /\ job'.state = s /\ WorldMoves /\ JobOK' /\ (~Doubled => JobTold')
         /\ thread[t].seen.status = "CLOSED" => row.status = "CLOSED" /\ job'.state = "CLOSED"
<1>1. thread[t] \in ThreadState /\ Rests(thread[t])
  BY DEF IInv, TypeOK, ThreadOK
<1>2. PICK a \in IncidentAuthority, l \in JobState, d \in BOOLEAN :
        a = thread[t].seen /\ l = thread[t].local /\ d = thread[t].dangerous
  BY <1>1 DEF Rests, ThreadState
<1>3. /\ row # None /\ Sane(a) /\ Advances(a, row)
      /\ l # "PENDING" => a.status # "ACTIVE"
      /\ d => a.effect_start_id # None
      /\ l # "PENDING" /\ a.effect_start_id # None => d
  BY <1>1, <1>2 DEF Rests
<1>4. /\ s \in JobState
      /\ s # "PENDING" => a.status # "ACTIVE"
      /\ s = "FAILED" => a.status = "EXPIRED"
      /\ s = "CLOSED" => a.status = "CLOSED" /\ a.effect_start_id # None
      /\ s = "RECONCILE_REQUIRED" => a.effect_start_id # None
      /\ a.effect_start_id # None => s \in Settling \cup {"HANDOFF_READY"}
  BY <1>2, <1>3, NextStateSound
<1>5. /\ job'.state = s /\ job'.claim_id = a.effect_claim_id /\ job'.start_id = a.effect_start_id
      /\ job' \in Job
  <2>1. NewHandoff \in HandoffId
    BY HandoffAssumption DEF NewHandoff, IInv, TypeOK, Worker
  <2> QED  BY <1>2, <1>4, <2>1 DEF ObservedJob, Job, IncidentAuthority
<1>6. row \in IncidentAuthority /\ Sane(row) /\ (row.status = "CLOSED" => ~key)
  BY <1>3, GoodRowNow DEF IInv, RowOK
<1>7. job.state \in JobState
  BY DEF IInv, TypeOK, Job
<1>8. JobMoves
  BY <1>3, <1>4, <1>5, <1>6, <1>7, TransitionMoves DEF Permitted, Advances
<1>9. WorldMoves
  BY <1>8 DEF WorldMoves, RowMoves, KeyFalls, Advances
<1>10. JobOK'
  BY <1>3, <1>4, <1>5, <1>6 DEF JobOK, Advances
<1>11. ~Doubled => JobTold'
  <2>1. a.effect_start_id # None => row.effect_start_id = a.effect_start_id /\ row.effect_claim_id = a.effect_claim_id
    BY <1>3 DEF Advances
  <2>2. a.effect_start_id # None => s # "HANDOFF_READY"
    BY <2>1, <1>3, <1>5, <1>7 DEF IInv, RowOK, Past, Permitted, canTransition, Successors, JobState
  <2> QED  BY <1>3, <1>4, <1>5, <2>1, <2>2 DEF JobTold, IsStart, HasStarted
<1>12. a.status = "CLOSED" => row.status = "CLOSED" /\ s = "CLOSED"
  BY <1>2, <1>3 DEF Advances, NextState
<1> QED  BY <1>2, <1>5, <1>9, <1>10, <1>11, <1>12

LEMMA UpdateKeeps ==
  ASSUME IInv, NEW t \in Thread, update(t)
  PROVE  IInv'
<1>a. PICK s : s = NextState(thread[t].local, thread[t].seen, thread[t].dangerous)
  OBVIOUS
<1>b. PICK allow \in BOOLEAN : allow = (s = "STATE_CONFLICT" \/ thread[t].local = "STATE_CONFLICT")
  OBVIOUS
<1>1. IF Permitted(s, allow)
      THEN /\ job' = ObservedJob(s, thread[t].seen)
           /\ Becomes(t, IF thread[t].seen.status = "CLOSED" THEN [IdleThread EXCEPT !.pc = "retire"] ELSE IdleThread)
      ELSE Becomes(t, IdleThread) /\ job' = job
  BY <1>a, <1>b, Zenon DEF update
<1>2. /\ row' = row /\ key' = key /\ worker' = worker /\ child' = child /\ result' = result
      /\ retired' = retired /\ thread[t].pc = "update"
  BY DEF update, In
<1>3. CASE ~Permitted(s, allow)
  <2>1. WorldMoves
    BY <1>1, <1>2, <1>3, StillWorld
  <2> QED  BY <1>1, <1>2, <1>3, <2>1, EndKeeps
<1>4. CASE Permitted(s, allow)
  <2>1. /\ job' \in Job /\ job'.state = s /\ WorldMoves /\ JobOK' /\ (~Doubled => JobTold')
        /\ thread[t].seen.status = "CLOSED" => row.status = "CLOSED" /\ job'.state = "CLOSED"
    BY <1>a, <1>1, <1>2, <1>4, ObservedSound
  <2>2. CASE thread[t].seen.status # "CLOSED"
    BY <1>1, <1>2, <1>4, <2>1, <2>2, EndKeeps
  <2>3. CASE thread[t].seen.status = "CLOSED"
    <3> DEFINE s0 == [IdleThread EXCEPT !.pc = "retire"]
    <3>1. s0 \in ThreadState /\ s0.pc = "retire" /\ s0.local = "PENDING"
      BY DEF IdleThread, ThreadState, JobState
    <3>2. PICK r \in ThreadState : Becomes(t, r) /\ r.pc = "retire" /\ r.local = "PENDING"
      BY <1>1, <1>4, <2>3, <3>1
    <3>3. row # None
      BY <1>2 DEF IInv, ThreadOK, Rests
    <3>4. Rests(r)'
      BY <1>2, <2>1, <2>3, <3>2, <3>3 DEF Rests, Settling
    <3> QED  BY <1>2, <2>1, <3>2, <3>4, ThreadKeeps
  <2> QED  BY <2>2, <2>3
<1> QED  BY <1>3, <1>4

LEMMA RetireKeeps ==
  ASSUME IInv, NEW t \in Thread, retire(t)
  PROVE  IInv'
<1>1. /\ row' = row /\ key' = key /\ job' = job /\ worker' = worker /\ child' = child /\ result' = result
      /\ retired' = TRUE /\ thread[t].pc = "retire" /\ Becomes(t, IdleThread)
  BY DEF retire, In
<1>2. row # None /\ row.status = "CLOSED" /\ job.state \in Settling
  BY <1>1 DEF IInv, ThreadOK, Rests
<1>3. RetiredOK'
  BY <1>1, <1>2 DEF RetiredOK
<1>4. WorldMoves
  BY <1>1, StillWorld
<1> QED  BY <1>1, <1>3, <1>4, EndKeeps

LEMMA FailKeeps ==
  ASSUME IInv, NEW t \in Thread, fail(t)
  PROVE  IInv'
<1>1. /\ row' = row /\ key' = key /\ job' = job /\ worker' = worker /\ child' = child /\ result' = result
      /\ retired' = retired /\ Becomes(t, IdleThread)
  BY DEF fail
<1>2. WorldMoves
  BY <1>1, StillWorld
<1> QED  BY <1>1, <1>2, EndKeeps

----------------------------------------------------------------------------
(* The worker.                                                              *)

LEMMA WorkerKeeps ==
  ASSUME IInv, WorldMoves, worker' \in Worker, WorkerOK', ~Doubled => WorkerTold',
         row' = row \/ (RowOK' /\ row' \in IncidentAuthority),
         job' = job \/ (job' \in Job /\ JobOK' /\ (~Doubled => JobTold')),
         child' = child, result' = result,
         key' = key, thread' = thread, retired' = retired
  PROVE  IInv'
<1>1. TypeOK'
  BY DEF IInv, TypeOK
<1> QED  BY <1>1, Keeps

LEMMA IdleWorkerTyped ==
  /\ IdleWorker \in Worker /\ IdleWorker.pc = "idle" /\ IdleWorker.start_id = None /\ IdleWorker.absent = FALSE
  /\ IdleWorker.child = None
<1>1. 0 \in U64
  BY WidthAssumption DEF U64
<1> QED  BY <1>1 DEF IdleWorker, Worker

\* A worker at rest knows nothing.
LEMMA RestKeeps ==
  ASSUME IInv, WorldMoves, worker' = IdleWorker,
         row' = row \/ (RowOK' /\ row' \in IncidentAuthority),
         job' = job \/ (job' \in Job /\ JobOK' /\ (~Doubled => JobTold')),
         child' = child, result' = result,
         key' = key, thread' = thread, retired' = retired
  PROVE  IInv'
<1>1. worker' \in Worker /\ WorkerOK' /\ WorkerTold'
  BY IdleWorkerTyped DEF WorkerOK, WorkerTold
<1> QED  BY <1>1, WorkerKeeps

\* The job keeps its state and identities.
LEMMA JobSame ==
  ASSUME IInv, job' \in Job, job'.state = job.state, job'.claim_id = job.claim_id,
         job'.start_id = job.start_id, row' = row, key' = key
  PROVE  WorldMoves /\ JobOK' /\ (~Doubled => JobTold')
<1>1. WorldMoves
  BY DEF WorldMoves, RowMoves, KeyFalls, JobMoves, Advances, Past
<1>2. JobOK'
  BY DEF IInv, JobOK
<1>3. ~Doubled => JobTold'
  BY DEF IInv, Committed, JobTold, IsStart, HasStarted
<1> QED  BY <1>1, <1>2, <1>3

\* The worker changes the state and nothing else.
LEMMA StateSound ==
  ASSUME IInv, NEW s \in {"STATE_CONFLICT", "PROCESSING", "RETRY_READY"}, NEW allow \in BOOLEAN,
         Permitted(s, allow), job.state # "PENDING", job' = [job EXCEPT !.state = s], row' = row, key' = key
  PROVE  job' \in Job /\ job'.state = s /\ WorldMoves /\ JobOK' /\ (~Doubled => JobTold')
<1>1. job \in Job /\ job.state \in JobState
  BY DEF IInv, TypeOK, Job
<1>2. /\ job' \in Job /\ job'.state = s /\ s \in JobState
      /\ job'.claim_id = job.claim_id /\ job'.start_id = job.start_id
  BY <1>1 DEF Job, JobState
<1>3. row # None => Sane(row)
  BY DEF IInv, RowOK
<1>4. JobMoves
  BY <1>1, <1>2, <1>3, TransitionMoves DEF Permitted
<1>5. WorldMoves
  BY <1>4 DEF WorldMoves, RowMoves, KeyFalls, Advances
<1>6. JobOK'
  BY <1>2 DEF IInv, JobOK
<1>7. ~Doubled => JobTold'
  BY <1>1, <1>2 DEF IInv, Committed, JobTold, IsStart, HasStarted, Permitted, canTransition, Successors,
     JobState, Settling
<1> QED  BY <1>2, <1>5, <1>6, <1>7

LEMMA ConflictKeeps ==
  ASSUME IInv, Conflict, job.state # "PENDING", row' = row, key' = key, thread' = thread, worker' = worker,
         child' = child, result' = result, retired' = retired
  PROVE  IInv'
<1>1. CASE Permitted("STATE_CONFLICT", TRUE)
  <2>1. job' = [job EXCEPT !.state = "STATE_CONFLICT"]
    BY <1>1 DEF Conflict
  <2>2. job' \in Job /\ WorldMoves /\ JobOK' /\ (~Doubled => JobTold')
    BY <1>1, <2>1, StateSound
  <2>3. TypeOK'
    BY <2>2 DEF IInv, TypeOK
  <2> QED  BY <2>2, <2>3, Keeps
<1>2. CASE ~Permitted("STATE_CONFLICT", TRUE)
  <2>1. job' = job
    BY <1>2 DEF Conflict
  <2>2. WorldMoves /\ TypeOK'
    BY <2>1, StillWorld DEF IInv, TypeOK
  <2> QED  BY <2>1, <2>2, Keeps
<1> QED  BY <1>1, <1>2

\* take and rtake: the job was offered, so its past is as the pc requires.
LEMMA TakeKeeps ==
  ASSUME IInv, take \/ rtake
  PROVE  IInv'
<1>1. /\ row' = row /\ key' = key /\ thread' = thread /\ child' = child /\ result' = result /\ retired' = retired
      /\ job.state # "PENDING"
  BY DEF take, rtake
<1>2. CASE Conflict /\ worker' = worker
  BY <1>1, <1>2, ConflictKeeps
<1>3. CASE /\ \/ Work([IdleWorker EXCEPT !.pc = "consume", !.handoff = job.handoff])
              \/ /\ Work([IdleWorker EXCEPT !.pc = "rconsume", !.handoff = job.handoff])
                 /\ job.state = "RECONCILE_REQUIRED"
           /\ job' = job
  <2>1. job.handoff \in HandoffId \cup {None}
    BY DEF IInv, TypeOK, Job
  <2>2. /\ worker' \in Worker /\ worker'.start_id = None /\ worker'.absent = FALSE
        /\ worker'.pc = "consume" \/ (worker'.pc = "rconsume" /\ job.state = "RECONCILE_REQUIRED")
    BY <1>3, <2>1, IdleWorkerTyped DEF Work, Worker
  <2>3. WorkerOK'
    BY <1>1, <1>3, <2>2 DEF WorkerOK, Past
  <2>4. ~Doubled => WorkerTold'
    BY <1>1, <1>3, <2>2 DEF IInv, Committed, JobTold, WorkerTold, HasStarted, Settling
  <2>5. WorldMoves
    BY <1>1, <1>3, StillWorld
  <2> QED  BY <1>1, <1>3, <2>2, <2>3, <2>4, <2>5, WorkerKeeps
<1> QED  BY <1>2, <1>3 DEF take, rtake

\* A child is started, or given up, with job j, which the worker has just written.
LEMMA AttemptKeeps ==
  ASSUME IInv, NEW j \in Job, job' = j, WorldMoves, JobOK', ~Doubled => JobTold', Past', NEW first \in BOOLEAN,
         Attempt(j, first), row' = row, key' = key, thread' = thread, retired' = retired
  PROVE  IInv'
<1>1. result' = None
  BY DEF Attempt
<1>2. ASSUME NEW pc \in {"wait", "defer"}, NEW w, w = [Holding(j, pc) EXCEPT !.first = first]
      PROVE  /\ w \in Worker /\ w.pc = pc /\ w.start_id = j.start_id /\ w.absent = FALSE /\ w.child = None
  BY <1>2, IdleWorkerTyped DEF Holding, IdleWorker, Worker, Job
<1>3. ASSUME worker' \in Worker, worker'.pc \in {"wait", "defer"}, worker'.start_id = j.start_id,
             worker'.absent = FALSE, worker'.pc = "wait" => worker'.child # None
      PROVE  WorkerOK' /\ (~Doubled => WorkerTold')
  BY <1>3 DEF WorkerOK, Past, WorkerTold, JobTold, IsStart, HasStarted
<1>4. CASE \E c \in Child : Spawn(c, j, first)
  <2>1. PICK c \in Child : Spawn(c, j, first)
    BY <1>4
  <2>2. PICK w : w = [Holding(j, "wait") EXCEPT !.first = first]
    OBVIOUS
  <2>3. worker' = [w EXCEPT !.child = c]
    BY <2>1, <2>2, IdleWorkerTyped DEF Spawn, Work, Holding, IdleWorker
  <2>a. w \in Worker /\ w.pc = "wait" /\ w.start_id = j.start_id /\ w.absent = FALSE
    BY <1>2, <2>2
  <2>4. /\ worker' \in Worker /\ worker'.pc = "wait" /\ worker'.start_id = j.start_id
        /\ worker'.absent = FALSE /\ worker'.child # None
    BY <2>3, <2>a, NonceAssumption DEF Worker, Child
  <2>5. WorkerOK' /\ (~Doubled => WorkerTold')
    BY <1>3, <2>4
  <2>6. PICK s \in ChildState : /\ child' = [child EXCEPT ![c] = s] /\ s.pc \in {"begin", "claim"}
                                /\ s.start = None /\ s.closed = FALSE
    <3> DEFINE existing == j.remote_state = "EFFECT_CLAIMED" /\ Identified(j)
               s0 == Launched(j.claim_version, IF existing THEN j.claim_id ELSE None)
    <3>1. s0 \in ChildState /\ s0.pc \in {"begin", "claim"} /\ s0.start = None /\ s0.closed = FALSE
      BY DEF Launched, Off, ChildState, Calling, Job
    <3> QED  BY <2>1, <3>1 DEF Spawn
  <2>7. ASSUME NEW d \in Child
        PROVE  \/ child'[d] = child[d]
               \/ (ChildSound(child[d])' /\ (~Doubled => ChildSays(child[d])'))
    <3>1. CASE d = c
      <4>1. child'[d] = s
        BY <2>6, <3>1 DEF IInv, TypeOK
      <4> QED  BY <2>6, <4>1 DEF ChildSound, ChildSays, Underway
    <3> QED  BY <2>6, <3>1 DEF IInv, TypeOK
  <2>8. TypeOK'
    BY <1>1, <2>4, <2>6 DEF IInv, TypeOK
  <2> QED  BY <1>1, <2>5, <2>7, <2>8, Keeps DEF ResultOK, ResultTold
<1>5. CASE Work([Holding(j, "defer") EXCEPT !.first = first]) /\ child' = child
  <2>1. /\ worker' \in Worker /\ worker'.pc = "defer" /\ worker'.start_id = j.start_id
        /\ worker'.absent = FALSE
    BY <1>2, <1>5 DEF Work
  <2>2. WorkerOK' /\ (~Doubled => WorkerTold')
    BY <1>3, <2>1
  <2>3. TypeOK'
    BY <1>1, <1>5, <2>1 DEF IInv, TypeOK
  <2> QED  BY <1>1, <1>5, <2>2, <2>3, Keeps DEF ResultOK, ResultTold
<1> QED  BY <1>4, <1>5 DEF Attempt

LEMMA ConsumedSame ==
  ASSUME IInv
  PROVE  /\ Consumed \in Job /\ Consumed.state = job.state
         /\ Consumed.claim_id = job.claim_id /\ Consumed.start_id = job.start_id
  BY DEF IInv, TypeOK, Consumed, Job, Worker

LEMMA ConsumeKeeps ==
  ASSUME IInv, consume
  PROVE  IInv'
<1>1. /\ row' = row /\ key' = key /\ thread' = thread /\ retired' = retired
      /\ worker.pc = "consume" /\ job' = Consumed
  BY DEF consume
<1>2. job' \in Job /\ job'.state = job.state /\ WorldMoves /\ JobOK' /\ (~Doubled => JobTold')
  BY <1>1, ConsumedSame, JobSame
<1>3. job.state # "PENDING"
  BY <1>1 DEF IInv, WorkerOK
<1>4. CASE job.state = "HANDOFF_READY" /\ Work([IdleWorker EXCEPT !.pc = "mark"]) /\ child' = child /\ result' = result
  <2>1. worker' \in Worker /\ worker'.pc = "mark" /\ worker'.start_id = None /\ worker'.absent = FALSE
    BY <1>4, IdleWorkerTyped DEF Work, Worker
  <2>2. WorkerOK' /\ WorkerTold'
    BY <1>2, <1>3, <2>1 DEF WorkerOK, WorkerTold
  <2> QED  BY <1>1, <1>2, <1>4, <2>1, <2>2, WorkerKeeps
<1>5. CASE job.state # "HANDOFF_READY" /\ Attempt(Consumed, FALSE)
  <2>1. Past'
    BY <1>2, <1>3, <1>5 DEF Past
  <2>2. PICK j \in Job : j = Consumed
    BY ConsumedSame
  <2>3. Attempt(j, FALSE)
    BY <1>5, <2>2
  <2> QED  BY <1>1, <1>2, <2>1, <2>2, <2>3, AttemptKeeps
<1> QED  BY <1>4, <1>5 DEF consume

LEMMA MarkKeeps ==
  ASSUME IInv, mark
  PROVE  IInv'
<1>1. row' = row /\ key' = key /\ thread' = thread /\ retired' = retired /\ worker.pc = "mark"
  BY DEF mark
<1>2. job.state # "PENDING"
  BY <1>1 DEF IInv, WorkerOK
<1>3. CASE Permitted("PROCESSING", FALSE)
  <2>1. PICK j : j = [job EXCEPT !.state = "PROCESSING"]
    OBVIOUS
  <2>2. job' = j /\ Attempt(j, TRUE)
    BY <1>3, <2>1 DEF mark
  <2>3. job' \in Job /\ job'.state = "PROCESSING" /\ WorldMoves /\ JobOK' /\ (~Doubled => JobTold')
    BY <1>1, <1>2, <1>3, <2>1, <2>2, StateSound
  <2>4. Past' /\ j \in Job
    BY <2>2, <2>3 DEF Past
  <2> QED  BY <1>1, <2>2, <2>3, <2>4, AttemptKeeps
<1>4. CASE ~Permitted("PROCESSING", FALSE)
  <2>1. worker' = IdleWorker /\ job' = job /\ child' = child /\ result' = result
    BY <1>4 DEF mark, Work
  <2>2. WorldMoves
    BY <1>1, <2>1, StillWorld
  <2> QED  BY <1>1, <2>1, <2>2, RestKeeps
<1> QED  BY <1>3, <1>4

\* A child's result is recorded in a job that has left its first attempt behind.
LEMMA CollectKeeps ==
  ASSUME IInv, collect
  PROVE  IInv'
<1>1. /\ row' = row /\ key' = key /\ thread' = thread /\ child' = child /\ result' = result /\ retired' = retired
      /\ worker.pc = "wait" /\ worker \in Worker
  BY DEF collect, IInv, TypeOK
<1>2. CASE result # None /\ Permitted(ResultState(result), FALSE)
  <2>1. job' = Collected(result) /\ worker' = IdleWorker
    BY <1>2 DEF collect, Work
  <2>2. result \in Result /\ job \in Job
    BY <1>2 DEF IInv, TypeOK
  <2> DEFINE s == ResultState(result)
  <2>3. s \in {"CLOSED", "RECONCILE_REQUIRED", "RETRY_READY"} /\ s \in JobState
    BY DEF ResultState, JobState
  <2>4. /\ job' \in Job /\ job'.state = s /\ job'.claim_id = Or(result.claim, worker.claim_id)
        /\ job'.start_id = Or(result.start, worker.start_id)
    <3>1. result.claim # None => result.claim.version \in U64
      BY <2>2 DEF Result, StateId
    <3>2. worker.claim_version \in U64
      BY <1>1 DEF Worker
    <3>3. (IF result.claim # None THEN result.claim.version ELSE worker.claim_version) \in U64
      BY <3>1, <3>2
    <3>4. Or(result.claim, worker.claim_id) \in StateId \cup {None}
      BY <1>1, <2>2 DEF Or, Result, Worker
    <3>5. Or(result.start, worker.start_id) \in StateId \cup {None}
      BY <1>1, <2>2 DEF Or, Result, Worker
    <3> HIDE DEF s
    <3> QED  BY <2>1, <2>2, <2>3, <3>3, <3>4, <3>5 DEF Collected, Job, s
  <2>5. job.state # "PENDING" /\ job.state \in JobState
    BY <1>1, <2>2 DEF IInv, WorkerOK, Job
  <2>6. row # None /\ row.status # "ACTIVE" /\ Sane(row)
    BY <2>5 DEF IInv, JobOK, RowOK
  <2>7. JobMoves
    BY <1>2, <2>3, <2>4, <2>5, <2>6, TransitionMoves DEF Permitted
  <2>8. WorldMoves
    BY <1>1, <2>7 DEF WorldMoves, RowMoves, KeyFalls, Advances
  <2>9. s = "CLOSED" => ~key
    BY <1>2 DEF ResultState, IInv, ResultOK
  <2>10. JobOK'
    BY <1>1, <2>3, <2>4, <2>6, <2>9 DEF JobOK
  <2>11. ASSUME ~Doubled PROVE JobTold'
    <3>1. /\ result.start # None => IsStart(result.claim, result.start)
          /\ worker.start_id # None => HasStarted /\ job.state \in Settling
      BY <1>2, <2>11 DEF IInv, Committed, ResultTold, WorkerTold
    <3>2. CASE result.start # None
      <4>1. result.claim # None
        BY <2>6, <3>1, <3>2 DEF IsStart, Sane, valid_shape, StatusShape, NoEffect, Started, GoodRow, Status,
           IInv, TypeOK, IncidentAuthority
      <4>2. job'.claim_id = result.claim /\ job'.start_id = result.start
        BY <2>4, <3>2, <4>1 DEF Or
      <4>3. s \in {"CLOSED", "RECONCILE_REQUIRED"}
        BY <3>2 DEF ResultState
      <4> QED  BY <1>1, <2>4, <3>1, <3>2, <4>2, <4>3 DEF JobTold, IsStart, HasStarted, Settling
    <3>3. CASE result.start = None
      <4>1. s = "RETRY_READY"
        BY <1>2, <3>3 DEF ResultState, IInv, ResultOK
      <4>2. job.state \notin Settling
        BY <1>2, <2>5, <4>1 DEF Permitted, canTransition, Successors, Settling, JobState
      <4>3. job'.start_id = None
        BY <2>4, <3>1, <3>3, <4>2 DEF Or
      <4> QED  BY <2>4, <4>1, <4>3 DEF JobTold
    <3> QED  BY <3>2, <3>3
  <2> QED  BY <1>1, <2>1, <2>4, <2>8, <2>10, <2>11, RestKeeps
<1>3. CASE ~(result # None /\ Permitted(ResultState(result), FALSE))
  <2>1. worker' = [worker EXCEPT !.pc = "defer"] /\ job' = job
    BY <1>3 DEF collect, Work
  <2>2. /\ worker' \in Worker /\ worker'.pc = "defer" /\ worker'.start_id = worker.start_id
        /\ worker'.absent = worker.absent
    BY <1>1, <2>1 DEF Worker
  <2>3. WorkerOK'
    BY <1>1, <2>1, <2>2 DEF IInv, WorkerOK, Past
  <2>4. ~Doubled => WorkerTold'
    BY <1>1, <2>1, <2>2 DEF IInv, Committed, WorkerTold, HasStarted
  <2>5. WorldMoves
    BY <1>1, <2>1, StillWorld
  <2> QED  BY <1>1, <2>1, <2>2, <2>3, <2>4, <2>5, WorkerKeeps
<1> QED  BY <1>2, <1>3

LEMMA DeferKeeps ==
  ASSUME IInv, defer
  PROVE  IInv'
<1>1. /\ row' = row /\ key' = key /\ thread' = thread /\ child' = child /\ result' = result /\ retired' = retired
      /\ worker.pc = "defer" /\ worker' = IdleWorker
  BY DEF defer, Work
<1>2. job.state # "PENDING"
  BY <1>1 DEF IInv, WorkerOK
<1>3. PICK s \in {"STATE_CONFLICT", "PROCESSING", "RETRY_READY"} :
        job' = IF Permitted(s, FALSE) THEN [job EXCEPT !.state = s] ELSE job
  BY DEF defer
<1>4. CASE Permitted(s, FALSE)
  <2>1. job' \in Job /\ WorldMoves /\ JobOK' /\ (~Doubled => JobTold')
    BY <1>1, <1>2, <1>3, <1>4, StateSound
  <2> QED  BY <1>1, <2>1, RestKeeps
<1>5. CASE ~Permitted(s, FALSE)
  <2>1. job' = job
    BY <1>3, <1>5
  <2>2. WorldMoves
    BY <1>1, <2>1, StillWorld
  <2> QED  BY <1>1, <2>1, <2>2, RestKeeps
<1> QED  BY <1>4, <1>5

LEMMA RconsumeKeeps ==
  ASSUME IInv, rconsume
  PROVE  IInv'
<1>1. /\ row' = row /\ key' = key /\ thread' = thread /\ child' = child /\ result' = result /\ retired' = retired
      /\ worker.pc = "rconsume" /\ job' = Consumed /\ worker' = Holding(job, "verify")
  BY DEF rconsume, Work
<1>2. job' \in Job /\ job'.state = job.state /\ WorldMoves /\ JobOK' /\ (~Doubled => JobTold')
  BY <1>1, ConsumedSame, JobSame
<1>3. worker' \in Worker /\ worker'.pc = "verify" /\ worker'.absent = FALSE
  BY <1>1, IdleWorkerTyped DEF Holding, IdleWorker, Worker, IInv, TypeOK, Job
<1>4. WorkerOK'
  BY <1>1, <1>2, <1>3 DEF IInv, WorkerOK, Past
<1>5. ~Doubled => WorkerTold'
  BY <1>1, <1>2 DEF IInv, Committed, WorkerTold, HasStarted
<1> QED  BY <1>1, <1>2, <1>3, <1>4, <1>5, WorkerKeeps

LEMMA VerifyKeeps ==
  ASSUME IInv, verify_absent \/ verify_present
  PROVE  IInv'
<1>1. PICK absent \in BOOLEAN : Verify(absent) /\ (absent => ~key)
  BY DEF verify_absent, verify_present
<1>2. /\ row' = row /\ key' = key /\ job' = job /\ thread' = thread /\ child' = child /\ result' = result
      /\ retired' = retired /\ worker.pc = "verify" /\ worker' = [worker EXCEPT !.pc = "reconcile", !.absent = absent]
  BY <1>1 DEF Verify, Work
<1>3. worker' \in Worker /\ worker'.pc = "reconcile" /\ worker'.absent = absent
  BY <1>2 DEF IInv, TypeOK, Worker
<1>4. WorkerOK'
  BY <1>1, <1>2, <1>3 DEF IInv, WorkerOK, Past
<1>5. ~Doubled => WorkerTold'
  BY <1>2 DEF IInv, Committed, WorkerTold, HasStarted
<1>6. WorldMoves
  BY <1>2, StillWorld
<1> QED  BY <1>2, <1>3, <1>4, <1>5, <1>6, WorkerKeeps

LEMMA ReconcileKeeps ==
  ASSUME IInv, reconcile
  PROVE  IInv'
<1>1. worker.pc = "reconcile" /\ worker \in Worker
  BY DEF reconcile, IInv, TypeOK
<1>2. PICK o, f : /\ o = reconcile_with_start(row, Broker, worker.claim_id, worker.start_id, Class)
                  /\ f \in Fates(o) /\ Reconcile(f)
  BY DEF reconcile
<1>3. /\ key' = key /\ job' = job /\ thread' = thread /\ child' = child /\ result' = result /\ retired' = retired
      /\ row' = f.row
      /\ worker' = IF f.reply THEN [worker EXCEPT !.pc = "record", !.reply = f.row.status] ELSE IdleWorker
  BY <1>2 DEF Reconcile, Work
<1>4. row # None /\ Past
  BY <1>1 DEF IInv, WorkerOK, JobOK, Past
<1>5. PICK q : q = o.authority
  OBVIOUS
<1>6. /\ Follows(row, q) /\ q.effect_start_id = row.effect_start_id
      /\ q.status = "CLOSED" => row.status = "CLOSED" \/ Class = "VERIFIED_ABSENT"
  BY <1>2, <1>4, <1>5, GoodRowNow, SettleFollows
<1>7. Class = "VERIFIED_ABSENT" => ~key
  BY <1>1 DEF Class, IInv, WorkerOK
<1>8. row' \in {row, q}
  BY <1>2, <1>3, <1>5, FateRow DEF FatesOrDoubled
<1>9. /\ WorldMoves /\ RowOK' /\ row' # None
      /\ row' \in IncidentAuthority /\ valid_shape(row') /\ row'.status # "FAILED"
  BY <1>3, <1>4, <1>6, <1>7, <1>8, RowStep
<1>10. CASE ~f.reply
  BY <1>3, <1>9, <1>10, RestKeeps
<1>11. CASE f.reply
  <2>1. /\ worker' \in Worker /\ worker'.pc = "record" /\ worker'.start_id = worker.start_id
        /\ worker'.absent = worker.absent
    BY <1>1, <1>3, <1>9, <1>11 DEF Worker, IncidentAuthority
  <2>2. WorkerOK'
    BY <1>1, <1>3, <2>1 DEF IInv, WorkerOK, Past
  <2>3. ~Doubled => WorkerTold'
    BY <1>1, <1>3, <1>9 DEF IInv, Committed, WorkerTold, HasStarted, WorldMoves, RowMoves, Advances
  <2> QED  BY <1>3, <1>9, <2>1, <2>2, <2>3, WorkerKeeps
<1> QED  BY <1>10, <1>11

\* What is recorded is the verification: absent, and the job was reconciling.
LEMMA RecordKeeps ==
  ASSUME IInv, record
  PROVE  IInv'
<1>1. /\ row' = row /\ key' = key /\ thread' = thread /\ child' = child /\ result' = result /\ retired' = retired
      /\ worker.pc = "record" /\ worker' = IdleWorker /\ worker \in Worker
      /\ job' = IF Permitted(Recorded, FALSE)
                THEN [job EXCEPT !.state = Recorded, !.remote_state = worker.reply] ELSE job
  BY DEF record, Work, IInv, TypeOK
<1>2. CASE ~Permitted(Recorded, FALSE)
  <2>1. WorldMoves
    BY <1>1, <1>2, StillWorld
  <2> QED  BY <1>1, <1>2, <2>1, RestKeeps
<1>3. CASE Permitted(Recorded, FALSE)
  <2>1. PICK s \in {"CLOSED", "RECONCILE_REQUIRED"} : s = Recorded /\ (s = "CLOSED" => ~key)
    BY <1>1 DEF Recorded, IInv, WorkerOK
  <2>2. job \in Job /\ job.state \in JobState /\ worker.reply \in Status \cup {None}
    BY <1>1 DEF IInv, TypeOK, Job, Worker
  <2>3. job' = [job EXCEPT !.state = s, !.remote_state = worker.reply]
    BY <1>1, <1>3, <2>1
  <2>4. /\ job' \in Job /\ job'.state = s /\ s \in JobState /\ job'.claim_id = job.claim_id
        /\ job'.start_id = job.start_id
    BY <2>2, <2>3 DEF Job, JobState
  <2>5. row # None /\ row.status # "ACTIVE" /\ Sane(row)
    BY <1>1 DEF IInv, WorkerOK, JobOK, RowOK
  <2>6. canTransition(job.state, s, FALSE)
    BY <1>3, <2>1 DEF Permitted
  <2>7. JobMoves
    BY <2>2, <2>4, <2>5, <2>6, TransitionMoves
  <2>8. WorldMoves
    BY <1>1, <2>7 DEF WorldMoves, RowMoves, KeyFalls, Advances
  <2>9. JobOK'
    BY <1>1, <2>1, <2>4, <2>5 DEF JobOK
  <2>10. ASSUME ~Doubled PROVE JobTold'
    <3>1. HasStarted /\ job.state \in Settling /\ JobTold
      BY <1>1, <2>10 DEF IInv, Committed, WorkerTold
    <3>2. s = "RECONCILE_REQUIRED" => job.state = "RECONCILE_REQUIRED"
      BY <2>6, <3>1 DEF canTransition, Settling
    <3> QED  BY <1>1, <2>4, <3>1, <3>2 DEF JobTold, IsStart, HasStarted, Settling
  <2> QED  BY <1>1, <2>4, <2>8, <2>9, <2>10, RestKeeps
<1> QED  BY <1>2, <1>3

LEMMA StopKeeps ==
  ASSUME IInv, stop
  PROVE  IInv'
<1>1. /\ row' = row /\ key' = key /\ job' = job /\ thread' = thread /\ child' = child /\ result' = result
      /\ retired' = retired /\ worker' = IdleWorker
  BY DEF stop, Work
<1>2. WorldMoves
  BY <1>1, StillWorld
<1> QED  BY <1>1, <1>2, RestKeeps

----------------------------------------------------------------------------
(* The children.                                                            *)

LEMMA ChildKeeps ==
  ASSUME IInv, WorldMoves, NEW c \in Child, NEW s \in ChildState, Set(c, s),
         ChildSound(s)', ~Doubled => ChildSays(s)',
         (row' = row /\ key' = key) \/ (RowOK' /\ row' \in IncidentAuthority \cup {None} /\ key' \in {key, FALSE}),
         result' = result \/ (result' \in Result /\ ResultOK' /\ (~Doubled => ResultTold')),
         job' = job, thread' = thread, worker' = worker, retired' = retired
  PROVE  IInv'
<1>1. /\ child' \in [Child -> ChildState] /\ child'[c] = s
      /\ \A d \in Child : d # c => child'[d] = child[d]
  BY DEF IInv, TypeOK, Set
<1>a. key \in BOOLEAN
  BY DEF IInv, TypeOK
<1>b. key' \in BOOLEAN
  BY <1>a
<1>2. TypeOK'
  BY <1>1, <1>b DEF IInv, TypeOK
<1>3. ASSUME NEW d \in Child
      PROVE  \/ child'[d] = child[d]
             \/ (ChildSound(child[d])' /\ (~Doubled => ChildSays(child[d])'))
  <2>1. CASE d = c
    BY <1>1, <2>1 DEF ChildSound, ChildSays, Underway
  <2> QED  BY <1>1, <2>1
<1> QED  BY <1>2, <1>3, Keeps

\* What is known of a child that is at pc.
LEMMA ChildNow ==
  ASSUME IInv, NEW c \in Child, child[c].pc # "off"
  PROVE  /\ child[c] \in ChildState /\ ChildSound(child[c]) /\ Past /\ row # None
         /\ ~Doubled => ChildSays(child[c])
<1>1. child[c] \in ChildState /\ ChildSound(child[c]) /\ Past
  BY DEF IInv, TypeOK, ChildOK, ChildSound
<1>2. row # None
  BY <1>1 DEF IInv, JobOK, Past
<1>3. ~Doubled => ChildSays(child[c])
  BY DEF IInv, Committed, ChildTold, ChildSays
<1> QED  BY <1>1, <1>2, <1>3

\* A child that only goes on.
LEMMA AdvanceKeeps ==
  ASSUME IInv, WorldMoves, NEW c \in Child, child[c].pc # "off", NEW pc \in Calling, Advance(c, pc),
         pc # "claim", pc \in {"settle", "resettle"} => ~key',
         pc \in {"confirm", "act", "unknown", "verify", "settle", "resettle"} => child[c].start # None,
         (row' = row /\ key' = key) \/ (RowOK' /\ row' \in IncidentAuthority \cup {None} /\ key' \in {key, FALSE}),
         result' = result,
         job' = job, thread' = thread, worker' = worker, retired' = retired
  PROVE  IInv'
<1>1. child[c] \in ChildState /\ ChildSound(child[c]) /\ Past /\ (~Doubled => ChildSays(child[c]))
  BY ChildNow
<1> DEFINE s0 == [child[c] EXCEPT !.pc = pc]
<1>2. /\ s0 \in ChildState /\ s0.pc = pc /\ s0.claim = child[c].claim /\ s0.start = child[c].start
      /\ s0.closed = child[c].closed
  BY <1>1 DEF ChildState
<1>3. PICK s \in ChildState : /\ Set(c, s) /\ s.pc = pc /\ s.claim = child[c].claim
                              /\ s.start = child[c].start /\ s.closed = child[c].closed
  BY <1>2 DEF Advance
<1>4. ChildSound(s)'
  BY <1>1, <1>3 DEF ChildSound, Underway, WorldMoves, JobMoves, KeyFalls
<1>5. ~Doubled => ChildSays(s)'
  BY <1>1, <1>3 DEF ChildSays, WorldMoves, RowMoves, Advances, IsStart
<1> QED  BY <1>3, <1>4, <1>5, ChildKeeps

\* Its result is its own.
LEMMA ResultSound ==
  ASSUME WorldMoves, NEW s \in ChildState, ChildSound(s), ~Doubled => ChildSays(s), result' = ResultOf(s)
  PROVE  result' \in Result /\ ResultOK' /\ (~Doubled => ResultTold')
<1>1. result' \in Result /\ result'.claim = s.claim /\ result'.start = s.start /\ result'.closed = s.closed
  BY DEF ResultOf, Result, ChildState
<1>2. ResultOK'
  BY <1>1 DEF ResultOK, ChildSound, Underway, WorldMoves, KeyFalls
<1>3. ~Doubled => ResultTold'
  BY <1>1 DEF ResultTold, ChildSays, WorldMoves, RowMoves, Advances, IsStart
<1> QED  BY <1>1, <1>2, <1>3

LEMMA ClaimKeeps ==
  ASSUME IInv, NEW c \in Child, claim(c), UNCHANGED others
  PROVE  IInv'
<1>1. child[c].pc = "claim" /\ key' = key /\ result' = result /\ job' = job /\ thread' = thread /\ worker' = worker /\ retired' = retired
  BY DEF claim, Is, others
<1>2. child[c] \in ChildState /\ ChildSound(child[c]) /\ Past /\ row # None
  BY <1>1, ChildNow
<1>3. PICK now, o, f :
        /\ now \in U64 /\ o = claim_with_nonce(row, Broker, now, child[c].expected, c)
        /\ f \in FatesOrDoubled(o) /\ row' = f.row
        /\ IF f.reply /\ o.decision = "Proposed"
           THEN Set(c, [child[c] EXCEPT !.pc = "propose", !.claim = o.authority.effect_claim_id])
           ELSE Advance(c, "persist")
  BY DEF claim
<1>4. PICK q : q = o.authority
  OBVIOUS
<1>5. Idles(row, q)
  BY <1>2, <1>3, <1>4, GoodRowNow, ClaimIdles
<1>6. row' \in {row, q}
  BY <1>3, <1>4, FateRow
<1>7. WorldMoves /\ RowOK' /\ row' \in IncidentAuthority
  BY <1>1, <1>2, <1>5, <1>6, IdleStep
<1>8. CASE f.reply /\ o.decision = "Proposed"
  <2> DEFINE s0 == [child[c] EXCEPT !.pc = "propose", !.claim = q.effect_claim_id]
  <2>1. q.effect_claim_id \in StateId \cup {None}
    BY <1>5 DEF Idles, Follows, GoodRow, IncidentAuthority
  <2>2. s0 \in ChildState /\ s0.pc = "propose" /\ s0.start = child[c].start /\ s0.closed = child[c].closed
    BY <1>2, <2>1 DEF ChildState, Calling
  <2>3. Set(c, s0)
    BY <1>3, <1>4, <1>8
  <2>4. PICK s \in ChildState : Set(c, s) /\ s.pc = "propose" /\ s.start = None /\ s.closed = child[c].closed
    BY <1>1, <1>2, <2>2, <2>3 DEF ChildSound
  <2>5. ChildSound(s)' /\ ChildSays(s)'
    BY <1>1, <1>2, <2>4 DEF ChildSound, ChildSays, Underway, Past
  <2> QED  BY <1>1, <1>7, <2>4, <2>5, ChildKeeps
<1>9. CASE ~(f.reply /\ o.decision = "Proposed")
  BY <1>1, <1>3, <1>7, <1>9, AdvanceKeeps DEF Calling
<1> QED  BY <1>8, <1>9

LEMMA ProposeKeeps ==
  ASSUME IInv, NEW c \in Child, propose(c), UNCHANGED others
  PROVE  IInv'
<1>1. /\ child[c].pc = "propose" /\ row' = row /\ key' = key /\ result' = ResultOf(child[c])
      /\ Advance(c, "begin") /\ job' = job /\ thread' = thread /\ worker' = worker /\ retired' = retired
  BY DEF propose, Is, others
<1>2. /\ child[c] \in ChildState /\ ChildSound(child[c]) /\ Past /\ (~Doubled => ChildSays(child[c]))
  BY <1>1, ChildNow
<1>3. WorldMoves
  BY <1>1, StillWorld
<1> DEFINE s0 == [child[c] EXCEPT !.pc = "begin"]
<1>4. /\ s0 \in ChildState /\ s0.pc = "begin" /\ s0.claim = child[c].claim /\ s0.start = child[c].start
      /\ s0.closed = child[c].closed
  BY <1>2 DEF ChildState, Calling
<1>5. PICK s \in ChildState : /\ Set(c, s) /\ s.pc = "begin" /\ s.claim = child[c].claim
                              /\ s.start = child[c].start /\ s.closed = child[c].closed
  BY <1>1, <1>4 DEF Advance
<1>6. ChildSound(s)' /\ (~Doubled => ChildSays(s)')
  BY <1>1, <1>2, <1>5 DEF ChildSound, ChildSays, Underway, Past, IsStart
<1>7. result' \in Result /\ ResultOK' /\ (~Doubled => ResultTold')
  <2>1. PICK r \in ChildState : r = child[c]
    BY <1>2
  <2> QED  BY <1>1, <1>2, <1>3, <2>1, ResultSound
<1> QED  BY <1>1, <1>3, <1>5, <1>6, <1>7, ChildKeeps

LEMMA BeginKeeps ==
  ASSUME IInv, NEW c \in Child, begin(c), UNCHANGED others
  PROVE  IInv'
<1>1. /\ child[c].pc = "begin" /\ key' = key /\ result' = result
      /\ job' = job /\ thread' = thread /\ worker' = worker /\ retired' = retired
  BY DEF begin, Is, others
<1>2. child[c] \in ChildState /\ ChildSound(child[c]) /\ Past /\ row # None
  BY <1>1, ChildNow
<1>3. CASE Advance(c, "persist") /\ row' = row
  <2>1. WorldMoves
    BY <1>1, <1>3, StillWorld
  <2> QED  BY <1>1, <1>3, <2>1, AdvanceKeeps DEF Calling
<1>4. ASSUME NEW now \in U64, NEW o, NEW f,
             o = begin_effect_with_nonce(row, Broker, child[c].claim, c, now),
             f \in FatesOrDoubled(o), row' = f.row,
             IF f.reply /\ o.decision = "Won"
             THEN Set(c, [child[c] EXCEPT !.pc = "confirm", !.start = o.authority.effect_start_id])
             ELSE Advance(c, "persist")
      PROVE  IInv'
  <2>1. PICK q : q = o.authority
    OBVIOUS
  <2>2. /\ Follows(row, q) /\ (q.status = "CLOSED" => row.status = "CLOSED")
        /\ o.decision = "Won" => q.effect_start_id \in StateId /\ q.effect_claim_id = child[c].claim
    BY <1>2, <1>4, <2>1, GoodRowNow, BeginFollows
  <2>3. row' \in {row, q}
    BY <1>4, <2>1, FateRow
  <2>4. WorldMoves /\ RowOK' /\ row' # None /\ row' \in IncidentAuthority
    BY <1>1, <1>2, <2>2, <2>3, RowStep
  <2>5. CASE f.reply /\ o.decision = "Won"
    <3> DEFINE s0 == [child[c] EXCEPT !.pc = "confirm", !.start = q.effect_start_id]
    <3>1. /\ s0 \in ChildState /\ s0.pc = "confirm" /\ s0.start = q.effect_start_id
          /\ s0.claim = child[c].claim /\ s0.closed = child[c].closed
      BY <1>2, <2>2, <2>5 DEF ChildState, Calling
    <3>2. Set(c, s0)
      BY <1>4, <2>1, <2>5
    <3>3. PICK s \in ChildState : /\ Set(c, s) /\ s.pc = "confirm" /\ s.start = q.effect_start_id
                                  /\ s.claim = child[c].claim /\ s.closed = child[c].closed
      BY <3>1, <3>2
    <3>4. s.start # None
      BY <2>2, <2>5, <3>3, OptionAssumption
    <3>5. ChildSound(s)'
      BY <1>1, <1>2, <3>3, <3>4 DEF ChildSound, Underway, Past
    <3>6. ~Doubled => ChildSays(s)'
      <4>1. ~Doubled => row' = q
        BY <1>4, <2>1, <2>5, AnsweredRow
      <4> QED  BY <2>2, <2>4, <2>5, <3>3, <4>1 DEF ChildSays, IsStart
    <3> QED  BY <1>1, <2>4, <3>3, <3>5, <3>6, ChildKeeps
  <2>6. CASE ~(f.reply /\ o.decision = "Won")
    BY <1>1, <1>4, <2>4, <2>6, AdvanceKeeps DEF Calling
  <2> QED  BY <2>5, <2>6
<1> QED  BY <1>3, <1>4 DEF begin

LEMMA ConfirmKeeps ==
  ASSUME IInv, NEW c \in Child, confirm(c), UNCHANGED others
  PROVE  IInv'
<1>1. /\ child[c].pc = "confirm" /\ row' = row /\ key' = key /\ result' = result
      /\ job' = job /\ thread' = thread /\ worker' = worker /\ retired' = retired
  BY DEF confirm, Is, others
<1>2. child[c].start # None
  BY <1>1, ChildNow DEF ChildSound, Underway
<1>3. PICK pc \in {"act", "persist"} : Advance(c, pc)
  BY DEF confirm
<1>4. WorldMoves
  BY <1>1, StillWorld
<1> QED  BY <1>1, <1>2, <1>3, <1>4, AdvanceKeeps DEF Calling

LEMMA ActKeeps ==
  ASSUME IInv, NEW c \in Child, act(c), UNCHANGED others
  PROVE  IInv'
<1>1. /\ child[c].pc = "act" /\ row' = row /\ key' \in {key, FALSE} /\ result' = result
      /\ job' = job /\ thread' = thread /\ worker' = worker /\ retired' = retired
  BY DEF act, Is, others
<1>2. child[c].start # None
  BY <1>1, ChildNow DEF ChildSound, Underway
<1>3. PICK pc \in {"persist", "unknown", "settle"} : Advance(c, pc) /\ (pc = "settle" => ~key')
  BY DEF act
<1>4. key \in BOOLEAN /\ row \in IncidentAuthority \cup {None}
  BY DEF IInv, TypeOK
<1>5. KeyFalls
  <2>1. CASE key' = key
    BY <2>1, Zenon DEF KeyFalls
  <2>2. CASE key' = FALSE
    BY <2>2, Zenon DEF KeyFalls
  <2> QED  BY <1>1, <2>1, <2>2
<1>6. WorldMoves
  BY <1>1, <1>5 DEF WorldMoves, RowMoves, JobMoves, Advances, Past
<1>7. RowOK'
  BY <1>1, <1>5 DEF IInv, RowOK, Past, Sane, KeyFalls
<1> QED  BY <1>1, <1>2, <1>3, <1>4, <1>5, <1>6, <1>7, AdvanceKeeps DEF Calling

LEMMA UnknownKeeps ==
  ASSUME IInv, NEW c \in Child, unknown(c), UNCHANGED others
  PROVE  IInv'
<1>1. /\ child[c].pc = "unknown" /\ key' = key /\ result' = result
      /\ job' = job /\ thread' = thread /\ worker' = worker /\ retired' = retired
  BY DEF unknown, Is, others
<1>2. child[c].start # None /\ Past /\ row # None
  BY <1>1, ChildNow DEF ChildSound, Underway
<1>3. PICK o, f :
        /\ o = finalize_with_start(row, Broker, child[c].claim, child[c].start, "ATTEMPTED_OUTCOME_UNKNOWN")
        /\ f \in Fates(o) /\ row' = f.row
        /\ Advance(c, IF f.reply THEN "verify" ELSE "persist")
  BY DEF unknown
<1>4. PICK q : q = o.authority
  OBVIOUS
<1>5. /\ Follows(row, q) /\ q.effect_start_id = row.effect_start_id
      /\ q.status = "CLOSED" => row.status = "CLOSED"
  BY <1>2, <1>3, <1>4, GoodRowNow, SettleFollows
<1>6. row' \in {row, q}
  BY <1>3, <1>4, FateRow DEF FatesOrDoubled
<1>7. WorldMoves /\ RowOK' /\ row' \in IncidentAuthority
  BY <1>1, <1>2, <1>5, <1>6, RowStep
<1>8. PICK pc \in {"verify", "persist"} : Advance(c, pc)
  BY <1>3
<1> QED  BY <1>1, <1>2, <1>7, <1>8, AdvanceKeeps DEF Calling

LEMMA CheckKeeps ==
  ASSUME IInv, NEW c \in Child, verify(c), UNCHANGED others
  PROVE  IInv'
<1>1. /\ child[c].pc = "verify" /\ row' = row /\ key' = key /\ result' = result
      /\ job' = job /\ thread' = thread /\ worker' = worker /\ retired' = retired
  BY DEF verify, Is, others
<1>2. child[c].start # None
  BY <1>1, ChildNow DEF ChildSound, Underway
<1>3. PICK pc \in {"resettle", "persist"} : Advance(c, pc) /\ (pc = "resettle" => ~key)
  BY DEF verify
<1>4. WorldMoves
  BY <1>1, StillWorld
<1> QED  BY <1>1, <1>2, <1>3, <1>4, AdvanceKeeps DEF Calling

LEMMA SettleKeeps ==
  ASSUME IInv, NEW c \in Child, settle(c), UNCHANGED others
  PROVE  IInv'
<1>1. /\ child[c].pc \in {"settle", "resettle"} /\ key' = key /\ result' = result
      /\ job' = job /\ thread' = thread /\ worker' = worker /\ retired' = retired
  BY DEF settle, others
<1>2. /\ child[c] \in ChildState /\ child[c].start # None /\ ~key /\ Past /\ row # None
      /\ ~Doubled => ChildSays(child[c])
  BY <1>1, ChildNow DEF ChildSound, Underway
<1> DEFINE call == IF Is(c, "settle")
                   THEN finalize_with_start(row, Broker, child[c].claim, child[c].start, "VERIFIED_ABSENT")
                   ELSE reconcile_with_start(row, Broker, child[c].claim, child[c].start, "VERIFIED_ABSENT")
<1>a. PICK o : o = call
  OBVIOUS
<1>b. \E f \in Fates(o) :
        /\ row' = f.row
        /\ Set(c, [child[c] EXCEPT !.pc = "persist", !.closed = f.reply /\ o.decision = "Won"])
  BY <1>a, Zenon DEF settle
<1>3. PICK f \in Fates(o) :
        /\ row' = f.row
        /\ Set(c, [child[c] EXCEPT !.pc = "persist", !.closed = f.reply /\ o.decision = "Won"])
  BY <1>b
<1>4. PICK q : q = o.authority
  OBVIOUS
<1>c. \/ o = finalize_with_start(row, Broker, child[c].claim, child[c].start, "VERIFIED_ABSENT")
      \/ o = reconcile_with_start(row, Broker, child[c].claim, child[c].start, "VERIFIED_ABSENT")
  BY <1>a, Zenon
<1> HIDE DEF call
<1>5. Follows(row, q) /\ q.effect_start_id = row.effect_start_id
  BY <1>2, <1>c, <1>4, GoodRowNow, SettleFollows
<1>6. row' \in {row, q}
  BY <1>3, <1>4, FateRow DEF FatesOrDoubled
<1>7. WorldMoves /\ RowOK' /\ row' \in IncidentAuthority
  BY <1>1, <1>2, <1>5, <1>6, RowStep
<1> DEFINE s0 == [child[c] EXCEPT !.pc = "persist", !.closed = f.reply /\ o.decision = "Won"]
<1>8. s0 \in ChildState /\ s0.pc = "persist" /\ s0.claim = child[c].claim /\ s0.start = child[c].start
  BY <1>2 DEF ChildState, Calling
<1>9. PICK s \in ChildState : Set(c, s) /\ s.pc = "persist" /\ s.claim = child[c].claim /\ s.start = child[c].start
  BY <1>3, <1>8
<1>10. ChildSound(s)'
  BY <1>1, <1>2, <1>9 DEF ChildSound, Underway, Past
<1>11. ~Doubled => ChildSays(s)'
  BY <1>2, <1>7, <1>9 DEF ChildSays, WorldMoves, RowMoves, Advances, IsStart
<1> QED  BY <1>1, <1>7, <1>9, <1>10, <1>11, ChildKeeps

\* A child that ends, with its result or without one.
LEMMA EndedKeeps ==
  ASSUME IInv, NEW c \in Child, persist(c) \/ die(c), UNCHANGED others
  PROVE  IInv'
<1>1. /\ child[c].pc # "off" /\ row' = row /\ key' = key /\ Set(c, Ended)
      /\ job' = job /\ thread' = thread /\ worker' = worker /\ retired' = retired
      /\ result' = result \/ result' = ResultOf(child[c])
  BY DEF persist, die, Is, others, Calling
<1>2. /\ child[c] \in ChildState /\ ChildSound(child[c]) /\ Past /\ (~Doubled => ChildSays(child[c]))
  BY <1>1, ChildNow
<1>3. WorldMoves
  BY <1>1, StillWorld
<1>4. Ended \in ChildState /\ Ended.pc = "ended" /\ Ended.start = None /\ Ended.closed = FALSE
  <2>1. 0 \in U64
    BY WidthAssumption DEF U64
  <2> QED  BY <2>1 DEF Ended, Off, ChildState
<1>5. PICK s \in ChildState : Set(c, s) /\ s.pc = "ended" /\ s.start = None /\ s.closed = FALSE
  BY <1>1, <1>4
<1>6. ChildSound(s)' /\ ChildSays(s)'
  BY <1>1, <1>2, <1>5 DEF ChildSound, ChildSays, Underway, Past
<1>7. result' = result \/ (result' \in Result /\ ResultOK' /\ (~Doubled => ResultTold'))
  <2>1. CASE result' = ResultOf(child[c])
    <3>1. PICK r \in ChildState : r = child[c]
      BY <1>2
    <3>2. ChildSound(r) /\ (~Doubled => ChildSays(r)) /\ result' = ResultOf(r)
      BY <1>2, <2>1, <3>1
    <3> QED  BY <1>3, <3>2, ResultSound
  <2> QED  BY <1>1, <2>1
<1> QED  BY <1>1, <1>3, <1>5, <1>6, <1>7, ChildKeeps

----------------------------------------------------------------------------
(* The world outside.                                                       *)

LEMMA OutsideKeeps ==
  ASSUME IInv, World
  PROVE  IInv'
<1>1. /\ job' = job /\ thread' = thread /\ worker' = worker /\ child' = child /\ result' = result
      /\ retired' = retired
  BY DEF World, key_removed, release, others
<1>2. CASE key_removed
  <2>1. row' = row /\ key' = FALSE
    BY <1>2 DEF key_removed
  <2>2. WorldMoves
    BY <1>1, <2>1 DEF WorldMoves, RowMoves, KeyFalls, JobMoves, Advances, Past
  <2>3. RowOK'
    BY <1>1, <2>1 DEF IInv, RowOK, Past, Sane
  <2>4. TypeOK'
    BY <1>1, <2>1 DEF IInv, TypeOK
  <2> QED  BY <1>1, <2>2, <2>3, <2>4, Keeps
<1>3. CASE release
  <2>1. PICK now, o : /\ now \in U64 /\ o = release_not_attempted(row, Broker, row.effect_claim_id, now)
                      /\ o.decision = "Won" /\ row' = o.authority
    BY <1>3 DEF release
  <2>2. row # None /\ key' = key
    BY <1>3 DEF release
  <2>3. PICK q : q = o.authority
    OBVIOUS
  <2>4. Idles(row, q)
    BY <2>1, <2>2, <2>3, GoodRowNow, ReleaseIdles
  <2>5. WorldMoves /\ RowOK' /\ row' \in IncidentAuthority
    BY <1>1, <2>1, <2>2, <2>3, <2>4, IdleStep
  <2>6. TypeOK'
    BY <1>1, <2>2, <2>5 DEF IInv, TypeOK
  <2> QED  BY <1>1, <2>5, <2>6, Keeps
<1> QED  BY <1>2, <1>3 DEF World

----------------------------------------------------------------------------
(* The invariant, and what it says.                                         *)

LEMMA InitIInv ==
  ASSUME Init
  PROVE  IInv
<1>1. TypeOK
  <2>1. 0 \in U64
    BY WidthAssumption DEF U64
  <2>2. NewJob \in Job /\ Off \in ChildState
    BY <2>1 DEF NewJob, Job, JobState, Off, ChildState
  <2> QED  BY <2>2, IdleThreadRests, IdleWorkerTyped DEF Init, TypeOK
<1>2. RowOK /\ JobOK /\ RetiredOK /\ ResultOK
  BY DEF Init, RowOK, JobOK, RetiredOK, ResultOK, NewJob
<1>3. ThreadOK
  BY IdleThreadRests DEF Init, ThreadOK, Rests
<1>4. WorkerOK /\ WorkerTold
  BY IdleWorkerTyped DEF Init, WorkerOK, WorkerTold
<1>5. ChildOK /\ ChildTold
  BY DEF Init, ChildOK, ChildSound, Underway, ChildTold, Off
<1>6. JobTold /\ ResultTold
  BY DEF Init, JobTold, ResultTold, NewJob
<1> QED  BY <1>1, <1>2, <1>3, <1>4, <1>5, <1>6 DEF IInv, Committed

LEMMA NextIInv ==
  ASSUME IInv, [Next]_vars
  PROVE  IInv'
<1>1. CASE UNCHANGED vars
  <2>1. /\ row' = row /\ key' = key /\ job' = job /\ thread' = thread /\ worker' = worker /\ child' = child
        /\ result' = result /\ retired' = retired
    BY <1>1 DEF vars
  <2>2. WorldMoves /\ TypeOK'
    BY <2>1, StillWorld DEF IInv, TypeOK
  <2> QED  BY <2>1, <2>2, Keeps
<1>2. ASSUME NEW t \in Thread, Ensure(t) \/ fail(t)
      PROVE  IInv'
  BY <1>2, LookKeeps, GetKeeps, CreateKeeps, RereadKeeps, ReserveKeeps, RecheckKeeps, UpdateKeeps, RetireKeeps,
     FailKeeps DEF Ensure
<1>3. CASE WorkerStep \/ stop
  BY <1>3, TakeKeeps, ConsumeKeeps, MarkKeeps, CollectKeeps, DeferKeeps, RconsumeKeeps, VerifyKeeps,
     ReconcileKeeps, RecordKeeps, StopKeeps DEF WorkerStep
<1>4. ASSUME NEW c \in Child, Broke(c)
      PROVE  IInv'
  BY <1>4, ClaimKeeps, ProposeKeeps, BeginKeeps, ConfirmKeeps, ActKeeps, UnknownKeeps, CheckKeeps, SettleKeeps,
     EndedKeeps DEF Broke, ChildStep
<1>5. CASE World
  BY <1>5, OutsideKeeps
<1> QED  BY <1>1, <1>2, <1>3, <1>4, <1>5 DEF Next

\* The strengthening is inductive: what each process knows stays true.
THEOREM Invariance == Spec => []IInv
<1>1. Init => IInv
  BY InitIInv
<1>2. IInv /\ [Next]_vars => IInv'
  BY NextIInv
<1> QED  BY <1>1, <1>2, PTL DEF Spec

\* Every record, file and readback keeps its type (job-store.ts, coordinator.ts).
THEOREM TypeCorrect == Spec => []TypeOK
<1>1. IInv => TypeOK
  BY DEF IInv
<1> QED  BY <1>1, Invariance, PTL

\* No job is closed over a living key, even if C1 answers what it did not commit
\* (broker-worker.ts: recordReconciliation, coordinator.ts: the readback of CLOSED).
THEOREM ClosedOnlyWhenAbsent == Spec => []ClosedJobMeansAbsent
<1>1. IInv => ClosedJobMeansAbsent
  BY DEF IInv, JobOK, ClosedJobMeansAbsent
<1> QED  BY <1>1, Invariance, PTL

\* A retired policy's incident is closed, its key gone, and its job gets no attempt
\* (coordinator.ts: retireClosedPolicy).
THEOREM RetirementIsFinal == Spec => []RetiredIsSettled
<1>1. IInv => RetiredIsSettled
  BY DEF IInv, RetiredOK, RowOK, RetiredIsSettled, Remote
<1> QED  BY <1>1, Invariance, PTL

\* A terminal job says of C1 what is true of it, if C1 answers what it commits
\* (coordinator.ts: ensureIncidentAndReservation, broker-worker.ts: processHandoff).
THEOREM TerminalJobsAreTrue ==
  ASSUME ~Doubled
  PROVE  Spec => []TerminalIsTrue
<1>1. IInv => TerminalIsTrue
  <2> SUFFICES ASSUME IInv PROVE TerminalIsTrue
    OBVIOUS
  <2>1. job.state = "CLOSED" => ~key /\ HasStarted
    BY DEF IInv, JobOK, Committed, JobTold
  <2>2. HasStarted => row.status \in {"EFFECT_STARTED", "RECONCILE_REQUIRED", "CLOSED"}
    BY DEF HasStarted, IInv, TypeOK, RowOK, Sane, valid_shape, StatusShape, NoEffect, IncidentAuthority, Status
  <2>3. job.state = "FAILED" => row # None /\ row.status = "EXPIRED"
    BY DEF IInv, JobOK
  <2> QED  BY <2>1, <2>2, <2>3 DEF TerminalIsTrue, Remote, HasStarted
<1> QED  BY <1>1, Invariance, PTL

LEMMA StartStep ==
  ASSUME IInv, IInv', ~Doubled, Next, job.start_id # None, job'.start_id # job.start_id
  PROVE  job'.start_id = None /\ job'.state = "STATE_CONFLICT"
<1>1. IsStart(job.claim_id, job.start_id) /\ job.state \in Settling /\ job \in Job
  BY DEF IInv, Committed, JobTold, TypeOK
<1>2. collect \/ \E t \in Thread : update(t)
  <2>1. ASSUME NEW t \in Thread, Ensure(t) \/ fail(t), ~update(t)
        PROVE  FALSE
    <3>1. job' = job
      BY <2>1 DEF Ensure, look, get, create, reread, reserve_call, recheck, retire, fail
    <3> QED  BY <3>1
  <2>2. ASSUME NEW c \in Child, Broke(c)
        PROVE  FALSE
    <3>1. job' = job
      BY <2>2 DEF Broke, others
    <3> QED  BY <3>1
  <2>3. ASSUME \/ stop \/ verify_absent \/ verify_present \/ reconcile \/ World
        PROVE  FALSE
    <3>1. job' = job
      BY <2>3 DEF stop, verify_absent, verify_present, Verify, reconcile, Reconcile, World, others
    <3> QED  BY <3>1
  <2>4. ASSUME take \/ rtake PROVE FALSE
    BY <1>1, <2>4 DEF take, rtake, Conflict, Job
  <2>5. ASSUME consume \/ rconsume PROVE FALSE
    BY <2>5, ConsumedSame DEF consume, rconsume
  <2>6. ASSUME mark PROVE FALSE
    BY <1>1, <2>6 DEF mark, Job
  <2>7. ASSUME defer PROVE FALSE
    BY <1>1, <2>7 DEF defer, Job
  <2>8. ASSUME record PROVE FALSE
    BY <1>1, <2>8 DEF record, Job
  <2> QED  BY <2>1, <2>2, <2>3, <2>4, <2>5, <2>6, <2>7, <2>8 DEF Next, WorkerStep
<1>3. row' = row
  BY <1>2 DEF collect, update
<1>4. job'.start_id = None
  BY <1>1, <1>3 DEF IInv, Committed, JobTold, IsStart
<1>5. ASSUME NEW t \in Thread, update(t)
      PROVE  job'.state = "STATE_CONFLICT"
  <2>a. PICK s : s = NextState(thread[t].local, thread[t].seen, thread[t].dangerous)
    OBVIOUS
  <2>b. PICK allow \in BOOLEAN : allow = (s = "STATE_CONFLICT" \/ thread[t].local = "STATE_CONFLICT")
    OBVIOUS
  <2>1. Permitted(s, allow) /\ job' = ObservedJob(s, thread[t].seen)
    <3>1. IF Permitted(s, allow) THEN job' = ObservedJob(s, thread[t].seen) ELSE job' = job
      BY <1>5, <2>a, <2>b, Zenon DEF update
    <3> QED  BY <3>1
  <2>2. thread[t].pc = "update" /\ key' = key
    BY <1>5 DEF update, In
  <2>3. job'.state = s /\ JobOK' /\ JobTold' /\ job' \in Job
    BY <1>3, <2>a, <2>1, <2>2, ObservedSound
  <2>4. job'.state # "FAILED"
    <3>1. row.status = "EXPIRED" => row.effect_start_id = None
      BY <1>1 DEF IInv, RowOK, IsStart, Sane, valid_shape, StatusShape, NoEffect
    <3> QED  BY <1>1, <1>3, <2>3, <3>1 DEF JobOK, IsStart
  <2>5. job'.state \notin {"RECONCILE_REQUIRED", "CLOSED"}
    <3>1. thread[t] \in ThreadState /\ Rests(thread[t])
      BY DEF IInv, TypeOK, ThreadOK
    <3>2. /\ thread[t].seen \in IncidentAuthority /\ thread[t].local \in JobState /\ thread[t].dangerous \in BOOLEAN
          /\ Sane(thread[t].seen) /\ (thread[t].local # "PENDING" => thread[t].seen.status # "ACTIVE")
          /\ thread[t].dangerous => thread[t].seen.effect_start_id # None
      BY <2>2, <3>1 DEF Rests, ThreadState
    <3>3. s \in {"RECONCILE_REQUIRED", "CLOSED"} => thread[t].seen.effect_start_id # None
      BY <2>a, <3>2, NextStateSound
    <3>4. job'.start_id = thread[t].seen.effect_start_id
      BY <2>1 DEF ObservedJob
    <3> QED  BY <1>4, <2>3, <3>3, <3>4
  <2> QED  BY <1>1, <2>1, <2>3, <2>4, <2>5 DEF Permitted, canTransition, Successors, Settling
<1>6. ASSUME collect
      PROVE  FALSE
  <2>1. result # None /\ Permitted(ResultState(result), FALSE) /\ job' = Collected(result)
    <3>1. IF result # None /\ Permitted(ResultState(result), FALSE) THEN job' = Collected(result) ELSE job' = job
      BY <1>6 DEF collect
    <3> QED  BY <3>1
  <2>2. job'.start_id = Or(result.start, worker.start_id)
    BY <1>1, <2>1 DEF Collected, Job
  <2>3. result.start = None
    BY <1>4, <2>2 DEF Or
  <2>4. ResultState(result) = "RETRY_READY"
    BY <2>1, <2>3 DEF ResultState, IInv, ResultOK
  <2> QED  BY <1>1, <2>1, <2>4 DEF Permitted, canTransition, Successors, Settling
<1> QED  BY <1>2, <1>4, <1>5, <1>6

\* An effect start that a job knows of is replaced by no other, and lost only to a
\* readback that is older, which leaves a conflict and never an attempt
\* (coordinator.ts: the last update, broker-worker.ts: the result of a child).
THEOREM StartsAreKept ==
  ASSUME ~Doubled
  PROVE  Spec => StartIsKept
<1> DEFINE Kept ==
      job.start_id # None =>
        job'.start_id = job.start_id \/ (job'.start_id = None /\ job'.state = "STATE_CONFLICT")
<1>1. IInv /\ IInv' /\ [Next]_vars => [Kept]_vars
  BY StartStep DEF vars
<1> HIDE DEF Kept
<1>2. Spec => [][Kept]_vars
  BY <1>1, Invariance, PTL DEF Spec
<1> QED  BY <1>2 DEF Kept, StartIsKept

----------------------------------------------------------------------------
(* The surroundings the children are promised.                              *)

\* What a process does that calls neither C1 nor a child.
LEMMA EnsureSurrounds ==
  ASSUME IInv, NEW t \in Thread, Ensure(t) \/ fail(t)
  PROVE  [ChildNext]_childVars
<1>1. CASE look(t) \/ get(t) \/ reread(t) \/ recheck(t) \/ update(t) \/ retire(t) \/ fail(t)
  <2>1. UNCHANGED <<row, key, child, result>>
    BY <1>1 DEF look, get, reread, recheck, update, retire, fail
  <2> QED  BY <2>1 DEF childVars
<1>2. CASE create(t)
  <2>1. UNCHANGED <<key, child, result>>
    BY <1>2 DEF create
  <2>2. \/ /\ row = None
           /\ \E i \in Incident, k \in KeyId, ttl \in MinTtl..MaxTtl, now \in U64 :
                /\ ~CreateDenied(Tenant, Agent, Broker, k, ttl, now)
                /\ row' = build_incident_authority(i, Agent, Broker, k, ttl, now)
        \/ row' = row
    BY <1>2, Zenon DEF create
  <2>3. prepare \/ UNCHANGED childVars
    BY <2>1, <2>2, Zenon DEF prepare, childVars
  <2> QED  BY <2>3 DEF ChildNext, Surroundings
<1>3. CASE reserve_call(t)
  <2>1. UNCHANGED <<key, child, result>> /\ thread[t].pc = "reserve"
    BY <1>3 DEF reserve_call, In
  <2>2. row # None
    BY <2>1 DEF IInv, ThreadOK, Rests
  <2>3. PICK now \in U64 : \E f \in Fates(reserve(row, Agent, now)) : row' = f.row
    BY <1>3 DEF reserve_call
  <2>4. row' \in {row, Stored(reserve(row, Agent, now))}
    BY <2>3 DEF Fates
  <2>5. prepare \/ UNCHANGED childVars
    BY <2>1, <2>2, <2>4 DEF prepare, childVars
  <2> QED  BY <2>5 DEF ChildNext, Surroundings
<1> QED  BY <1>1, <1>2, <1>3 DEF Ensure

LEMMA AttemptSurrounds ==
  ASSUME TypeOK, NEW j \in Job, NEW first, Attempt(j, first), UNCHANGED <<row, key>>
  PROVE  ChildNext
<1>1. CASE \E c \in Child : Spawn(c, j, first)
  <2>1. PICK c \in Child : Spawn(c, j, first)
    BY <1>1
  <2>2. PICK given : /\ given \in StateId \cup {None}
                     /\ child' = [child EXCEPT ![c] = Launched(j.claim_version, given)]
    BY <2>1 DEF Spawn, Job
  <2>3. launch(c)
    BY <2>1, <2>2 DEF launch, Spawn, Is, Set, Attempt, Job
  <2> QED  BY <2>3 DEF ChildNext, Surroundings
<1>2. CASE UNCHANGED child
  BY <1>2 DEF Attempt, unlink, ChildNext, Surroundings
<1> QED  BY <1>1, <1>2 DEF Attempt

LEMMA WorkerSurrounds ==
  ASSUME IInv, WorkerStep \/ stop
  PROVE  [ChildNext]_childVars
<1>a. TypeOK
  BY DEF IInv
<1>1. CASE \/ take \/ collect \/ defer \/ rtake \/ rconsume \/ verify_absent \/ verify_present \/ record \/ stop
  <2>1. UNCHANGED <<row, key, child, result>>
    BY <1>1 DEF take, collect, defer, rtake, rconsume, verify_absent, verify_present, Verify, record, stop
  <2> QED  BY <2>1 DEF childVars
<1>2. CASE consume
  <2>1. CASE Attempt(Consumed, FALSE)
    BY <1>a, <1>2, <2>1, ConsumedSame, AttemptSurrounds DEF consume
  <2>2. CASE UNCHANGED <<child, result>>
    BY <1>2, <2>2 DEF consume, childVars
  <2> QED  BY <1>2, <2>1, <2>2 DEF consume
<1>3. CASE mark
  <2>1. CASE Permitted("PROCESSING", FALSE)
    <3>1. PICK j \in Job : Attempt(j, TRUE)
      <4>1. [job EXCEPT !.state = "PROCESSING"] \in Job
        BY <1>a DEF TypeOK, Job, JobState
      <4> QED  BY <1>3, <2>1, <4>1 DEF mark
    <3> QED  BY <1>a, <1>3, <3>1, AttemptSurrounds DEF mark
  <2>2. CASE ~Permitted("PROCESSING", FALSE)
    BY <1>3, <2>2 DEF mark, childVars
  <2> QED  BY <2>1, <2>2
<1>4. CASE reconcile
  <2> DEFINE o == reconcile_with_start(row, Broker, worker.claim_id, worker.start_id, Class)
  <2>1. PICK f \in Fates(o) : Reconcile(f)
    BY <1>4 DEF reconcile
  <2>2. row' \in {row, Stored(o)} /\ UNCHANGED <<key, child, result>>
    BY <2>1 DEF Reconcile, Fates
  <2>3. worker.pc = "reconcile" /\ row # None
    BY <1>4 DEF reconcile, IInv, WorkerOK, JobOK
  <2>4. Class \in Classification /\ (Class = "VERIFIED_ABSENT" => ~key)
    BY DEF Class, Classification, IInv, WorkerOK
  <2>5. CASE o.decision = "Denied" /\ o.authority = row
    BY <2>2, <2>5 DEF Stored, childVars
  <2>6. CASE worker.claim_id = row.effect_claim_id /\ worker.start_id = row.effect_start_id
    <3>1. reconciled \/ row' = row
      BY <2>2, <2>3, <2>4, <2>6 DEF reconciled
    <3> QED  BY <2>2, <3>1 DEF ChildNext, Surroundings, childVars
  <2> HIDE DEF o
  <2> QED  BY <2>5, <2>6, ReconcileOwn DEF o
<1> QED  BY <1>1, <1>2, <1>3, <1>4 DEF WorkerStep

\* The coordinator and the worker are such surroundings as the children are made for:
\* a child is launched once, its result file is only unlinked, C1 is told of no absence
\* of a living key and moved by nothing else (broker-worker.ts: runChild,
\* processReconciliation).
THEOREM ChildrenAsPromised == Spec => ChildSpec
<1>1. Init => ChildInit
  BY DEF Init, ChildInit
<1>2. IInv /\ [Next]_vars => [ChildNext]_childVars
  <2> SUFFICES ASSUME IInv, [Next]_vars PROVE [ChildNext]_childVars
    OBVIOUS
  <2>1. ASSUME NEW c \in Child, Broke(c) PROVE ChildNext
    BY <2>1 DEF Broke, ChildNext
  <2>2. CASE World
    BY <2>2 DEF World, ChildNext
  <2>3. CASE UNCHANGED vars
    BY <2>3 DEF vars, childVars
  <2> QED  BY <2>1, <2>2, <2>3, EnsureSurrounds, WorkerSurrounds DEF Next
<1> QED  BY <1>1, <1>2, Invariance, PTL DEF Spec, ChildSpec
=============================================================================
