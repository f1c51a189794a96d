-------------------------- MODULE JobLeaseProofs ---------------------------
(***************************************************************************)
(* The lease excludes while nobody died, for any number of processes,      *)
(* calls and heartbeats.  IInv is inductive: that the holder has a file to *)
(* its name or another's keeps acquire out, and nobody is about to unlink  *)
(* an expired lease, since that takes a dead owner.                        *)
(***************************************************************************)
EXTENDS JobLease, TLAPS

LEMMA MeIsOwner ==
  ASSUME IInv, NEW p \in Process, call[p].pc # "idle"
  PROVE  Me(p) \in Owner
BY NonceAssumption DEF IInv, TypeOK, Call, Me, Owner

\* A step of a call moves pc only.
LEMMA GotoMoves ==
  ASSUME IInv, NEW p \in Process, NEW pc, Goto(p, pc),
         pc \in {"link", "inspect", "unlink", "working", "release", "remove"},
         call[p].pc # "idle"
  PROVE  /\ call' \in [Process -> Call]
         /\ call'[p].pc = pc
         /\ \A q \in Process : q # p => call'[q] = call[q]
         /\ \A q \in Process : call'[q].pc # "idle" => call'[q].nonce # None
BY DEF IInv, TypeOK, Call, Goto

LEMMA ReturnMoves ==
  ASSUME IInv, NEW p \in Process, Return(p)
  PROVE  /\ call' \in [Process -> Call]
         /\ call'[p].pc = "idle"
         /\ \A q \in Process : q # p => call'[q] = call[q]
         /\ \A q \in Process : call'[q].pc # "idle" => call'[q].nonce # None
BY DEF IInv, TypeOK, Call, Return, NoCall

LEMMA InitIInv == Init => IInv
BY DEF Init, IInv, TypeOK, Call, NoCall, Holds, NobodyDied

LEMMA NextIInv == IInv /\ [Next]_vars => IInv'
<1> SUFFICES ASSUME IInv, [Next]_vars PROVE IInv'
  OBVIOUS
<1> USE DEF NobodyDied, Holds
<1>1. ASSUME NEW p \in Process, begin(p) PROVE IInv'
  <2>1. PICK n \in Nonce : call' = [call EXCEPT ![p] = [NoCall EXCEPT !.pc = "link", !.nonce = n]]
    BY <1>1 DEF begin
  <2>2. call[p].pc = "idle" /\ UNCHANGED <<lease, life, beats>>
    BY <1>1 DEF begin, At
  <2> QED
    BY <2>1, <2>2, NonceAssumption DEF IInv, TypeOK, Call, NoCall
<1>2. ASSUME NEW p \in Process, acquire(p) PROVE IInv'
  <2> call[p].pc = "link"
    BY <1>2 DEF acquire, At
  <2>1. CASE lease = None /\ lease' = [owner |-> Me(p), expired |-> FALSE] /\ Goto(p, "working")
    <3>1. NobodyDied => \A q \in Process : ~Holds(q)
      BY <2>1 DEF IInv
    <3>2. lease' # None /\ lease' \in [owner : Owner, expired : BOOLEAN]
      <4>1. Me(p) \in Owner
        BY MeIsOwner
      <4>2. lease' \in [owner : Owner, expired : BOOLEAN]
        BY <2>1, <4>1
      <4> QED
        BY <4>2, OwnerAssumption
    <3>3. TypeOK' /\ \A q \in Process : call'[q].pc # "idle" => call'[q].nonce # None
      BY <2>1, <3>2, GotoMoves DEF IInv, TypeOK, Goto
    <3>4. call'[p].pc = "working" /\ \A q \in Process : q # p => call'[q] = call[q]
      BY <2>1, GotoMoves
    <3>5. life' = life
      BY <2>1 DEF Goto
    <3> QED
      BY <3>1, <3>2, <3>3, <3>4, <3>5 DEF IInv
  <2>2. CASE lease # None /\ UNCHANGED lease /\ Goto(p, "inspect")
    BY <2>2, GotoMoves DEF IInv, TypeOK, Goto
  <2> QED
    BY <1>2, <2>1, <2>2 DEF acquire
<1>3. ASSUME NEW p \in Process, inspect(p) PROVE IInv'
  <2> call[p].pc = "inspect" /\ UNCHANGED lease
    BY <1>3 DEF inspect, At
  <2>1. CASE lease # None /\ Reclaimable(lease)
    <3>1. ~NobodyDied /\ Goto(p, "unlink")
      BY <1>3, <2>1 DEF inspect, Reclaimable, IInv, TypeOK, Owner
    <3> QED
      BY <3>1, GotoMoves DEF IInv, TypeOK, Goto
  <2>2. CASE ~(lease # None /\ Reclaimable(lease))
    <3>1. Return(p)
      BY <1>3, <2>2 DEF inspect
    <3> QED
      BY <3>1, ReturnMoves DEF IInv, TypeOK, Return
  <2> QED
    BY <2>1, <2>2
<1>4. ASSUME NEW p \in Process, reclaim(p) PROVE IInv'
  <2>1. call[p].pc = "unlink" /\ lease' = None
    BY <1>4 DEF reclaim, At
  <2>2. ~NobodyDied
    BY <2>1 DEF IInv
  <2>3. CASE Return(p)
    BY <2>1, <2>2, <2>3, ReturnMoves DEF IInv, TypeOK, Return
  <2>4. CASE Goto(p, "link")
    BY <2>1, <2>2, <2>4, GotoMoves DEF IInv, TypeOK, Goto
  <2> QED
    BY <1>4, <2>3, <2>4 DEF reclaim
<1>5. ASSUME NEW p \in Process, beatRead(p) PROVE IInv'
  <2>1. call[p].pc = "working" /\ UNCHANGED <<lease, life>>
    BY <1>5 DEF beatRead, At
  <2>2. CASE beats' = beats \cup {Me(p)} /\ UNCHANGED call
    BY <2>1, <2>2, MeIsOwner DEF IInv, TypeOK
  <2>3. CASE call' = [call EXCEPT ![p].lost = TRUE] /\ UNCHANGED beats
    <3>1. \A q \in Process : call[q] \in Call
      BY DEF IInv, TypeOK
    <3>2. call' = [call EXCEPT ![p] = [call[p] EXCEPT !.lost = TRUE]] /\ call \in [Process -> Call]
      BY <2>3 DEF IInv, TypeOK
    <3>3. /\ [call[p] EXCEPT !.lost = TRUE] \in Call
          /\ [call[p] EXCEPT !.lost = TRUE].pc = call[p].pc
          /\ [call[p] EXCEPT !.lost = TRUE].nonce = call[p].nonce
      BY <3>1 DEF Call
    <3>4. /\ call' \in [Process -> Call]
          /\ \A q \in Process : call'[q].pc = call[q].pc /\ call'[q].nonce = call[q].nonce
      BY <3>2, <3>3
    <3> QED
      BY <2>1, <2>3, <3>4 DEF IInv, TypeOK
  <2>4. \/ beats' = beats \cup {Me(p)} /\ UNCHANGED call
        \/ call' = [call EXCEPT ![p].lost = TRUE] /\ UNCHANGED beats
    <3>1. CASE lease # None /\ lease.owner = Me(p)
      BY <1>5, <3>1, Zenon DEF beatRead
    <3>2. CASE ~(lease # None /\ lease.owner = Me(p))
      BY <1>5, <3>2, Zenon DEF beatRead
    <3> QED
      BY <3>1, <3>2
  <2> QED
    BY <2>2, <2>3, <2>4, Zenon
<1>6. ASSUME NEW o \in Owner, beatWrite(o) PROVE IInv'
  <2>1. lease' \in [owner : Owner, expired : BOOLEAN]
    BY <1>6 DEF beatWrite
  <2>2. lease' # None
    BY <2>1, OwnerAssumption
  <2> QED
    BY <1>6, <2>1, <2>2 DEF beatWrite, IInv, TypeOK
<1>7. ASSUME NEW p \in Process, finish(p) PROVE IInv'
  <2>1. call[p].pc = "working" /\ UNCHANGED lease /\ Goto(p, "release")
    BY <1>7 DEF finish, At
  <2> QED
    BY <2>1, GotoMoves DEF IInv, TypeOK, Goto
<1>8. ASSUME NEW p \in Process, release(p) PROVE IInv'
  <2>1. call[p].pc = "release" /\ UNCHANGED lease
    BY <1>8 DEF release, At
  <2>2. CASE Goto(p, "remove")
    BY <2>1, <2>2, GotoMoves DEF IInv, TypeOK, Goto
  <2>3. CASE Return(p)
    BY <2>1, <2>3, ReturnMoves DEF IInv, TypeOK, Return
  <2> QED
    BY <1>8, <2>2, <2>3 DEF release
<1>9. ASSUME NEW p \in Process, remove(p) PROVE IInv'
  <2>1. call[p].pc = "remove" /\ lease' = None /\ Return(p)
    BY <1>9 DEF remove, At
  <2> QED
    BY <2>1, ReturnMoves DEF IInv, TypeOK, Return
<1>10. CASE lapse
  BY <1>10, OwnerAssumption DEF lapse, IInv, TypeOK
<1>11. ASSUME NEW p \in Process, launch(p) PROVE IInv'
  BY <1>11 DEF launch, IInv, TypeOK
<1>12. ASSUME NEW p \in Process, die(p) PROVE IInv'
  <2>1. life'[p] = "dead"
    BY <1>12 DEF die, IInv, TypeOK
  <2> QED
    BY <1>12, <2>1 DEF die, IInv, TypeOK, Call, NoCall
<1>13. CASE UNCHANGED vars
  BY <1>13 DEF vars, IInv, TypeOK
<1> QED
  BY <1>1, <1>2, <1>3, <1>4, <1>5, <1>6, <1>7, <1>8, <1>9, <1>10, <1>11, <1>12, <1>13
  DEF Next, Step

\* The types of JobLease hold for any processes and owner ids.
THEOREM TypeCorrect == Spec => []TypeOK
<1>1. IInv => TypeOK
  BY DEF IInv
<1> QED
  BY <1>1, InitIInv, NextIInv, PTL DEF Spec

\* While no process died, at most one works under the lease of the job: the
\* exclusive link, the owner checks of heartbeat and release, and the refusal
\* to reclaim from a live owner suffice, however late heartbeats and releases are.
THEOREM LeaseExcludes == Spec => []ExclusiveWhileAlive
<1>1. IInv => ExclusiveWhileAlive
  BY DEF IInv, ExclusiveWhileAlive, Working, Holds, At
<1> QED
  BY <1>1, InitIInv, NextIInv, PTL DEF Spec
=============================================================================
