----------------------------- MODULE JobLease ------------------------------
(***************************************************************************)
(* The lease of one job (job-store.ts: acquireLease, withLease): a file    *)
(* that broker processes create exclusively, rewrite in heartbeats, remove *)
(* on release, and reclaim when it has expired and its owner is dead.      *)
(* Every file operation is a step; a heartbeat is a task of its own and    *)
(* may be between its read and its write when the lease is released.       *)
(*                                                                         *)
(* A process calls withLease again and again, one call at a time (the      *)
(* worker's running flag); owner ids are random, so an id in use anywhere  *)
(* is not drawn again, and an owner has one heartbeat in flight.  A pid is *)
(* not reused while its lease lasts.  Files are complete when they appear  *)
(* (link, rename).                                                         *)
(***************************************************************************)
EXTENDS Naturals, FiniteSets

CONSTANTS
  Process,  \* broker processes, each started once
  Nonce,    \* random parts of owner ids
  None

ASSUME NonceAssumption == None \notin Nonce

Owner == [process : Process, nonce : Nonce]  \* owner_id and pid

VARIABLES
  lease,     \* the lease file: its owner and whether it has expired, or None
  life,      \* "new", "alive" or "dead", of each process
  call,      \* the withLease call of each process
  beats      \* owners whose heartbeat is between its read and its write

vars == <<lease, life, call, beats>>

ASSUME OwnerAssumption == None \notin [owner : Owner, expired : BOOLEAN]

\* lost is the lease's own leaseLost; unlink and remove follow a read.
Call == [pc : {"idle", "link", "inspect", "unlink", "working", "release", "remove"},
         nonce : Nonce \cup {None}, lost : BOOLEAN]

NoCall == [pc |-> "idle", nonce |-> None, lost |-> FALSE]

TypeOK ==
  /\ lease \in [owner : Owner, expired : BOOLEAN] \cup {None}
  /\ life \in [Process -> {"new", "alive", "dead"}]
  /\ call \in [Process -> Call]
  /\ beats \subseteq Owner

Init ==
  /\ lease = None
  /\ life = [p \in Process |-> "new"]
  /\ call = [p \in Process |-> NoCall]
  /\ beats = {}

At(p, pc) == life[p] = "alive" /\ call[p].pc = pc

Goto(p, pc) == call' = [call EXCEPT ![p].pc = pc] /\ UNCHANGED <<life, beats>>

Return(p) == call' = [call EXCEPT ![p] = NoCall] /\ UNCHANGED <<life, beats>>

\* Mutant of Me: the owner id is the pid alone.
MeByPid(p) == [process |-> p, nonce |-> None]

Me(p) == [process |-> p, nonce |-> call[p].nonce]

Fresh(p, n) ==
  /\ [process |-> p, nonce |-> n] \notin beats
  /\ lease # None => lease.owner # [process |-> p, nonce |-> n]

begin(p) ==
  /\ At(p, "idle")
  /\ \E n \in Nonce : Fresh(p, n) /\ call' = [call EXCEPT ![p] = [NoCall EXCEPT !.pc = "link", !.nonce = n]]
  /\ UNCHANGED <<lease, life, beats>>

\* createExclusiveJson
acquire(p) ==
  /\ At(p, "link")
  /\ \/ lease = None /\ lease' = [owner |-> Me(p), expired |-> FALSE] /\ Goto(p, "working")
     \/ lease # None /\ UNCHANGED lease /\ Goto(p, "inspect")

\* Mutant of Reclaimable: expiry alone is taken for death.
ReclaimableExpired(l) == l.expired

\* Mutant of Reclaimable: the probe is read the wrong way round.
ReclaimableInverted(l) == l.expired /\ life[l.owner.process] = "alive"

\* processProbe
Reclaimable(l) == l.expired /\ life[l.owner.process] = "dead"

\* A lease gone, in force, or of a live owner ends the call.
inspect(p) ==
  /\ At(p, "inspect")
  /\ UNCHANGED lease
  /\ IF lease # None /\ Reclaimable(lease) THEN Goto(p, "unlink") ELSE Return(p)

\* What is unlinked is the path, whatever is there by now.
reclaim(p) ==
  /\ At(p, "unlink")
  /\ lease' = None
  /\ IF lease = None THEN Return(p) ELSE Goto(p, "link")

\* The interval of a lease in use; the read of one heartbeat, ...
beatRead(p) ==
  /\ At(p, "working")
  /\ Me(p) \notin beats
  /\ IF lease # None /\ lease.owner = Me(p)
     THEN beats' = beats \cup {Me(p)} /\ UNCHANGED call
     ELSE call' = [call EXCEPT ![p].lost = TRUE] /\ UNCHANGED beats
  /\ UNCHANGED <<lease, life>>

\* ... and its write, which replaces or recreates the file.
beatWrite(o) ==
  /\ o \in beats
  /\ lease' = [owner |-> o, expired |-> FALSE]
  /\ beats' = beats \ {o}
  /\ UNCHANGED <<life, call>>

\* The operation ends, or is found to have lost its lease: release either way.
finish(p) == At(p, "working") /\ UNCHANGED lease /\ Goto(p, "release")

Releasable(p) == lease # None /\ lease.owner = Me(p)

release(p) ==
  /\ At(p, "release")
  /\ UNCHANGED lease
  /\ IF Releasable(p) THEN Goto(p, "remove") ELSE Return(p)

remove(p) == At(p, "remove") /\ lease' = None /\ Return(p)

\* Time passes: a lease that is not rewritten expires.
lapse ==
  /\ lease # None /\ ~lease.expired
  /\ lease' = [lease EXCEPT !.expired = TRUE]
  /\ UNCHANGED <<life, call, beats>>

launch(p) ==
  /\ life[p] = "new"
  /\ life' = [life EXCEPT ![p] = "alive"]
  /\ UNCHANGED <<lease, call, beats>>

die(p) ==
  /\ life[p] = "alive"
  /\ life' = [life EXCEPT ![p] = "dead"]
  /\ call' = [call EXCEPT ![p] = NoCall]
  /\ beats' = {o \in beats : o.process # p}
  /\ UNCHANGED lease

Step(p) ==
  \/ begin(p) \/ acquire(p) \/ inspect(p) \/ reclaim(p)
  \/ finish(p) \/ release(p) \/ remove(p)

Next ==
  \/ \E p \in Process : Step(p) \/ beatRead(p) \/ launch(p) \/ die(p)
  \/ \E o \in Owner : beatWrite(o)
  \/ lapse

Spec == Init /\ [][Next]_vars

\* The worker polls a job that needs work, operations and file accesses end, and
\* clocks advance.
Fairness == (\A p \in Process : WF_vars(Step(p))) /\ (\A o \in Owner : WF_vars(beatWrite(o))) /\ WF_vars(lapse)

FairSpec == Spec /\ Fairness
----------------------------------------------------------------------------
(* Properties                                                               *)

Working == {p \in Process : At(p, "working")}

NobodyDied == \A p \in Process : life[p] # "dead"

\* The lease excludes, for as long as no process died: late heartbeats, expired
\* leases and any number of impatient callers notwithstanding.
ExclusiveWhileAlive == NobodyDied => \A p, q \in Working : p = q

\* A lease left by a dead process holds nobody up: while a process that works on
\* the job is alive, somebody gets rid of it, though others come and die.
DeadOwned == lease # None /\ life[lease.owner.process] = "dead"

DeadLeaseGoes == \A p \in Process : (DeadOwned /\ life[p] = "alive") ~> (~DeadOwned \/ life[p] = "dead")

----------------------------------------------------------------------------
(* The inductive strengthening: while nobody died, the holder is one, up to *)
(* its release, there is a file, and nobody is about to reclaim it.         *)

Holds(p) == call[p].pc \in {"working", "release", "remove"}

IInv ==
  /\ TypeOK
  /\ \A p \in Process : call[p].pc # "idle" => call[p].nonce # None
  /\ NobodyDied =>
       /\ \A p \in Process : call[p].pc # "unlink"
       /\ \A p, q \in Process : Holds(p) /\ Holds(q) => p = q
       /\ \A p \in Process : Holds(p) => lease # None
=============================================================================
