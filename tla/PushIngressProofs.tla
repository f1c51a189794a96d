------------------------- MODULE PushIngressProofs -------------------------
(***************************************************************************)
(* Theorems about PushIngress, for every number of handlers, events,       *)
(* policies and crashes, and any causal relation: accepted receipts are    *)
(* bound, policies are one shot, jobs are causal, decisions are final, and *)
(* the refinement of OneShotPolicy.                                        *)
(***************************************************************************)
EXTENDS PushIngress, TLAPS

\* What the files say for good: a receipt and its event, an acceptance, a
\* binding, a registration.
FilesKept ==
  /\ \A d \in Delivery :
       /\ receipts[d] # None => receipts'[d] # None /\ receipts'[d].event = receipts[d].event
       /\ Accepted(d) => receipts'[d] = receipts[d]
  /\ \A p \in Policy : bindings[p] # None => bindings'[p] = bindings[p]
  /\ registered \subseteq registered'

HandlersConsistent == \A h \in Handler : Consistent(handler[h])

FilesConsistent ==
  /\ \A d \in Delivery : receipts[d] # None => receipts[d].event.delivery = d
  /\ \A d \in Delivery : Accepted(d) => AuthorityIsBound(receipts[d])
  /\ \A p \in Policy : bindings[p] # None => p \in registered
  /\ \A p \in retired : bindings[p] # None
  /\ jobs \subseteq Authorized
  /\ closed \subseteq jobs

LEMMA IInvParts == IInv <=> TypeOK /\ HandlersConsistent /\ FilesConsistent
  BY DEF IInv, HandlersConsistent, FilesConsistent

LEMMA InitIInv == Init => IInv
  <1> SUFFICES ASSUME Init PROVE IInv
    OBVIOUS
  <1>1. TypeOK
    BY CrashAssumption DEF Init, TypeOK, HandlerState, Idle
  <1>2. HandlersConsistent
    BY DEF Init, HandlersConsistent, Consistent, OwnReceipt, Idle
  <1>3. FilesConsistent
    BY DEF Init, FilesConsistent, Accepted, State
  <1> QED
    BY <1>1, <1>2, <1>3, IInvParts

----------------------------------------------------------------------------
(* Steps of one handler                                                     *)

\* A delivery has one event's shape, and the parts of a handler at work exist.
LEMMA AtWork ==
  ASSUME IInv, NEW h \in Handler, handler[h].pc # "idle"
  PROVE  handler[h].event \in Event /\ handler[h].event.delivery \in Delivery
  BY DEF IInv, TypeOK, HandlerState, Consistent, Delivery

\* A handler that is not concerned keeps what it relied on.
LEMMA BystanderKept ==
  ASSUME IInv, FilesKept, NEW x \in Handler, handler'[x] = handler[x]
  PROVE  Consistent(handler[x])'
  <1> DEFINE s == handler[x]
  <1>1. s \in HandlerState /\ Consistent(s)
    BY DEF IInv, TypeOK
  <1>2. s.pc # "idle" => s.event \in Event /\ s.event.delivery \in Delivery
    BY AtWork
  <1>3. OwnReceipt(handler[x])'
    BY <1>1, <1>2 DEF FilesKept, Consistent, OwnReceipt
  <1>4. s.pc = "accept" => bindings'[s.policy] = s.event
    <2>1. s.pc = "accept" => s.policy \in Policy /\ bindings[s.policy] = s.event /\ s.event # None
      BY <1>1 DEF Consistent, IInv, TypeOK
    <2> QED
      BY <2>1 DEF FilesKept
  <1>5. s.pc = "job" => Accepted(s.event.delivery)' /\ receipts'[s.event.delivery].policy = s.policy
    <2>1. s.pc = "job" => Accepted(s.event.delivery) /\ receipts[s.event.delivery].policy = s.policy
      BY <1>1 DEF Consistent
    <2>2. s.pc = "job" => receipts'[s.event.delivery] = receipts[s.event.delivery]
      BY <1>2, <2>1 DEF FilesKept
    <2> QED
      BY <2>1, <2>2 DEF Accepted, State
  <1> QED
    BY <1>1, <1>3, <1>4, <1>5 DEF Consistent, FilesKept

\* A handler's move to a consistent state.
LEMMA MoveKeeps ==
  ASSUME IInv, FilesKept, NEW h \in Handler, NEW s \in HandlerState, Becomes(h, s),
         handler'[h] = s => Consistent(handler[h])'
  PROVE  /\ HandlersConsistent'
         /\ handler' \in [Handler -> HandlerState]
         /\ coordinator' = coordinator /\ crashes' = crashes
  <1>1. handler' \in [Handler -> HandlerState] /\ handler'[h] = s /\ \A x \in Handler \ {h} : handler'[x] = handler[x]
    BY DEF IInv, TypeOK, Becomes
  <1>2. ASSUME NEW x \in Handler PROVE Consistent(handler[x])'
    BY <1>1, BystanderKept
  <1> QED
    BY <1>1, <1>2 DEF HandlersConsistent, Becomes

LEMMA NothingWritten ==
  ASSUME IInv, UNCHANGED <<files, world>>
  PROVE  FilesKept /\ FilesConsistent'
  BY DEF IInv, FilesKept, FilesConsistent, files, world, Accepted, State, AuthorityIsBound, Authorized, IncidentOf

\* ... without a file written.
LEMMA LocalKeeps ==
  ASSUME IInv, UNCHANGED <<files, world>>, NEW h \in Handler, NEW s \in HandlerState, Becomes(h, s),
         handler'[h] = s => Consistent(handler[h])'
  PROVE  IInv'
  <1>1. FilesKept /\ FilesConsistent'
    BY NothingWritten
  <1>2. /\ HandlersConsistent' /\ handler' \in [Handler -> HandlerState]
        /\ coordinator' = coordinator /\ crashes' = crashes
    BY <1>1, MoveKeeps
  <1>3. TypeOK'
    BY <1>2 DEF IInv, TypeOK, files, world
  <1> QED
    BY <1>1, <1>2, <1>3, IInvParts DEF IInv, HandlersConsistent, FilesConsistent

\* The states a handler's local steps lead to.
LEMMA deliverKeeps == ASSUME IInv, NEW h \in Handler, NEW e \in Event, deliver(h, e) PROVE IInv'
  <1> DEFINE s == [Idle EXCEPT !.pc = "find", !.event = e]
  <1>1. s \in HandlerState /\ Becomes(h, s) /\ UNCHANGED <<files, world>>
    BY DEF deliver, Idle, HandlerState
  <1>2. handler'[h] = s => Consistent(handler[h])'
    BY NoneAssumption DEF Idle, Consistent, OwnReceipt
  <1> QED
    BY <1>1, <1>2, LocalKeeps

LEMMA findDedupeRecordKeeps == ASSUME IInv, NEW h \in Handler, findDedupeRecord(h) PROVE IInv'
  <1> DEFINE state == State(handler[h].event.delivery)
             a == [handler[h] EXCEPT !.pc = "reserve"]
             b == [handler[h] EXCEPT !.pc = "active", !.existing = state]
  <1>1. handler[h] \in HandlerState /\ Consistent(handler[h]) /\ handler[h].pc = "find"
    BY DEF IInv, TypeOK, findDedupeRecord, At
  <1>2. state \in {"ABSENT", "RESERVED", "ACCEPTED", "REJECTED"}
    BY <1>1, AtWork DEF State, IInv, TypeOK, Receipt
  <1>3. CASE state \in {"ACCEPTED", "REJECTED"}
    <2>1. a \in HandlerState /\ Becomes(h, a) /\ UNCHANGED <<files, world>>
      BY <1>1, <1>3 DEF findDedupeRecord, Goto, HandlerState
    <2>2. handler'[h] = a => Consistent(handler[h])'
      BY <1>1, <2>1 DEF Consistent, OwnReceipt, HandlerState, world
    <2> QED
      BY <2>1, <2>2, LocalKeeps
  <1>4. CASE state \notin {"ACCEPTED", "REJECTED"}
    <2>1. b \in HandlerState /\ Becomes(h, b) /\ UNCHANGED <<files, world>>
      BY <1>1, <1>2, <1>4 DEF findDedupeRecord, HandlerState
    <2>2. handler'[h] = b => Consistent(handler[h])'
      BY <1>1, <2>1 DEF Consistent, OwnReceipt, HandlerState, world
    <2> QED
      BY <2>1, <2>2, LocalKeeps
  <1> QED
    BY <1>3, <1>4

LEMMA activePolicyRecordsKeeps == ASSUME IInv, NEW h \in Handler, activePolicyRecords(h) PROVE IInv'
  <1> DEFINE s == [handler[h] EXCEPT !.pc = "bound", !.policies = Active]
  <1>1. handler[h] \in HandlerState /\ Consistent(handler[h]) /\ handler[h].pc = "active"
    BY DEF IInv, TypeOK, activePolicyRecords, At
  <1>2. Active \subseteq registered /\ registered \subseteq Policy
    BY DEF Active, IInv, TypeOK
  <1>3. s \in HandlerState /\ Becomes(h, s) /\ UNCHANGED <<files, world>>
    BY <1>1, <1>2 DEF activePolicyRecords, HandlerState
  <1>4. handler'[h] = s => Consistent(handler[h])'
    BY <1>1, <1>2, <1>3 DEF Consistent, OwnReceipt, HandlerState, world
  <1> QED
    BY <1>3, <1>4, LocalKeeps

LEMMA boundPoliciesKeeps == ASSUME IInv, NEW h \in Handler, boundPolicies(h) PROVE IInv'
  <1>1. handler[h] \in HandlerState /\ Consistent(handler[h]) /\ handler[h].pc = "bound"
    BY DEF IInv, TypeOK, boundPolicies, At
  <1>2. handler[h].event \in Event /\ handler[h].event # None
    BY <1>1, AtWork, NoneAssumption
  <1>3. BoundTo(handler[h].event) \subseteq registered /\ BoundToAny \subseteq registered /\ registered \subseteq Policy
    BY <1>2 DEF BoundTo, BoundToAny, IInv, TypeOK
  <1>4. PICK found \in SUBSET registered, own \in BOOLEAN :
          Becomes(h, [handler[h] EXCEPT !.pc = "reserve", !.existing = "ABSENT", !.policies = found, !.bound = own])
    <2> DEFINE s == [handler[h] EXCEPT !.pc = "reserve", !.existing = "ABSENT"]
               t(found, own) == [handler[h] EXCEPT !.pc = "reserve", !.existing = "ABSENT", !.policies = found, !.bound = own]
    <2>1. handler[h].policies \subseteq registered /\ handler[h].bound \in BOOLEAN
      BY <1>1 DEF Consistent, HandlerState
    <2>2. s.event = handler[h].event /\ s.policies = handler[h].policies
      BY <1>1 DEF HandlerState
    <2>3. s = t(handler[h].policies, handler[h].bound)
      BY <1>1 DEF HandlerState
    <2>4. ASSUME NEW p PROVE [s EXCEPT !.policies = @ \cup {p}, !.bound = TRUE] = t(handler[h].policies \cup {p}, TRUE)
      BY <1>1 DEF HandlerState
    <2>5. [s EXCEPT !.policies = BoundToAny] = t(BoundToAny, handler[h].bound)
      BY <1>1 DEF HandlerState
    <2>6. \/ \E p \in BoundTo(handler[h].event) : Becomes(h, [s EXCEPT !.policies = @ \cup {p}, !.bound = TRUE])
          \/ Becomes(h, s)
          \/ Becomes(h, [s EXCEPT !.policies = BoundToAny])
      BY <2>2 DEF boundPolicies
    <2>7. CASE \E p \in BoundTo(handler[h].event) : Becomes(h, [s EXCEPT !.policies = @ \cup {p}, !.bound = TRUE])
      <3>1. PICK p \in BoundTo(handler[h].event) : Becomes(h, t(handler[h].policies \cup {p}, TRUE))
        BY <2>4, <2>7
      <3>2. handler[h].policies \cup {p} \in SUBSET registered
        BY <1>3, <2>1
      <3> QED
        BY <3>1, <3>2
    <2>8. CASE Becomes(h, s)
      BY <2>1, <2>3, <2>8
    <2>9. CASE Becomes(h, [s EXCEPT !.policies = BoundToAny])
      BY <1>3, <2>1, <2>5, <2>9
    <2> QED
      BY <2>6, <2>7, <2>8, <2>9
  <1> DEFINE n == [handler[h] EXCEPT !.pc = "reserve", !.existing = "ABSENT", !.policies = found, !.bound = own]
  <1>5. n \in HandlerState /\ UNCHANGED <<files, world>>
    BY <1>1, <1>3 DEF boundPolicies, HandlerState
  <1>6. handler'[h] = n => Consistent(handler[h])'
    BY <1>1, <1>5 DEF Consistent, OwnReceipt, HandlerState, world
  <1> QED
    BY <1>4, <1>5, <1>6, LocalKeeps

\* A step that only moves the program counter, to a place whose facts hold.
LEMMA GotoKeeps ==
  ASSUME IInv, UNCHANGED <<files, world>>, NEW h \in Handler,
         NEW pc \in {"check", "recheck", "link", "accept", "reject"}, Goto(h, pc),
         handler[h].pc \in {"read", "check", "recheck"},
         pc # "reject" => <<handler[h].event, handler[h].policy>> \in Causal,
         pc = "accept" => bindings[handler[h].policy] = handler[h].event
  PROVE  IInv'
  <1> DEFINE s == [handler[h] EXCEPT !.pc = pc]
  <1>1. handler[h] \in HandlerState /\ Consistent(handler[h])
    BY DEF IInv, TypeOK
  <1>2. s \in HandlerState /\ Becomes(h, s)
    BY <1>1 DEF HandlerState, Goto
  <1>3. handler'[h] = s => Consistent(handler[h])'
    BY <1>1 DEF Consistent, OwnReceipt, HandlerState, world, files
  <1> QED
    BY <1>2, <1>3, LocalKeeps

LEMMA readObservationsKeeps == ASSUME IInv, NEW h \in Handler, readObservations(h) PROVE IInv'
  <1>1. CASE Verified(handler[h].event, handler[h].policy) /\ Goto(h, "check")
    BY <1>1, GotoKeeps DEF readObservations, At, Verified
  <1>2. CASE Goto(h, "reject")
    BY <1>2, GotoKeeps DEF readObservations, At
  <1> QED
    BY <1>1, <1>2 DEF readObservations

\* What a handler past its read knows.
LEMMA PastRead ==
  ASSUME IInv, NEW h \in Handler, handler[h].pc \in {"check", "recheck", "link", "accept"}
  PROVE  /\ handler[h].policy \in Policy /\ handler[h].policy \in registered
         /\ handler[h].event \in Event /\ handler[h].event.delivery \in Delivery
         /\ <<handler[h].event, handler[h].policy>> \in Causal
         /\ receipts[handler[h].event.delivery] # None
         /\ receipts[handler[h].event.delivery].event = handler[h].event
  BY AtWork DEF IInv, TypeOK, Consistent, OwnReceipt

LEMMA checkBindingKeeps == ASSUME IInv, NEW h \in Handler, checkBinding(h) PROVE IInv'
  <1>1. handler[h].pc = "check" /\ UNCHANGED <<files, world>>
    BY DEF checkBinding, At
  <1>2. <<handler[h].event, handler[h].policy>> \in Causal
    BY <1>1, PastRead
  <1>3. CASE Goto(h, "recheck")
    BY <1>1, <1>2, <1>3, GotoKeeps
  <1>4. CASE Goto(h, "accept") /\ BoundToThis(handler[h].policy, handler[h].event)
    BY <1>1, <1>2, <1>4, GotoKeeps DEF BoundToThis
  <1>5. CASE Goto(h, "reject")
    BY <1>1, <1>5, GotoKeeps
  <1> QED
    BY <1>3, <1>4, <1>5 DEF checkBinding

LEMMA recheckBindingKeeps == ASSUME IInv, NEW h \in Handler, recheckBinding(h) PROVE IInv'
  <1>1. handler[h].pc = "recheck" /\ UNCHANGED <<files, world>>
    BY DEF recheckBinding, At
  <1>2. <<handler[h].event, handler[h].policy>> \in Causal
    BY <1>1, PastRead
  <1>3. CASE Goto(h, "link")
    BY <1>1, <1>2, <1>3, GotoKeeps
  <1>4. CASE Goto(h, "reject")
    BY <1>1, <1>4, GotoKeeps
  <1> QED
    BY <1>3, <1>4 DEF recheckBinding

----------------------------------------------------------------------------
(* Steps of one handler that write a file                                   *)

\* A write that keeps what the files said, with a move of the writer.
LEMMA WriterKeeps ==
  ASSUME IInv, FilesKept, NEW h \in Handler, NEW s \in HandlerState, Becomes(h, s),
         handler'[h] = s => Consistent(handler[h])',
         receipts' \in [Delivery -> Receipt \cup {None}], bindings' \in [Policy -> Event \cup {None}],
         jobs' \subseteq Incident, UNCHANGED world, FilesConsistent'
  PROVE  IInv'
  <1>1. /\ HandlersConsistent' /\ handler' \in [Handler -> HandlerState]
        /\ coordinator' = coordinator /\ crashes' = crashes
    BY MoveKeeps
  <1>2. TypeOK'
    BY <1>1 DEF IInv, TypeOK, world
  <1> QED
    BY <1>1, <1>2 DEF IInv, HandlersConsistent, FilesConsistent

\* Authorized depends on the accepted receipts only.
LEMMA AuthorizedKept ==
  ASSUME \A d \in Delivery : Accepted(d) => receipts'[d] = receipts[d],
         \A d \in Delivery : Accepted(d)' => receipts'[d] = receipts[d]
  PROVE  Authorized' = Authorized
  BY DEF Authorized, Accepted, State, IncidentOf

\* A write to an undecided receipt that does not accept it.
LEMMA ReceiptWrite ==
  ASSUME IInv, NEW d \in Delivery, NEW r \in Receipt, receipts' = [receipts EXCEPT ![d] = r],
         r.event.delivery = d, r.state # "ACCEPTED",
         receipts[d] # None => receipts[d].event = r.event /\ receipts[d].state # "ACCEPTED",
         UNCHANGED <<bindings, jobs, world>>
  PROVE  /\ FilesKept /\ FilesConsistent' /\ Authorized' = Authorized
         /\ receipts' \in [Delivery -> Receipt \cup {None}] /\ receipts'[d] = r
  <1>1. receipts' \in [Delivery -> Receipt \cup {None}] /\ receipts'[d] = r /\ r # None
    BY ReceiptAssumption DEF IInv, TypeOK
  <1>2. \A q \in Delivery \ {d} : receipts'[q] = receipts[q]
    BY DEF IInv, TypeOK
  <1>3. ~Accepted(d) /\ ~Accepted(d)'
    BY <1>1 DEF Accepted, State
  <1>4. FilesKept
    BY <1>1, <1>2, <1>3 DEF FilesKept, world
  <1>5. \A q \in Delivery : Accepted(q)' => Accepted(q) /\ receipts'[q] = receipts[q]
    BY <1>2, <1>3 DEF Accepted, State
  <1>6. Authorized' = Authorized
    BY <1>4, <1>5, AuthorizedKept DEF FilesKept
  <1>7. FilesConsistent'
    BY <1>1, <1>2, <1>5, <1>6 DEF IInv, FilesConsistent, AuthorityIsBound, world
  <1> QED
    BY <1>1, <1>4, <1>6, <1>7

\* Where Matched leads a handler.
MatchState(s, pc, policy) == [s EXCEPT !.pc = pc, !.policies = {}, !.policy = policy]

LEMMA MatchedMoves ==
  ASSUME IInv, NEW h \in Handler, handler[h].pc = "reserve", Matched(h)
  PROVE  \E pc \in {"read", "reject"}, p \in Policy \cup {None} :
           /\ pc = "read" => p \in registered
           /\ Becomes(h, MatchState(handler[h], pc, p))
  <1>1. handler[h] \in HandlerState /\ handler[h].policies \subseteq registered /\ registered \subseteq Policy
    BY DEF IInv, TypeOK, Consistent
  <1>2. CASE \E p \in handler[h].policies :
               Becomes(h, [handler[h] EXCEPT !.pc = "read", !.policies = {}, !.policy = p])
    BY <1>1, <1>2 DEF MatchState
  <1>3. CASE Becomes(h, [handler[h] EXCEPT !.pc = "reject", !.policies = {}])
    <2>1. [handler[h] EXCEPT !.pc = "reject", !.policies = {}] = MatchState(handler[h], "reject", handler[h].policy)
      BY <1>1 DEF MatchState, HandlerState
    <2>2. handler[h].policy \in Policy \cup {None}
      BY <1>1 DEF HandlerState
    <2> QED
      BY <1>3, <2>1, <2>2
  <1> QED
    BY <1>2, <1>3 DEF Matched

LEMMA reserveDedupeKeeps == ASSUME IInv, NEW h \in Handler, reserveDedupe(h) PROVE IInv'
  <1> DEFINE e == handler[h].event
             d == e.delivery
             r == receipts[d]
             n == [event |-> e, state |-> "RESERVED", policy |-> None]
  <1>1. handler[h] \in HandlerState /\ handler[h].pc = "reserve" /\ UNCHANGED <<bindings, jobs, world>>
    BY DEF IInv, TypeOK, reserveDedupe, At
  <1>2. e \in Event /\ d \in Delivery
    BY <1>1, AtWork
  <1>3. ASSUME NEW pc \in {"read", "reject"}, NEW p \in Policy \cup {None}, pc = "read" => p \in registered
        PROVE  /\ MatchState(handler[h], pc, p) \in HandlerState
               /\ MatchState(handler[h], pc, p).pc = pc /\ MatchState(handler[h], pc, p).event = e
               /\ MatchState(handler[h], pc, p).policies = {} /\ MatchState(handler[h], pc, p).policy = p
    BY <1>1, <1>3 DEF MatchState, HandlerState
  <1>4. CASE r = None /\ receipts' = [receipts EXCEPT ![d] = n] /\ Matched(h)
    <2>1. PICK pc \in {"read", "reject"}, p \in Policy \cup {None} :
            (pc = "read" => p \in registered) /\ Becomes(h, MatchState(handler[h], pc, p))
      BY <1>1, <1>4, MatchedMoves
    <2>2. n \in Receipt /\ n.event = e /\ n.state = "RESERVED"
      BY <1>2 DEF Receipt
    <2>3. /\ FilesKept /\ FilesConsistent'
          /\ receipts' \in [Delivery -> Receipt \cup {None}] /\ receipts'[d] = n
      BY <1>1, <1>2, <1>4, <2>2, ReceiptWrite
    <2>4. n # None
      BY <2>2, ReceiptAssumption
    <2>5. handler'[h] = MatchState(handler[h], pc, p) => Consistent(handler[h])'
      <3> SUFFICES ASSUME handler'[h] = MatchState(handler[h], pc, p) PROVE Consistent(handler[h])'
        OBVIOUS
      <3>1. /\ handler'[h].pc = pc /\ handler'[h].event = e
            /\ handler'[h].policies = {} /\ handler'[h].policy = p
        BY <1>3, <2>1
      <3>2. e # None
        BY <1>2, NoneAssumption
      <3>3. OwnReceipt(handler[h])'
        BY <2>2, <2>3, <2>4, <3>1 DEF OwnReceipt
      <3> QED
        BY <1>1, <2>1, <3>1, <3>2, <3>3 DEF Consistent, world
    <2>6. MatchState(handler[h], pc, p) \in HandlerState
      BY <1>3, <2>1
    <2>7. bindings' \in [Policy -> Event \cup {None}] /\ jobs' \subseteq Incident
      BY <1>1 DEF IInv, TypeOK
    <2> QED
      BY <1>1, <2>1, <2>3, <2>5, <2>6, <2>7, WriterKeeps
  <1>5. CASE r # None /\ UNCHANGED receipts /\ Becomes(h, Idle)
    <2>1. Idle \in HandlerState
      BY DEF Idle, HandlerState
    <2>2. handler'[h] = Idle => Consistent(handler[h])'
      BY DEF Idle, Consistent, OwnReceipt
    <2> QED
      BY <1>1, <1>5, <2>1, <2>2, LocalKeeps DEF files
  <1>6. CASE /\ r # None /\ UNCHANGED receipts /\ r.event = e /\ r.state = "ACCEPTED"
             /\ Becomes(h, [Idle EXCEPT !.pc = "job", !.event = r.event, !.policy = r.policy])
    <2> DEFINE s == [Idle EXCEPT !.pc = "job", !.event = r.event, !.policy = r.policy]
    <2>1. r \in Receipt
      BY <1>2, <1>6 DEF IInv, TypeOK
    <2>2. s \in HandlerState
      BY <2>1 DEF Receipt, Idle, HandlerState
    <2>3. handler'[h] = s => Consistent(handler[h])'
      BY <1>2, <1>6, NoneAssumption DEF Idle, Consistent, OwnReceipt, Accepted, State
    <2> QED
      BY <1>1, <1>6, <2>2, <2>3, LocalKeeps DEF files
  <1>7. CASE r # None /\ UNCHANGED receipts /\ r.event = e /\ Matched(h)
    <2>1. PICK pc \in {"read", "reject"}, p \in Policy \cup {None} :
            (pc = "read" => p \in registered) /\ Becomes(h, MatchState(handler[h], pc, p))
      BY <1>1, <1>7, MatchedMoves
    <2>2. handler'[h] = MatchState(handler[h], pc, p) => Consistent(handler[h])'
      <3> SUFFICES ASSUME handler'[h] = MatchState(handler[h], pc, p) PROVE Consistent(handler[h])'
        OBVIOUS
      <3>1. /\ handler'[h].pc = pc /\ handler'[h].event = e
            /\ handler'[h].policies = {} /\ handler'[h].policy = p
        BY <1>3, <2>1
      <3>2. e # None /\ OwnReceipt(handler[h])'
        BY <1>2, <1>7, <3>1, NoneAssumption DEF OwnReceipt
      <3> QED
        BY <1>1, <2>1, <3>1, <3>2 DEF Consistent, world
    <2>3. MatchState(handler[h], pc, p) \in HandlerState
      BY <1>3, <2>1
    <2> QED
      BY <1>1, <1>7, <2>1, <2>2, <2>3, LocalKeeps DEF files
  <1> QED
    BY <1>4, <1>5, <1>6, <1>7 DEF reserveDedupe

\* A decided receipt.
Decided(r, state, policy) == [event |-> r.event, state |-> state, policy |-> policy]

LEMMA DecideWrites ==
  ASSUME IInv, NEW d \in Delivery, receipts[d] # None, NEW state, NEW policy, Decide(d, state, policy)
  PROVE  receipts' = [receipts EXCEPT ![d] = Decided(receipts[d], state, policy)]
  <1> DEFINE once == [receipts EXCEPT ![d].state = state]
  <1>1. receipts \in [Delivery -> Receipt \cup {None}] /\ receipts[d] \in Receipt
    BY DEF IInv, TypeOK
  <1>2. once = [receipts EXCEPT ![d] = [event |-> receipts[d].event, state |-> state, policy |-> receipts[d].policy]]
    <2>1. [receipts[d] EXCEPT !.state = state] = [event |-> receipts[d].event, state |-> state, policy |-> receipts[d].policy]
      BY <1>1 DEF Receipt
    <2>2. once = [receipts EXCEPT ![d] = [receipts[d] EXCEPT !.state = state]]
      OBVIOUS
    <2> QED
      BY <2>1, <2>2, Zenon
  <1>3. once[d] = [event |-> receipts[d].event, state |-> state, policy |-> receipts[d].policy]
    BY <1>1, <1>2
  <1>4. [once[d] EXCEPT !.policy = policy] = Decided(receipts[d], state, policy)
    BY <1>3 DEF Decided
  <1>5. receipts' = [once EXCEPT ![d].policy = policy]
    BY DEF Decide
  <1>6. receipts' = [once EXCEPT ![d] = [once[d] EXCEPT !.policy = policy]]
    BY <1>5
  <1>7. receipts' = [once EXCEPT ![d] = Decided(receipts[d], state, policy)]
    BY <1>4, <1>6
  <1> HIDE DEF once
  <1> DEFINE prev == [event |-> receipts[d].event, state |-> state, policy |-> receipts[d].policy]
             next == Decided(receipts[d], state, policy)
  <1>8. once = [receipts EXCEPT ![d] = prev] /\ receipts' = [once EXCEPT ![d] = next]
    BY <1>2, <1>7
  <1> HIDE DEF prev, next
  <1>9. receipts' = [receipts EXCEPT ![d] = next]
    BY <1>1, <1>8
  <1> QED
    BY <1>9 DEF next

LEMMA rejectReceiptKeeps == ASSUME IInv, NEW h \in Handler, rejectReceipt(h) PROVE IInv'
  <1> DEFINE d == handler[h].event.delivery
             r == receipts[d]
             n == Decided(r, "REJECTED", None)
  <1>1. handler[h].pc = "reject" /\ UNCHANGED <<bindings, jobs, world>> /\ Becomes(h, Idle)
    BY DEF rejectReceipt, At
  <1>2. d \in Delivery /\ r # None /\ r.event = handler[h].event /\ handler[h].event \in Event
    BY <1>1, AtWork DEF IInv, Consistent, OwnReceipt
  <1>3. Idle \in HandlerState /\ (handler'[h] = Idle => Consistent(handler[h])')
    BY DEF Idle, HandlerState, Consistent, OwnReceipt
  <1>4. CASE UNCHANGED receipts
    BY <1>1, <1>3, <1>4, LocalKeeps DEF files
  <1>5. CASE Finalizable(d) /\ Decide(d, "REJECTED", None)
    <2>1. r \in Receipt /\ r.state = "RESERVED"
      BY <1>2, <1>5 DEF IInv, TypeOK, Finalizable
    <2>2. n \in Receipt /\ n.event = r.event /\ n.state = "REJECTED"
      BY <2>1 DEF Receipt, Decided
    <2>3. receipts' = [receipts EXCEPT ![d] = n]
      BY <1>2, <1>5, DecideWrites
    <2>4. n.event.delivery = d
      BY <1>2, <2>2
    <2> HIDE DEF n
    <2>5. FilesKept /\ FilesConsistent' /\ receipts' \in [Delivery -> Receipt \cup {None}]
      BY <1>1, <1>2, <2>1, <2>2, <2>3, <2>4, ReceiptWrite
    <2>6. bindings' \in [Policy -> Event \cup {None}] /\ jobs' \subseteq Incident
      BY <1>1 DEF IInv, TypeOK
    <2> QED
      BY <1>1, <1>3, <2>5, <2>6, WriterKeeps
  <1> QED
    BY <1>4, <1>5 DEF rejectReceipt

LEMMA acceptReceiptKeeps == ASSUME IInv, NEW h \in Handler, acceptReceipt(h) PROVE IInv'
  <1>1. handler[h] \in HandlerState /\ handler[h].pc = "accept" /\ UNCHANGED <<bindings, jobs, world>>
    BY DEF IInv, TypeOK, acceptReceipt, At
  <1>2. PICK e \in Event, d \in Delivery, p \in registered :
          /\ e = handler[h].event /\ d = e.delivery /\ p = handler[h].policy
          /\ p \in Policy /\ <<e, p>> \in Causal
          /\ receipts[d] # None /\ receipts[d].event = e /\ bindings[p] = e
    BY <1>1, PastRead DEF IInv, Consistent
  <1> DEFINE n == Decided(receipts[d], "ACCEPTED", p)
             s == [handler[h] EXCEPT !.pc = "job"]
  <1>3. CASE UNCHANGED receipts /\ Becomes(h, Idle)
    <2>1. Idle \in HandlerState /\ (handler'[h] = Idle => Consistent(handler[h])')
      BY DEF Idle, HandlerState, Consistent, OwnReceipt
    <2> QED
      BY <1>1, <1>3, <2>1, LocalKeeps DEF files
  <1>4. CASE Finalizable(d) /\ Decide(d, "ACCEPTED", p) /\ Goto(h, "job")
    <2>1. n \in Receipt /\ n.event = e /\ n.state = "ACCEPTED" /\ n.policy = p
      BY <1>2 DEF Decided, Receipt
    <2>2. receipts' = [receipts EXCEPT ![d] = n]
      BY <1>2, <1>4, DecideWrites
    <2> HIDE DEF n
    <2>3. /\ receipts' \in [Delivery -> Receipt \cup {None}] /\ receipts'[d] = n /\ n # None
          /\ \A q \in Delivery \ {d} : receipts'[q] = receipts[q]
      BY <1>2, <2>1, <2>2, ReceiptAssumption DEF IInv, TypeOK
    <2>4. ~Accepted(d) /\ Accepted(d)'
      <3>1. ~Accepted(d)
        BY <1>2, <1>4 DEF Accepted, State, Finalizable
      <3>2. receipts'[d].state = "ACCEPTED" /\ receipts'[d] # None
        BY <2>1, <2>3
      <3> QED
        BY <3>1, <3>2 DEF Accepted, State
    <2>5. FilesKept
      BY <1>1, <1>2, <2>1, <2>3, <2>4 DEF FilesKept, world
    <2>6. Authorized \subseteq Authorized'
      <3>1. ASSUME NEW q \in Delivery, Accepted(q) PROVE Accepted(q)' /\ IncidentOf(q)' = IncidentOf(q)
        BY <2>5, <3>1 DEF FilesKept, Accepted, State, IncidentOf
      <3> QED
        BY <3>1 DEF Authorized
    <2>7. AuthorityIsBound(receipts[d])'
      <3>1. receipts'[d].policy = p /\ receipts'[d].event = e /\ bindings' = bindings
        BY <1>1, <2>1, <2>3
      <3> QED
        BY <1>2, <3>1 DEF AuthorityIsBound
    <2>8. FilesConsistent'
      <3>1. \A q \in Delivery : receipts'[q] # None => receipts'[q].event.delivery = q
        BY <1>2, <2>1, <2>3 DEF IInv
      <3>2. ASSUME NEW q \in Delivery, Accepted(q)' PROVE AuthorityIsBound(receipts[q])'
        <4>1. CASE q = d
          BY <2>7, <4>1
        <4>2. CASE q # d
          <5>1. receipts'[q] = receipts[q] /\ bindings' = bindings
            BY <1>1, <2>3, <4>2
          <5>2. Accepted(q)
            BY <3>2, <5>1 DEF Accepted, State
          <5>3. AuthorityIsBound(receipts[q])
            BY <5>2 DEF IInv
          <5> QED
            BY <5>1, <5>3 DEF AuthorityIsBound
        <4> QED
          BY <4>1, <4>2
      <3> QED
        BY <1>1, <2>6, <3>1, <3>2 DEF IInv, FilesConsistent, world
    <2>9. s \in HandlerState /\ Becomes(h, s)
      BY <1>1, <1>4 DEF Goto, HandlerState
    <2>10. handler'[h] = s => Consistent(handler[h])'
      <3> SUFFICES ASSUME handler'[h] = s PROVE Consistent(handler[h])'
        OBVIOUS
      <3>1. handler'[h].pc = "job" /\ handler'[h].event = e /\ handler'[h].policy = p /\ handler'[h].policies = handler[h].policies
        BY <1>1, <1>2 DEF HandlerState
      <3>2. e # None /\ handler[h].policies \subseteq registered
        BY <1>2, NoneAssumption DEF IInv, Consistent
      <3>3. OwnReceipt(handler[h])'
        BY <1>2, <2>1, <2>3, <3>1 DEF OwnReceipt
      <3> QED
        BY <1>1, <1>2, <2>1, <2>3, <2>4, <3>1, <3>2, <3>3 DEF Consistent, world
    <2>11. bindings' \in [Policy -> Event \cup {None}] /\ jobs' \subseteq Incident
      BY <1>1 DEF IInv, TypeOK
    <2> QED
      BY <1>1, <2>3, <2>5, <2>8, <2>9, <2>10, <2>11, WriterKeeps
  <1> QED
    BY <1>2, <1>3, <1>4 DEF acceptReceipt

LEMMA linkBindingKeeps == ASSUME IInv, NEW h \in Handler, linkBinding(h) PROVE IInv'
  <1> DEFINE e == handler[h].event
             p == handler[h].policy
             a == [handler[h] EXCEPT !.pc = "accept"]
             b == [handler[h] EXCEPT !.pc = "reject"]
  <1>1. /\ handler[h] \in HandlerState /\ Consistent(handler[h]) /\ handler[h].pc = "link"
        /\ UNCHANGED <<receipts, jobs, world>>
    BY DEF IInv, TypeOK, linkBinding, At
  <1>2. e \in Event /\ e # None /\ p \in Policy /\ p \in registered /\ <<e, p>> \in Causal
    BY <1>1, PastRead, NoneAssumption
  <1>3. a \in HandlerState /\ b \in HandlerState
    BY <1>1 DEF HandlerState
  <1>4. handler'[h] = a /\ bindings'[p] = e => Consistent(handler[h])'
    <2> SUFFICES ASSUME handler'[h] = a, bindings'[p] = e PROVE Consistent(handler[h])'
      OBVIOUS
    <2>1. handler'[h].pc = "accept" /\ handler'[h].event = e /\ handler'[h].policy = p /\ handler'[h].policies = handler[h].policies
      BY <1>1 DEF HandlerState
    <2> QED
      BY <1>1, <1>2, <2>1 DEF Consistent, OwnReceipt, world
  <1>5. CASE UNCHANGED bindings /\ BoundToThis(p, e) /\ Goto(h, "accept")
    <2>1. bindings'[p] = e
      BY <1>5 DEF BoundToThis
    <2>2. Becomes(h, a)
      BY <1>5 DEF Goto
    <2> QED
      BY <1>1, <1>3, <1>4, <1>5, <2>1, <2>2, LocalKeeps DEF files
  <1>6. CASE UNCHANGED bindings /\ Goto(h, "reject")
    <2>1. handler'[h] = b => Consistent(handler[h])'
      BY <1>1, <1>2 DEF HandlerState, Consistent, OwnReceipt, world
    <2>2. Becomes(h, b)
      BY <1>6 DEF Goto
    <2> QED
      BY <1>1, <1>3, <1>6, <2>1, <2>2, LocalKeeps DEF files
  <1>7. CASE Linkable(p) /\ bindings' = [bindings EXCEPT ![p] = e] /\ Goto(h, "accept")
    <2>1. /\ bindings' \in [Policy -> Event \cup {None}] /\ bindings'[p] = e /\ bindings[p] = None
          /\ \A q \in Policy \ {p} : bindings'[q] = bindings[q]
      BY <1>2, <1>7 DEF IInv, TypeOK, Linkable
    <2>2. FilesKept
      BY <1>1, <2>1 DEF FilesKept, world
    <2>3. Authorized' = Authorized /\ \A d \in Delivery : Accepted(d)' = Accepted(d)
      BY <1>1 DEF Authorized, Accepted, State, IncidentOf
    <2>4. ASSUME NEW d \in Delivery, Accepted(d)' PROVE AuthorityIsBound(receipts[d])'
      <3>1. AuthorityIsBound(receipts[d]) /\ receipts[d] \in Receipt
        BY <2>3, <2>4 DEF IInv, TypeOK, Accepted, State
      <3>2. receipts[d].event # None
        BY <3>1, NoneAssumption DEF Receipt
      <3> QED
        BY <1>1, <2>1, <3>1, <3>2 DEF AuthorityIsBound
    <2>5. FilesConsistent'
      BY <1>1, <1>2, <2>1, <2>3, <2>4 DEF IInv, TypeOK, FilesConsistent, world
    <2>6. Becomes(h, a)
      BY <1>7 DEF Goto
    <2>7. receipts' \in [Delivery -> Receipt \cup {None}] /\ jobs' \subseteq Incident
      BY <1>1 DEF IInv, TypeOK
    <2> QED
      BY <1>1, <1>3, <1>4, <2>1, <2>2, <2>5, <2>6, <2>7, WriterKeeps
  <1> QED
    BY <1>5, <1>6, <1>7 DEF linkBinding

\* A job made of an authorized incident.
LEMMA JobMade ==
  ASSUME IInv, NEW i \in Authorized, jobs' = jobs \cup {i}, UNCHANGED <<receipts, bindings, world>>
  PROVE  FilesKept /\ FilesConsistent' /\ jobs' \subseteq Incident
  <1>1. Authorized' = Authorized
    BY DEF Authorized, Accepted, State, IncidentOf
  <1>2. i \in Incident
    <2>1. PICK d \in Delivery : Accepted(d) /\ i = IncidentOf(d)
      BY DEF Authorized
    <2>2. receipts[d] \in Receipt /\ receipts[d].policy \in Policy
      BY <2>1 DEF IInv, TypeOK, Accepted, State, AuthorityIsBound
    <2> QED
      BY <2>1, <2>2 DEF Receipt, Incident, IncidentOf
  <1> QED
    BY <1>1, <1>2 DEF IInv, TypeOK, FilesKept, FilesConsistent, Accepted, State, AuthorityIsBound, world

LEMMA createJobKeeps == ASSUME IInv, NEW h \in Handler, createJob(h) PROVE IInv'
  <1> DEFINE i == [policy |-> handler[h].policy, event |-> handler[h].event]
             d == handler[h].event.delivery
  <1>1. handler[h].pc = "job" /\ jobs' = jobs \cup {i} /\ Becomes(h, Idle) /\ UNCHANGED <<receipts, bindings, world>>
    BY DEF createJob, At
  <1>2. /\ d \in Delivery /\ Accepted(d) /\ receipts[d].policy = handler[h].policy
        /\ receipts[d].event = handler[h].event
    BY <1>1, AtWork DEF IInv, Consistent, OwnReceipt
  <1>3. i \in Authorized
    BY <1>2 DEF Authorized, IncidentOf
  <1>4. FilesKept /\ FilesConsistent' /\ jobs' \subseteq Incident
    BY <1>1, <1>3, JobMade
  <1>5. Idle \in HandlerState /\ (handler'[h] = Idle => Consistent(handler[h])')
    BY DEF Idle, HandlerState, Consistent, OwnReceipt
  <1>6. receipts' \in [Delivery -> Receipt \cup {None}] /\ bindings' \in [Policy -> Event \cup {None}]
    BY <1>1 DEF IInv, TypeOK
  <1> QED
    BY <1>1, <1>4, <1>5, <1>6, WriterKeeps

----------------------------------------------------------------------------
(* Steps of no handler                                                      *)

LEMMA WorldKeeps ==
  ASSUME IInv, FilesKept, handler' = handler, TypeOK', FilesConsistent'
  PROVE  IInv'
  <1>1. \A x \in Handler : Consistent(handler[x])'
    BY BystanderKept
  <1> QED
    BY <1>1 DEF IInv, FilesConsistent

LEMMA crashKeeps == ASSUME IInv, crash PROVE IInv'
  <1>1. UNCHANGED <<files, world>>
    BY DEF crash
  <1>2. FilesConsistent'
    BY <1>1, NothingWritten
  <1>3. handler' = [h \in Handler |-> Idle] /\ coordinator' = "down" /\ crashes' \in 0..MaxCrashes
    BY CrashAssumption DEF crash, IInv, TypeOK
  <1>4. TypeOK'
    BY <1>1, <1>3 DEF IInv, TypeOK, files, world, Idle, HandlerState
  <1>5. \A h \in Handler : Consistent(handler[h])'
    BY <1>3 DEF Idle, Consistent, OwnReceipt
  <1> QED
    BY <1>2, <1>4, <1>5 DEF IInv, FilesConsistent

LEMMA RecoverKeeps == ASSUME IInv, Recover PROVE IInv'
  <1>1. CASE start \/ listen
    <2>1. /\ UNCHANGED <<files, world, handler, crashes>>
          /\ coordinator' \in {"listening", "down", "recovering"}
      BY <1>1 DEF start, listen
    <2>2. FilesKept /\ FilesConsistent'
      BY <2>1, NothingWritten
    <2>3. TypeOK'
      BY <2>1 DEF IInv, TypeOK, files, world
    <2> QED
      BY <2>1, <2>2, <2>3, WorldKeeps
  <1>2. ASSUME NEW d \in Delivery, recoverReceipt(d) PROVE IInv'
    <2>1. /\ Accepted(d) /\ jobs' = jobs \cup {IncidentOf(d)}
          /\ UNCHANGED <<receipts, bindings, world, handler, coordinator, crashes>>
      BY <1>2 DEF recoverReceipt, NeedsJob, Accepted
    <2>2. IncidentOf(d) \in Authorized
      BY <2>1 DEF Authorized
    <2>3. FilesKept /\ FilesConsistent' /\ jobs' \subseteq Incident
      BY <2>1, <2>2, JobMade
    <2>4. TypeOK'
      BY <2>1, <2>3 DEF IInv, TypeOK, world
    <2> QED
      BY <2>1, <2>3, <2>4, WorldKeeps
  <1> QED
    BY <1>1, <1>2 DEF Recover

\* Policies, incidents and retirements: the receipts and bindings stay.
LEMMA RegistryKeeps ==
  ASSUME IInv, UNCHANGED <<files, handler, coordinator, crashes>>,
         registered \subseteq registered', registered' \subseteq Policy,
         closed' \subseteq jobs, retired' \subseteq Policy,
         \A p \in retired' : bindings[p] # None
  PROVE  IInv'
  <1>1. Authorized' = Authorized
    BY DEF Authorized, Accepted, State, IncidentOf, files
  <1>2. FilesKept
    BY DEF FilesKept, files
  <1>3. FilesConsistent'
    BY <1>1 DEF IInv, FilesConsistent, files, Accepted, State, AuthorityIsBound
  <1>4. TypeOK'
    BY DEF IInv, TypeOK, files
  <1> QED
    BY <1>2, <1>3, <1>4, WorldKeeps

LEMMA createPolicyKeeps == ASSUME IInv, NEW p \in Policy, createPolicy(p) PROVE IInv'
  BY RegistryKeeps DEF IInv, TypeOK, createPolicy

LEMMA closeIncidentKeeps == ASSUME IInv, NEW i, closeIncident(i) PROVE IInv'
  BY RegistryKeeps DEF IInv, TypeOK, closeIncident

LEMMA retireKeeps == ASSUME IInv, NEW p \in Policy, retire(p) PROVE IInv'
  BY RegistryKeeps DEF IInv, TypeOK, retire, Retirable

LEMMA NextIInv == IInv /\ [Next]_vars => IInv'
  <1> SUFFICES ASSUME IInv, [Next]_vars PROVE IInv'
    OBVIOUS
  <1>1. ASSUME NEW h \in Handler, HandlerStep(h) PROVE IInv'
    BY <1>1, findDedupeRecordKeeps, activePolicyRecordsKeeps, boundPoliciesKeeps, reserveDedupeKeeps,
       readObservationsKeeps, checkBindingKeeps, recheckBindingKeeps, linkBindingKeeps,
       acceptReceiptKeeps, rejectReceiptKeeps, createJobKeeps
    DEF HandlerStep
  <1>2. CASE UNCHANGED vars
    <2>1. FilesKept /\ FilesConsistent'
      BY <1>2, NothingWritten DEF vars
    <2>2. TypeOK' /\ handler' = handler
      BY <1>2 DEF IInv, TypeOK, vars, files, world
    <2> QED
      BY <2>1, <2>2, WorldKeeps
  <1> QED
    BY <1>1, <1>2, deliverKeeps, crashKeeps, RecoverKeeps, createPolicyKeeps, retireKeeps, closeIncidentKeeps
    DEF Next

LEMMA Invariance == Spec => []IInv
  BY InitIInv, NextIInv, PTL DEF Spec

----------------------------------------------------------------------------
(* Theorems                                                                 *)

\* The types hold for any number of handlers and crashes: no file of the
\* coordinator ever holds a value its readers do not know.
THEOREM TypeCorrect == Spec => []TypeOK
  BY Invariance, PTL DEF IInv

\* Every accepted receipt names a policy durably bound to its event, for any
\* number of concurrent requests, redeliveries and crashes.
THEOREM ReceiptsAreBound == Spec => []AcceptedIsBound
  <1>1. IInv => AcceptedIsBound
    BY NoneAssumption DEF IInv, AcceptedIsBound, AuthorityIsBound
  <1> QED
    BY <1>1, Invariance, PTL

\* Two jobs never share a policy: bindVerifiedEvent's exclusive link and the
\* binding check before an acceptance make a policy one shot.
THEOREM PoliciesAreOneShot == Spec => []OneJobPerPolicy
  <1>1. IInv => OneJobPerPolicy
    <2> SUFFICES ASSUME IInv, NEW i \in jobs, NEW j \in jobs, i.policy = j.policy PROVE i = j
      BY DEF OneJobPerPolicy
    <2>1. PICK a \in Delivery : Accepted(a) /\ i = IncidentOf(a)
      BY DEF IInv, Authorized
    <2>2. PICK b \in Delivery : Accepted(b) /\ j = IncidentOf(b)
      BY DEF IInv, Authorized
    <2>3. AuthorityIsBound(receipts[a]) /\ AuthorityIsBound(receipts[b])
      BY <2>1, <2>2 DEF IInv
    <2> QED
      BY <2>1, <2>2, <2>3 DEF IncidentOf, AuthorityIsBound
  <1> QED
    BY <1>1, Invariance, PTL

\* A job exists only for a causal event, under the policy its receipt was
\* accepted with: neither replays, resumptions nor recovery widen authority.
THEOREM JobsAreAuthorized == Spec => []JobsAreCausal
  <1>1. IInv => JobsAreCausal
    <2> SUFFICES ASSUME IInv, NEW i \in jobs
                 PROVE  /\ <<i.event, i.policy>> \in Causal
                        /\ Accepted(i.event.delivery) /\ IncidentOf(i.event.delivery) = i
      BY DEF JobsAreCausal
    <2>1. PICK d \in Delivery : Accepted(d) /\ i = IncidentOf(d)
      BY DEF IInv, Authorized
    <2>2. AuthorityIsBound(receipts[d]) /\ receipts[d].event.delivery = d
      BY <2>1 DEF IInv, Accepted, State
    <2> QED
      BY <2>1, <2>2 DEF IncidentOf, AuthorityIsBound
  <1> QED
    BY <1>1, Invariance, PTL

\* Only an undecided receipt is ever written.
LEMMA UndecidedWritten ==
  ASSUME IInv, NEW h \in Handler, HandlerStep(h)
  PROVE  \/ UNCHANGED receipts
         \/ \E q \in Delivery : State(q) \in {"ABSENT", "RESERVED"} /\ \E r : receipts' = [receipts EXCEPT ![q] = r]
  <1> DEFINE d == handler[h].event.delivery
  <1>1. CASE reserveDedupe(h)
    <2>1. d \in Delivery
      BY <1>1, AtWork DEF reserveDedupe, At
    <2> QED
      BY <1>1, <2>1 DEF reserveDedupe, State
  <1>2. CASE acceptReceipt(h)
    <2>1. d \in Delivery /\ receipts[d] # None
      BY <1>2, PastRead DEF acceptReceipt, At
    <2> QED
      BY <1>2, <2>1, DecideWrites DEF acceptReceipt, Finalizable, State
  <1>3. CASE rejectReceipt(h)
    <2>1. d \in Delivery /\ receipts[d] # None
      BY <1>3, AtWork DEF rejectReceipt, At, IInv, Consistent, OwnReceipt
    <2> QED
      BY <1>3, <2>1, DecideWrites DEF rejectReceipt, Finalizable, State
  <1> QED
    BY <1>1, <1>2, <1>3
    DEF HandlerStep, findDedupeRecord, activePolicyRecords, boundPolicies, readObservations,
        checkBinding, recheckBinding, linkBinding, createJob, files

\* A decision stands, whoever is still at work on the delivery and however
\* often it is delivered again.
THEOREM DecisionsStand == Spec => DecisionsAreFinal
  <1>1. ASSUME IInv, [Next]_vars, NEW d \in Delivery, State(d) \in {"ACCEPTED", "REJECTED"}
        PROVE  receipts'[d] = receipts[d]
    <2>1. CASE \E h \in Handler : HandlerStep(h)
      BY <1>1, <2>1, UndecidedWritten DEF IInv, TypeOK
    <2>2. CASE UNCHANGED receipts
      BY <2>2
    <2> QED
      BY <1>1, <2>1, <2>2
      DEF Next, deliver, crash, Recover, start, listen, recoverReceipt, createPolicy, retire, closeIncident, files, vars
  <1>2. IInv /\ [Next]_vars => [\A d \in Delivery : State(d) \in {"ACCEPTED", "REJECTED"} => receipts'[d] = receipts[d]]_vars
    BY <1>1
  <1> QED
    BY <1>2, Invariance, PTL DEF Spec, DecisionsAreFinal

----------------------------------------------------------------------------
(* The refinement of OneShotPolicy                                          *)

\* Steps the lifecycle does not see.
LEMMA Unseen ==
  ASSUME UNCHANGED <<receipts, bindings, world>>
  PROVE  UNCHANGED Lifecycle!vars
  BY DEF Lifecycle!vars, Authorized, Accepted, State, IncidentOf, world

\* A new binding is the lifecycle's Bind.
LEMMA linkBindingBinds ==
  ASSUME IInv, NEW h \in Handler, linkBinding(h) PROVE [Lifecycle!Next]_(Lifecycle!vars)
  <1> DEFINE e == handler[h].event
             p == handler[h].policy
  <1>1. UNCHANGED <<receipts, jobs, world>> /\ handler[h].pc = "link"
    BY DEF linkBinding, At
  <1>2. e \in Event /\ p \in Policy /\ p \in registered
    BY <1>1, PastRead
  <1>3. CASE UNCHANGED bindings
    BY <1>1, <1>3, Unseen
  <1>4. CASE Linkable(p) /\ bindings' = [bindings EXCEPT ![p] = e]
    <2>1. bindings[p] = None /\ p \notin retired
      BY <1>2, <1>4 DEF Linkable, IInv
    <2>2. Authorized' = Authorized
      BY <1>1 DEF Authorized, Accepted, State, IncidentOf
    <2>3. Lifecycle!Bind(p, e)
      BY <1>1, <1>2, <1>4, <2>1, <2>2 DEF Lifecycle!Bind, world
    <2> QED
      BY <1>2, <2>3 DEF Lifecycle!Next
  <1> QED
    BY <1>3, <1>4 DEF linkBinding

\* An acceptance is the lifecycle's Authorize.
LEMMA acceptReceiptAuthorizes ==
  ASSUME IInv, NEW h \in Handler, acceptReceipt(h) PROVE [Lifecycle!Next]_(Lifecycle!vars)
  <1>1. handler[h].pc = "accept" /\ UNCHANGED <<bindings, jobs, world>>
    BY DEF acceptReceipt, At
  <1>2. PICK e \in Event, d \in Delivery, p \in Policy :
          /\ e = handler[h].event /\ d = e.delivery /\ p = handler[h].policy
          /\ receipts[d] # None /\ receipts[d].event = e /\ bindings[p] = e
    BY <1>1, PastRead DEF IInv, Consistent
  <1>3. CASE UNCHANGED receipts
    BY <1>1, <1>3, Unseen
  <1>4. CASE Finalizable(d) /\ Decide(d, "ACCEPTED", p)
    <2> DEFINE n == Decided(receipts[d], "ACCEPTED", p)
               i == [policy |-> p, event |-> e]
    <2>1. n.event = e /\ n.state = "ACCEPTED" /\ n.policy = p /\ n \in Receipt
      BY <1>2 DEF Decided, Receipt
    <2>2. receipts' = [receipts EXCEPT ![d] = n]
      BY <1>2, <1>4, DecideWrites
    <2> HIDE DEF n
    <2>3. receipts'[d] = n /\ n # None /\ \A q \in Delivery \ {d} : receipts'[q] = receipts[q]
      BY <1>2, <2>1, <2>2, ReceiptAssumption DEF IInv, TypeOK
    <2>4. ~Accepted(d)
      BY <1>2, <1>4 DEF Accepted, State, Finalizable
    <2>5. Accepted(d)' /\ IncidentOf(d)' = i
      BY <2>1, <2>3 DEF Accepted, State, IncidentOf
    <2>6. ASSUME NEW q \in Delivery \ {d} PROVE Accepted(q)' = Accepted(q) /\ IncidentOf(q)' = IncidentOf(q)
      BY <2>3 DEF Accepted, State, IncidentOf
    <2>7. Authorized' = Authorized \cup {i}
      <3>1. \A x : x \in Authorized' <=> \E q \in Delivery : Accepted(q)' /\ x = IncidentOf(q)'
        BY DEF Authorized
      <3>2. \A x : x \in Authorized <=> \E q \in Delivery : Accepted(q) /\ x = IncidentOf(q)
        BY DEF Authorized
      <3>3. ASSUME NEW x PROVE x \in Authorized' <=> x \in Authorized \cup {i}
        BY <2>4, <2>5, <2>6, <3>1, <3>2
      <3> QED
        BY <3>3
    <2>8. ASSUME NEW x \in Authorized PROVE x.event.delivery # e.delivery
      <3>1. PICK q \in Delivery : Accepted(q) /\ x = IncidentOf(q)
        BY DEF Authorized
      <3>2. x.event.delivery = q
        BY <3>1 DEF IInv, IncidentOf, Accepted, State
      <3> QED
        BY <1>2, <2>4, <3>1, <3>2
    <2>9. Lifecycle!Authorize(p, e)
      BY <1>1, <1>2, <2>7, <2>8 DEF Lifecycle!Authorize, world
    <2> QED
      BY <2>9 DEF Lifecycle!Next
  <1> QED
    BY <1>2, <1>3, <1>4 DEF acceptReceipt

\* A reservation or a rejection authorizes nothing.
LEMMA UnacceptedUnseen ==
  ASSUME IInv, NEW h \in Handler, reserveDedupe(h) \/ rejectReceipt(h) PROVE UNCHANGED Lifecycle!vars
  <1>1. UNCHANGED <<bindings, jobs, world>>
    BY DEF reserveDedupe, rejectReceipt
  <1>2. CASE UNCHANGED receipts
    BY <1>1, <1>2, Unseen
  <1>3. ASSUME NEW d \in Delivery, NEW r, receipts' = [receipts EXCEPT ![d] = r], ~Accepted(d), r.state # "ACCEPTED"
        PROVE  UNCHANGED Lifecycle!vars
    <2>1. receipts'[d] = r /\ \A q \in Delivery \ {d} : receipts'[q] = receipts[q]
      BY <1>3 DEF IInv, TypeOK
    <2>2. ~Accepted(d)'
      BY <1>3, <2>1 DEF Accepted, State
    <2>3. Authorized' = Authorized
      <3>1. \A q \in Delivery : Accepted(q) => receipts'[q] = receipts[q]
        BY <1>3, <2>1
      <3>2. \A q \in Delivery : Accepted(q)' => receipts'[q] = receipts[q]
        BY <2>1, <2>2
      <3> QED
        BY <3>1, <3>2, AuthorizedKept
    <2> QED
      BY <1>1, <2>3 DEF Lifecycle!vars, world
  <1>4. CASE reserveDedupe(h) /\ receipts' # receipts
    <2>1. PICK e \in Event, d \in Delivery : e = handler[h].event /\ d = e.delivery
      BY <1>4, AtWork DEF reserveDedupe, At
    <2> DEFINE r == [event |-> e, state |-> "RESERVED", policy |-> None]
    <2>2. receipts[d] = None /\ receipts' = [receipts EXCEPT ![d] = r]
      BY <1>4, <2>1 DEF reserveDedupe
    <2>3. ~Accepted(d) /\ r.state # "ACCEPTED"
      BY <2>2 DEF Accepted, State
    <2> QED
      BY <1>3, <2>2, <2>3
  <1>5. CASE rejectReceipt(h) /\ receipts' # receipts
    <2>1. PICK d \in Delivery : d = handler[h].event.delivery /\ receipts[d] # None
      BY <1>5, AtWork DEF rejectReceipt, At, IInv, Consistent, OwnReceipt
    <2>2. Finalizable(d) /\ Decide(d, "REJECTED", None)
      BY <1>5, <2>1 DEF rejectReceipt
    <2>3. receipts' = [receipts EXCEPT ![d] = Decided(receipts[d], "REJECTED", None)]
      BY <2>1, <2>2, DecideWrites
    <2>4. ~Accepted(d) /\ Decided(receipts[d], "REJECTED", None).state # "ACCEPTED"
      BY <2>1, <2>2 DEF Accepted, State, Finalizable, Decided
    <2> QED
      BY <1>3, <2>3, <2>4
  <1> QED
    BY <1>2, <1>4, <1>5

\* PushIngress implements the one-shot policy lifecycle of HANDOVER.md: with all
\* its races, redeliveries and crashes, a policy binds one event for ever,
\* authorizes that event's incident only, and is retired after that one closed.
THEOREM KeepsLifecycle == Spec => OneShot
  <1>1. Init => Lifecycle!Init
    BY DEF Init, Lifecycle!Init, Authorized, Accepted, State
  <1>2. ASSUME IInv, [Next]_vars PROVE [Lifecycle!Next]_(Lifecycle!vars)
    <2>1. ASSUME NEW h \in Handler, HandlerStep(h) PROVE [Lifecycle!Next]_(Lifecycle!vars)
      <3>1. CASE linkBinding(h)
        BY <1>2, <3>1, linkBindingBinds
      <3>2. CASE acceptReceipt(h)
        BY <1>2, <3>2, acceptReceiptAuthorizes
      <3>3. CASE reserveDedupe(h) \/ rejectReceipt(h)
        BY <1>2, <3>3, UnacceptedUnseen
      <3>4. CASE UNCHANGED <<receipts, bindings, world>>
        BY <3>4, Unseen
      <3> QED
        BY <2>1, <3>1, <3>2, <3>3, <3>4
        DEF HandlerStep, findDedupeRecord, activePolicyRecords, boundPolicies, readObservations,
            checkBinding, recheckBinding, createJob, files
    <2>2. CASE UNCHANGED <<receipts, bindings, world>>
      BY <2>2, Unseen
    <2>3. ASSUME NEW p \in Policy, createPolicy(p) PROVE Lifecycle!Activate(p)
      BY <2>3 DEF createPolicy, Lifecycle!Activate, files, Authorized, Accepted, State, IncidentOf
    <2>4. ASSUME NEW p \in Policy, retire(p) PROVE \E e \in Event : Lifecycle!Retire(p, e)
      <3>1. bindings[p] \in Event /\ Authorized' = Authorized
        BY <1>2, <2>4 DEF IInv, TypeOK, retire, Retirable, files, Authorized, Accepted, State, IncidentOf
      <3> QED
        BY <2>4, <3>1 DEF retire, Retirable, files, Lifecycle!Retire
    <2>5. ASSUME NEW i \in Incident, closeIncident(i) PROVE Lifecycle!Close(i)
      <3>1. i \in Authorized /\ Authorized' = Authorized
        BY <1>2, <2>5 DEF IInv, closeIncident, files, Authorized, Accepted, State, IncidentOf
      <3> QED
        BY <2>5, <3>1 DEF closeIncident, files, Lifecycle!Close
    <2>6. CASE \E p \in Policy : createPolicy(p) \/ retire(p)
      BY <2>3, <2>4, <2>6 DEF Lifecycle!Next
    <2>7. CASE \E i \in Incident : closeIncident(i)
      BY <2>5, <2>7 DEF Lifecycle!Next, Incident, Lifecycle!Incident
    <2>8. CASE (\E h \in Handler, e \in Event : deliver(h, e)) \/ crash \/ Recover \/ UNCHANGED vars
      BY <2>2, <2>8 DEF deliver, crash, Recover, start, listen, recoverReceipt, files, vars
    <2> QED
      BY <1>2, <2>1, <2>6, <2>7, <2>8 DEF Next
  <1> QED
    BY <1>1, <1>2, Invariance, PTL DEF Spec, OneShot, Lifecycle!Spec
=============================================================================
