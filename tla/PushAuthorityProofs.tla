------------------------ MODULE PushAuthorityProofs ------------------------
(***************************************************************************)
(* For any number of runs of a delivery, any policies and contents, any    *)
(* failures: authority is accepted for a causal push under a sole policy   *)
(* only, a job exists only for such a push once it is bound, and until a   *)
(* lock file is overdue the two locked files behave atomically.            *)
(***************************************************************************)
EXTENDS PushAuthority, TLAPS

\* What a step of h leaves to the others.
Kept(h) ==
  /\ world' = world
  /\ receipt # None => receipt' # None
  /\ job # None => job' # None
  /\ \A g \in Handler \ {h} : handler'[g] = handler[g]

LEMMA IdleTyped == Idle \in HandlerState
BY DEF Idle, HandlerState

LEMMA Updated ==
  ASSUME TypeOK, NEW h \in Handler, NEW s \in HandlerState, Becomes(h, s)
  PROVE  /\ handler' \in [Handler -> HandlerState]
         /\ handler'[h] = s
         /\ \A g \in Handler \ {h} : handler'[g] = handler[g]
BY DEF TypeOK, Becomes

\* Sound speaks of the world, of the state itself and of the files' existence.
LEMMA SoundMoves ==
  ASSUME NEW g \in Handler, Sound(handler[g]), world' = world, handler'[g] = handler[g],
         receipt # None => receipt' # None, job # None => job' # None
  PROVE  Sound(handler[g])'
BY DEF Sound, SoundRead, SoundCall, Planned, HasRead, Verified, Introduced, Calling, event, lookup

LEMMA OthersSound ==
  ASSUME NEW h \in Handler, Kept(h), \A g \in Handler : Sound(handler[g]), Sound(handler[h])'
  PROVE  \A g \in Handler : Sound(handler[g])'
<1> TAKE g \in Handler
<1>1. CASE g = h
  BY <1>1
<1>2. CASE g # h
  BY <1>2, SoundMoves DEF Kept
<1> QED
  BY <1>1, <1>2

LEMMA ReceiptTyped ==
  /\ Reserved \in Receipt
  /\ \A p \in C2PushPolicyV2 :
       [state |-> "ACCEPTED", decision |-> "C2_PUSH_SELECTED", policy |-> p] \in Receipt
  /\ \A d \in Rejection : [state |-> "REJECTED", decision |-> d, policy |-> None] \in Receipt
  /\ Reserved # None
BY ReceiptAssumption DEF Receipt, Reserved

\* What a step of h makes of h, when it is typed and rests on what holds.
Steps(h) ==
  /\ handler' \in [Handler -> HandlerState]
  /\ Kept(h)
  /\ Sound(handler[h])'

LEMMA RejectsSteps ==
  ASSUME IInv, NEW h \in Handler, NEW d \in Rejection, Rejects(h, d), receipt # None,
         normalizeVerifiedPushEvent(event),
         world' = world, receipt' = receipt, job' = job
  PROVE  Steps(h)
<1> DEFINE s == [[Idle EXCEPT !.decision = d] EXCEPT !.pc = "open", !.call = "finalize", !.seen = None]
<1>1. s \in HandlerState
  BY DEF HandlerState, Idle, Decision
<1>2. Becomes(h, s)
  BY DEF Rejects, Calls
<1>3. handler' \in [Handler -> HandlerState] /\ Kept(h) /\ handler'[h] = s
  BY <1>1, <1>2, Updated DEF IInv, Kept
<1>4. Sound(handler[h])'
  BY <1>3
     DEF Sound, SoundRead, SoundCall, Planned, HasRead, Verified, Calling, Deciding, Outside,
         event, Decision, Rejection, Idle
<1> QED
  BY <1>3, <1>4 DEF Steps

LEMMA acceptSteps ==
  ASSUME IInv, NEW h \in Handler, accept(h)
  PROVE  Steps(h)
<1> DEFINE s == [Idle EXCEPT !.pc = "reserve", !.resumes = (receipt = Reserved /\ bound)]
<1>1. s \in HandlerState
  BY DEF HandlerState, Idle
<1>2. handler' \in [Handler -> HandlerState] /\ Kept(h) /\ handler'[h] = s
  BY <1>1, Updated DEF IInv, Kept, accept
<1>3. Sound(handler[h])'
  BY <1>2
     DEF accept, Sound, SoundRead, SoundCall, Planned, HasRead, Verified, Calling, Deciding,
         Outside, event, Idle
<1> QED
  BY <1>2, <1>3 DEF Steps

LEMMA openSteps ==
  ASSUME IInv, NEW h \in Handler, open(h)
  PROVE  Steps(h)
<1>1. PICK pc \in {"inside", "stat"} : Goto(h, pc)
  BY DEF open
<1> DEFINE s == [handler[h] EXCEPT !.pc = pc]
<1>2. s \in HandlerState
  BY DEF HandlerState, IInv, TypeOK
<1>3. handler' \in [Handler -> HandlerState] /\ Kept(h) /\ handler'[h] = s
  BY <1>1, <1>2, Updated DEF IInv, Kept, open, Goto
<1>4. Sound(handler[h]) /\ handler[h].pc = "open"
  BY DEF IInv, open, At
<1>5. Sound(handler[h])'
  BY <1>3, <1>4
     DEF open, IInv, TypeOK, HandlerState, Sound, SoundRead, SoundCall, Planned, HasRead,
         Verified, Calling, Deciding, Outside, Introduced, event, lookup
<1> QED
  BY <1>3, <1>5 DEF Steps

LEMMA breakSteps ==
  ASSUME IInv, NEW h \in Handler, break(h)
  PROVE  Steps(h)
<1>a. /\ handler[h] \in HandlerState /\ Sound(handler[h]) /\ handler[h].pc = "break"
      /\ receipt \in Receipt \cup {None} /\ job \in Job \cup {None}
  BY DEF IInv, TypeOK, break, At
<1> DEFINE s == [handler[h] EXCEPT !.pc = "open"]
<1>1. s \in HandlerState
  BY <1>a DEF HandlerState
<1>2. handler' \in [Handler -> HandlerState] /\ handler'[h] = s /\ Kept(h)
  BY <1>1, Updated DEF IInv, Kept, break, Goto, Calls
<1>3. Sound(handler[h])'
  BY <1>a, <1>2
     DEF break, IInv, TypeOK, HandlerState, Sound, SoundRead, SoundCall, Planned, HasRead,
         Verified, Calling, Deciding, Outside, Introduced, event, lookup
<1> QED
  BY <1>2, <1>3 DEF Steps

LEMMA reserve_readSteps ==
  ASSUME IInv, NEW h \in Handler, reserve_read(h)
  PROVE  Steps(h)
<1>a. /\ handler[h] \in HandlerState /\ Sound(handler[h]) /\ handler[h].pc = "inside"
      /\ receipt \in Receipt \cup {None} /\ job \in Job \cup {None}
  BY DEF IInv, TypeOK, reserve_read, At
<1> DEFINE s == [handler[h] EXCEPT !.pc = "close", !.seen = receipt]
<1>1. s \in HandlerState
  BY <1>a DEF HandlerState
<1>2. handler' \in [Handler -> HandlerState] /\ handler'[h] = s /\ Kept(h)
  BY <1>1, Updated DEF IInv, Kept, reserve_read, Goto, Calls
<1>3. Sound(handler[h])'
  BY <1>a, <1>2
     DEF reserve_read, IInv, TypeOK, HandlerState, Sound, SoundRead, SoundCall, Planned,
         HasRead, Verified, Calling, Deciding, Outside, Introduced, event, lookup
<1> QED
  BY <1>2, <1>3 DEF Steps

LEMMA statSteps ==
  ASSUME IInv, NEW h \in Handler, stat(h)
  PROVE  Steps(h)
<1>a. /\ handler[h] \in HandlerState /\ Sound(handler[h]) /\ handler[h].pc = "stat"
      /\ receipt \in Receipt \cup {None} /\ job \in Job \cup {None}
  BY DEF IInv, TypeOK, stat, At
<1>0. PICK pc \in {"break", "open"} : Goto(h, pc)
  BY DEF stat
<1> DEFINE s == [handler[h] EXCEPT !.pc = pc]
<1>1. s \in HandlerState
  BY <1>a DEF HandlerState
<1>2. handler' \in [Handler -> HandlerState] /\ handler'[h] = s /\ Kept(h)
  BY <1>0, <1>1, Updated DEF IInv, Kept, stat, Goto, Calls
<1>3. Sound(handler[h])'
  BY <1>a, <1>2
     DEF stat, IInv, TypeOK, HandlerState, Sound, SoundRead, SoundCall, Planned, HasRead,
         Verified, Calling, Deciding, Outside, Introduced, event, lookup
<1> QED
  BY <1>2, <1>3 DEF Steps

LEMMA finalize_readSteps ==
  ASSUME IInv, NEW h \in Handler, finalize_read(h)
  PROVE  Steps(h)
<1>a. /\ handler[h] \in HandlerState /\ Sound(handler[h]) /\ handler[h].pc = "inside"
      /\ receipt \in Receipt \cup {None} /\ job \in Job \cup {None}
  BY DEF IInv, TypeOK, finalize_read, At
<1>0. PICK pc \in {"write", "close"} :
        Becomes(h, [handler[h] EXCEPT !.pc = pc, !.seen = receipt]) /\ (pc = "write" => receipt = Reserved)
  BY DEF finalize_read
<1> DEFINE s == [handler[h] EXCEPT !.pc = pc, !.seen = receipt]
<1>1. s \in HandlerState
  BY <1>a, <1>0 DEF HandlerState
<1>2. handler' \in [Handler -> HandlerState] /\ handler'[h] = s /\ Kept(h)
  BY <1>0, <1>1, Updated, <1>0 DEF IInv, Kept, finalize_read, Goto, Calls
<1>3. Sound(handler[h])'
  BY <1>a, <1>2, <1>0
     DEF finalize_read, IInv, TypeOK, HandlerState, Sound, SoundRead, SoundCall, Planned,
         HasRead, Verified, Calling, Deciding, Outside, Introduced, event, lookup
<1> QED
  BY <1>2, <1>3 DEF Steps

LEMMA UsableTyped ==
  ASSUME TypeOK
  PROVE  Usable(event, world.policies, world.retired) \subseteq C2PushPolicyV2
BY WorldAssumption DEF Usable, NonRetired, Matching, TypeOK

\* The decision written is a complete record.
LEMMA DecidedTyped ==
  ASSUME IInv, NEW h \in Handler, finalizeDedupe(h)
  PROVE  Decided(handler[h]) \in Receipt
<1>1. /\ handler[h].decision \in Decision
      /\ handler[h].decision = "C2_PUSH_SELECTED" => handler[h].policy \in Usable(event, world.policies, world.retired)
  BY DEF IInv, finalizeDedupe, At, Sound, SoundRead, SoundCall, Calling, Planned
<1>2. Usable(event, world.policies, world.retired) \subseteq C2PushPolicyV2
  BY UsableTyped DEF IInv
<1> QED
  BY <1>1, <1>2, ReceiptTyped DEF Decided, Decision

LEMMA MergedTyped ==
  ASSUME IInv, NEW h \in Handler, update_write(h)
  PROVE  Merged(h) \in Job
<1>1. handler[h].seen \in Job /\ handler[h].patch \in Patch
  BY DEF IInv, update_write, At, Sound, SoundCall, Calling
<1> QED
  BY <1>1, PatchAssumption DEF Merged, Job

LEMMA finalizeDedupeSteps ==
  ASSUME IInv, NEW h \in Handler, finalizeDedupe(h)
  PROVE  Steps(h)
<1>a. /\ handler[h] \in HandlerState /\ Sound(handler[h]) /\ handler[h].pc = "write"
      /\ receipt \in Receipt \cup {None} /\ job \in Job \cup {None}
  BY DEF IInv, TypeOK, finalizeDedupe, At
<1>b. receipt' # None
  BY <1>a, DecidedTyped, ReceiptAssumption DEF finalizeDedupe
<1> DEFINE s == [handler[h] EXCEPT !.pc = "close"]
<1>1. s \in HandlerState
  BY <1>a, <1>b DEF HandlerState
<1>2. handler' \in [Handler -> HandlerState] /\ handler'[h] = s /\ Kept(h)
  BY <1>1, Updated, <1>b DEF IInv, Kept, finalizeDedupe, Goto, Calls
<1>3. Sound(handler[h])'
  BY <1>a, <1>2, <1>b
     DEF finalizeDedupe, IInv, TypeOK, HandlerState, Sound, SoundRead, SoundCall, Planned,
         HasRead, Verified, Calling, Deciding, Outside, Introduced, event, lookup
<1> QED
  BY <1>2, <1>3 DEF Steps

LEMMA update_writeSteps ==
  ASSUME IInv, NEW h \in Handler, update_write(h)
  PROVE  Steps(h)
<1>a. /\ handler[h] \in HandlerState /\ Sound(handler[h]) /\ handler[h].pc = "write"
      /\ receipt \in Receipt \cup {None} /\ job \in Job \cup {None}
  BY DEF IInv, TypeOK, update_write, At
<1>b. job' # None
  BY <1>a, MergedTyped, JobAssumption DEF update_write
<1> DEFINE s == [handler[h] EXCEPT !.pc = "close"]
<1>1. s \in HandlerState
  BY <1>a, <1>b DEF HandlerState
<1>2. handler' \in [Handler -> HandlerState] /\ handler'[h] = s /\ Kept(h)
  BY <1>1, Updated, <1>b DEF IInv, Kept, update_write, Goto, Calls
<1>3. Sound(handler[h])'
  BY <1>a, <1>2, <1>b
     DEF update_write, IInv, TypeOK, HandlerState, Sound, SoundRead, SoundCall, Planned,
         HasRead, Verified, Calling, Deciding, Outside, Introduced, event, lookup
<1> QED
  BY <1>2, <1>3 DEF Steps

LEMMA createSteps ==
  ASSUME IInv, NEW h \in Handler, create(h)
  PROVE  Steps(h)
<1>a. /\ handler[h] \in HandlerState /\ Sound(handler[h]) /\ handler[h].pc = "create"
      /\ receipt \in Receipt \cup {None} /\ job \in Job \cup {None}
  BY DEF IInv, TypeOK, create, At
<1>b. job' # None
  BY <1>a, JobAssumption DEF create, Job, JobState
<1> DEFINE s == [handler[h] EXCEPT !.pc = "ready"]
<1>1. s \in HandlerState
  BY <1>a, <1>b DEF HandlerState
<1>2. handler' \in [Handler -> HandlerState] /\ handler'[h] = s /\ Kept(h)
  BY <1>1, Updated, <1>b DEF IInv, Kept, create, Goto, Calls
<1>3. Sound(handler[h])'
  BY <1>a, <1>2, <1>b
     DEF create, IInv, TypeOK, HandlerState, Sound, SoundRead, SoundCall, Planned, HasRead,
         Verified, Calling, Deciding, Outside, Introduced, event, lookup
<1> QED
  BY <1>2, <1>3 DEF Steps

LEMMA update_readSteps ==
  ASSUME IInv, NEW h \in Handler, update_read(h)
  PROVE  Steps(h)
<1>a. /\ handler[h] \in HandlerState /\ Sound(handler[h]) /\ handler[h].pc = "inside"
      /\ receipt \in Receipt \cup {None} /\ job \in Job \cup {None}
  BY DEF IInv, TypeOK, update_read, At
<1>b. handler[h].call = "update" /\ job \in Job /\ world' = world /\ receipt' = receipt /\ job' = job
  BY <1>a DEF update_read, Sound, SoundCall, Calling
<1>1. CASE Becomes(h, [handler[h] EXCEPT !.pc = "write", !.seen = job])
  <2> DEFINE s == [handler[h] EXCEPT !.pc = "write", !.seen = job]
  <2>1. s \in HandlerState
    BY <1>a, <1>b DEF HandlerState
  <2>2. handler' \in [Handler -> HandlerState] /\ handler'[h] = s /\ Kept(h)
    BY <1>b, <1>1, <2>1, Updated DEF IInv, Kept, Calls, Goto
  <2>3. Sound(handler[h])'
    BY <1>a, <1>b, <1>1, <2>2
       DEF IInv, TypeOK, HandlerState, Sound, SoundRead, SoundCall, Planned, HasRead, Verified,
           Calling, Deciding, Outside, Introduced, event, lookup
  <2> QED
    BY <2>2, <2>3 DEF Steps
<1>2. CASE Becomes(h, [handler[h] EXCEPT !.pc = "close", !.patch = None])
  <2> DEFINE s == [handler[h] EXCEPT !.pc = "close", !.patch = None]
  <2>1. s \in HandlerState
    BY <1>a, <1>b DEF HandlerState
  <2>2. handler' \in [Handler -> HandlerState] /\ handler'[h] = s /\ Kept(h)
    BY <1>b, <1>2, <2>1, Updated DEF IInv, Kept, Calls, Goto
  <2>3. Sound(handler[h])'
    BY <1>a, <1>b, <1>2, <2>2
       DEF IInv, TypeOK, HandlerState, Sound, SoundRead, SoundCall, Planned, HasRead, Verified,
           Calling, Deciding, Outside, Introduced, event, lookup
  <2> QED
    BY <2>2, <2>3 DEF Steps
<1> QED
  BY <1>1, <1>2 DEF update_read, Goto, Calls

LEMMA reserveDedupeSteps ==
  ASSUME IInv, NEW h \in Handler, reserveDedupe(h)
  PROVE  Steps(h)
<1>a. /\ handler[h] \in HandlerState /\ Sound(handler[h]) /\ handler[h].pc = "reserve"
      /\ receipt \in Receipt \cup {None} /\ job \in Job \cup {None}
  BY DEF IInv, TypeOK, reserveDedupe, At
<1>b. receipt' # None /\ world' = world /\ job' = job
  BY ReceiptTyped DEF reserveDedupe
<1>1. CASE Becomes(h, [handler[h] EXCEPT !.pc = "decide"])
  <2> DEFINE s == [handler[h] EXCEPT !.pc = "decide"]
  <2>1. s \in HandlerState
    BY <1>a, <1>b DEF HandlerState
  <2>2. handler' \in [Handler -> HandlerState] /\ handler'[h] = s /\ Kept(h)
    BY <1>b, <1>1, <2>1, Updated DEF IInv, Kept, Calls, Goto
  <2>3. Sound(handler[h])'
    BY <1>a, <1>b, <1>1, <2>2
       DEF IInv, TypeOK, HandlerState, Sound, SoundRead, SoundCall, Planned, HasRead, Verified,
           Calling, Deciding, Outside, Introduced, event, lookup
  <2> QED
    BY <2>2, <2>3 DEF Steps
<1>2. CASE Becomes(h, [handler[h] EXCEPT !.pc = "open", !.call = "reserve", !.seen = None])
  <2> DEFINE s == [handler[h] EXCEPT !.pc = "open", !.call = "reserve", !.seen = None]
  <2>1. s \in HandlerState
    BY <1>a, <1>b DEF HandlerState
  <2>2. handler' \in [Handler -> HandlerState] /\ handler'[h] = s /\ Kept(h)
    BY <1>b, <1>2, <2>1, Updated DEF IInv, Kept, Calls, Goto
  <2>3. Sound(handler[h])'
    BY <1>a, <1>b, <1>2, <2>2
       DEF IInv, TypeOK, HandlerState, Sound, SoundRead, SoundCall, Planned, HasRead, Verified,
           Calling, Deciding, Outside, Introduced, event, lookup
  <2> QED
    BY <2>2, <2>3 DEF Steps
<1> QED
  BY <1>1, <1>2 DEF reserveDedupe, Goto, Calls

\* A run that is done with the receipt, or back from the job, rests on nothing else.
LEMMA ReturnsSteps ==
  ASSUME IInv, NEW h \in Handler, NEW pc \in {"create", "ready"},
         Becomes(h, [Idle EXCEPT !.pc = pc]), pc = "ready" => job # None,
         world' = world, receipt' = receipt, job' = job
  PROVE  Steps(h)
<1> DEFINE s == [Idle EXCEPT !.pc = pc]
<1>1. s \in HandlerState
  BY DEF HandlerState, Idle
<1>2. handler' \in [Handler -> HandlerState] /\ handler'[h] = s /\ Kept(h)
  BY <1>1, Updated DEF IInv, Kept
<1>3. Sound(handler[h])'
  BY <1>2
     DEF Sound, SoundRead, SoundCall, Planned, HasRead, Verified, Calling, Deciding, Outside,
         Idle
<1> QED
  BY <1>2, <1>3 DEF Steps

LEMMA IdleSteps ==
  ASSUME IInv, NEW h \in Handler, Becomes(h, Idle), world' = world, receipt' = receipt, job' = job
  PROVE  Steps(h)
<1>1. handler' \in [Handler -> HandlerState] /\ handler'[h] = Idle /\ Kept(h)
  BY IdleTyped, Updated DEF IInv, Kept
<1>2. Sound(handler[h])'
  BY <1>1
     DEF Sound, SoundRead, SoundCall, Planned, HasRead, Verified, Calling, Deciding, Outside,
         Idle
<1> QED
  BY <1>1, <1>2 DEF Steps

LEMMA closeSteps ==
  ASSUME IInv, NEW h \in Handler, close(h)
  PROVE  Steps(h)
<1>a. /\ handler[h] \in HandlerState /\ Sound(handler[h]) /\ handler[h].pc = "close"
      /\ receipt \in Receipt \cup {None} /\ job \in Job \cup {None}
  BY DEF IInv, TypeOK, close, At
<1>b. world' = world /\ receipt' = receipt /\ job' = job
      /\ (handler[h].call = "update" => job # None)
  BY <1>a DEF close, Sound, SoundCall, Calling
<1>1. CASE handler[h].call = "reserve" /\ Goto(h, "decide")
  <2> DEFINE s == [handler[h] EXCEPT !.pc = "decide"]
  <2>1. s \in HandlerState
    BY <1>a, <1>b DEF HandlerState
  <2>2. handler' \in [Handler -> HandlerState] /\ handler'[h] = s /\ Kept(h)
    BY <1>b, <1>1, <2>1, Updated DEF IInv, Kept, Calls, Goto
  <2>3. Sound(handler[h])'
    BY <1>a, <1>b, <1>1, <2>2
       DEF IInv, TypeOK, HandlerState, Sound, SoundRead, SoundCall, Planned, HasRead, Verified,
           Calling, Deciding, Outside, Introduced, event, lookup
  <2> QED
    BY <2>2, <2>3 DEF Steps
<1>2. CASE Becomes(h, Idle)
  BY <1>b, <1>2, IdleSteps
<1>3. CASE Becomes(h, [Idle EXCEPT !.pc = "create"])
  BY <1>b, <1>3, ReturnsSteps
<1>4. CASE handler[h].call = "update" /\ Becomes(h, [Idle EXCEPT !.pc = "ready"])
  BY <1>b, <1>4, ReturnsSteps
<1> QED
  BY <1>1, <1>2, <1>3, <1>4 DEF close, Goto, Calls

LEMMA mintContentsReadTokenSteps ==
  ASSUME IInv, NEW h \in Handler, mintContentsReadToken(h)
  PROVE  Steps(h)
<1>a. /\ handler[h] \in HandlerState /\ Sound(handler[h]) /\ handler[h].pc = "mint"
      /\ receipt \in Receipt \cup {None} /\ job \in Job \cup {None}
  BY DEF IInv, TypeOK, mintContentsReadToken, At
<1>b. world' = world /\ receipt' = receipt /\ job' = job /\ receipt # None /\ normalizeVerifiedPushEvent(event)
  BY <1>a DEF mintContentsReadToken, Sound, SoundRead, SoundCall, Deciding, Outside
<1>1. CASE Goto(h, "before")
  <2> DEFINE s == [handler[h] EXCEPT !.pc = "before"]
  <2>1. s \in HandlerState
    BY <1>a, <1>b DEF HandlerState
  <2>2. handler' \in [Handler -> HandlerState] /\ handler'[h] = s /\ Kept(h)
    BY <1>b, <1>1, <2>1, Updated DEF IInv, Kept, Calls, Goto
  <2>3. Sound(handler[h])'
    BY <1>a, <1>b, <1>1, <2>2
       DEF IInv, TypeOK, HandlerState, Sound, SoundRead, SoundCall, Planned, HasRead, Verified,
           Calling, Deciding, Outside, Introduced, event, lookup
  <2> QED
    BY <2>2, <2>3 DEF Steps
<1>2. CASE Rejects(h, "C2_PUSH_REJECTED")
  BY <1>b, <1>2, RejectsSteps DEF Rejection
<1> QED
  BY <1>1, <1>2 DEF mintContentsReadToken

LEMMA readBeforeSteps ==
  ASSUME IInv, NEW h \in Handler, readBefore(h)
  PROVE  Steps(h)
<1>a. /\ handler[h] \in HandlerState /\ Sound(handler[h]) /\ handler[h].pc = "before"
      /\ receipt \in Receipt \cup {None} /\ job \in Job \cup {None}
  BY DEF IInv, TypeOK, readBefore, At
<1>b. world' = world /\ receipt' = receipt /\ job' = job /\ receipt # None /\ normalizeVerifiedPushEvent(event)
      /\ readImmutableContent(world.content, event.before) \in ImmutablePathObservation
  BY <1>a, WorldAssumption
     DEF readBefore, Sound, SoundRead, SoundCall, Deciding, Outside, IInv, TypeOK, event,
         Request, readImmutableContent, ImmutablePathObservation
<1>1. CASE Becomes(h, [handler[h] EXCEPT !.pc = "after", !.before = readImmutableContent(world.content, event.before)])
  <2> DEFINE s == [handler[h] EXCEPT !.pc = "after", !.before = readImmutableContent(world.content, event.before)]
  <2>1. s \in HandlerState
    BY <1>a, <1>b, <1>1 DEF HandlerState
  <2>2. handler' \in [Handler -> HandlerState] /\ handler'[h] = s /\ Kept(h)
    BY <1>b, <1>1, <2>1, Updated DEF IInv, Kept, Calls, Goto
  <2>3. Sound(handler[h])'
    BY <1>a, <1>b, <1>1, <2>2
       DEF IInv, TypeOK, HandlerState, Sound, SoundRead, SoundCall, Planned, HasRead, Verified,
           Calling, Deciding, Outside, Introduced, event, lookup
  <2> QED
    BY <2>2, <2>3 DEF Steps
<1>2. CASE ReadFails(h)
  <2> DEFINE s == [handler[h] EXCEPT !.pc = "revoke", !.failed = TRUE]
  <2>1. s \in HandlerState
    BY <1>a, <1>b DEF HandlerState
  <2>2. handler' \in [Handler -> HandlerState] /\ handler'[h] = s /\ Kept(h)
    BY <1>b, <1>2, <2>1, Updated DEF IInv, Kept, Calls, Goto, ReadFails
  <2>3. Sound(handler[h])'
    BY <1>a, <1>b, <1>2, <2>2
       DEF IInv, TypeOK, HandlerState, Sound, SoundRead, SoundCall, Planned, HasRead, Verified,
           Calling, Deciding, Outside, Introduced, event, lookup
  <2> QED
    BY <2>2, <2>3 DEF Steps
<1> QED
  BY <1>1, <1>2 DEF readBefore, Goto, Calls

LEMMA readAfterSteps ==
  ASSUME IInv, NEW h \in Handler, readAfter(h)
  PROVE  Steps(h)
<1>a. /\ handler[h] \in HandlerState /\ Sound(handler[h]) /\ handler[h].pc = "after"
      /\ receipt \in Receipt \cup {None} /\ job \in Job \cup {None}
  BY DEF IInv, TypeOK, readAfter, At
<1>b. world' = world /\ receipt' = receipt /\ job' = job /\ receipt # None /\ normalizeVerifiedPushEvent(event)
      /\ readImmutableContent(world.content, event.after) \in ImmutablePathObservation
  BY <1>a, WorldAssumption
     DEF readAfter, Sound, SoundRead, SoundCall, Deciding, Outside, IInv, TypeOK, event,
         Request, readImmutableContent, ImmutablePathObservation
<1>1. CASE Becomes(h, [handler[h] EXCEPT !.pc = "revoke", !.after = readImmutableContent(world.content, event.after)])
  <2> DEFINE s == [handler[h] EXCEPT !.pc = "revoke", !.after = readImmutableContent(world.content, event.after)]
  <2>1. s \in HandlerState
    BY <1>a, <1>b, <1>1 DEF HandlerState
  <2>2. handler' \in [Handler -> HandlerState] /\ handler'[h] = s /\ Kept(h)
    BY <1>b, <1>1, <2>1, Updated DEF IInv, Kept, Calls, Goto
  <2>3. Sound(handler[h])'
    BY <1>a, <1>b, <1>1, <2>2
       DEF IInv, TypeOK, HandlerState, Sound, SoundRead, SoundCall, Planned, HasRead, Verified,
           Calling, Deciding, Outside, Introduced, event, lookup
  <2> QED
    BY <2>2, <2>3 DEF Steps
<1>2. CASE ReadFails(h)
  <2> DEFINE s == [handler[h] EXCEPT !.pc = "revoke", !.failed = TRUE]
  <2>1. s \in HandlerState
    BY <1>a, <1>b DEF HandlerState
  <2>2. handler' \in [Handler -> HandlerState] /\ handler'[h] = s /\ Kept(h)
    BY <1>b, <1>2, <2>1, Updated DEF IInv, Kept, Calls, Goto, ReadFails
  <2>3. Sound(handler[h])'
    BY <1>a, <1>b, <1>2, <2>2
       DEF IInv, TypeOK, HandlerState, Sound, SoundRead, SoundCall, Planned, HasRead, Verified,
           Calling, Deciding, Outside, Introduced, event, lookup
  <2> QED
    BY <2>2, <2>3 DEF Steps
<1> QED
  BY <1>1, <1>2 DEF readAfter, Goto, Calls

LEMMA revokeTokenSteps ==
  ASSUME IInv, NEW h \in Handler, revokeToken(h)
  PROVE  Steps(h)
<1>a. /\ handler[h] \in HandlerState /\ Sound(handler[h]) /\ handler[h].pc = "revoke"
      /\ receipt \in Receipt \cup {None} /\ job \in Job \cup {None}
  BY DEF IInv, TypeOK, revokeToken, At
<1>b. world' = world /\ receipt' = receipt /\ job' = job /\ receipt # None /\ normalizeVerifiedPushEvent(event)
  BY <1>a DEF revokeToken, Sound, SoundRead, SoundCall, Deciding, Outside
<1>1. CASE Goto(h, "probe")
  <2> DEFINE s == [handler[h] EXCEPT !.pc = "probe"]
  <2>1. s \in HandlerState
    BY <1>a, <1>b DEF HandlerState
  <2>2. handler' \in [Handler -> HandlerState] /\ handler'[h] = s /\ Kept(h)
    BY <1>b, <1>1, <2>1, Updated DEF IInv, Kept, Calls, Goto
  <2>3. Sound(handler[h])'
    BY <1>a, <1>b, <1>1, <2>2
       DEF IInv, TypeOK, HandlerState, Sound, SoundRead, SoundCall, Planned, HasRead, Verified,
           Calling, Deciding, Outside, Introduced, event, lookup
  <2> QED
    BY <2>2, <2>3 DEF Steps
<1>2. CASE Rejects(h, "C2_PUSH_REJECTED")
  BY <1>b, <1>2, RejectsSteps DEF Rejection
<1> QED
  BY <1>1, <1>2 DEF revokeToken

LEMMA probeRevokedTokenSteps ==
  ASSUME IInv, NEW h \in Handler, probeRevokedToken(h)
  PROVE  Steps(h)
<1>a. /\ handler[h] \in HandlerState /\ Sound(handler[h]) /\ handler[h].pc = "probe"
      /\ receipt \in Receipt \cup {None} /\ job \in Job \cup {None}
  BY DEF IInv, TypeOK, probeRevokedToken, At
<1>b. world' = world /\ receipt' = receipt /\ job' = job /\ receipt # None /\ normalizeVerifiedPushEvent(event)
  BY <1>a DEF probeRevokedToken, Sound, SoundRead, SoundCall, Deciding, Outside
<1>1. CASE ~handler[h].failed /\ Goto(h, "judge")
  <2> DEFINE s == [handler[h] EXCEPT !.pc = "judge"]
  <2>1. s \in HandlerState
    BY <1>a, <1>b DEF HandlerState
  <2>2. handler' \in [Handler -> HandlerState] /\ handler'[h] = s /\ Kept(h)
    BY <1>b, <1>1, <2>1, Updated DEF IInv, Kept, Calls, Goto
  <2>3. Sound(handler[h])'
    BY <1>a, <1>b, <1>1, <2>2
       DEF IInv, TypeOK, HandlerState, Sound, SoundRead, SoundCall, Planned, HasRead, Verified,
           Calling, Deciding, Outside, Introduced, event, lookup
  <2> QED
    BY <2>2, <2>3 DEF Steps
<1>2. CASE Rejects(h, "C2_PUSH_REJECTED")
  BY <1>b, <1>2, RejectsSteps DEF Rejection
<1> QED
  BY <1>1, <1>2 DEF probeRevokedToken

LEMMA decideSteps ==
  ASSUME IInv, NEW h \in Handler, decide(h)
  PROVE  Steps(h)
<1>a. /\ handler[h] \in HandlerState /\ Sound(handler[h]) /\ handler[h].pc = "decide"
      /\ world' = world /\ receipt' = receipt /\ job' = job
  BY DEF IInv, TypeOK, decide, At
<1>b. receipt # None /\ normalizeVerifiedPushEvent(event) /\ handler[h].call = "reserve"
  BY <1>a DEF Sound, SoundRead, SoundCall, Deciding, Outside
<1>1. CASE createImmutablePushReadPlan(h)
  <2>1. CASE lookup # "MATCH"
    <3>1. lookup \in {"NO_MATCH", "AMBIGUOUS", "MATCH", "DISABLED"}
      BY DEF lookup, lookupPreExistingPushPolicy
    <3>2. LookupRejection[lookup] \in Rejection
      BY <2>1, <3>1 DEF LookupRejection, Rejection
    <3> QED
      BY <1>1, <1>a, <1>b, <2>1, <3>2, RejectsSteps DEF createImmutablePushReadPlan
  <2>2. CASE lookup = "MATCH" /\ ~assertPushAuthorityEligible(event)
    BY <1>1, <1>a, <1>b, <2>2, RejectsSteps DEF createImmutablePushReadPlan, Rejection
  <2>3. CASE lookup = "MATCH" /\ assertPushAuthorityEligible(event)
    <3>1. PICK p \in Usable(event, world.policies, world.retired) :
            Becomes(h, [handler[h] EXCEPT !.pc = "mint", !.seen = None, !.policy = p])
      BY <1>1, <2>3 DEF createImmutablePushReadPlan
    <3>2. p \in C2PushPolicyV2
      BY UsableTyped DEF IInv
    <3> DEFINE s == [handler[h] EXCEPT !.pc = "mint", !.seen = None, !.policy = p]
    <3>3. s \in HandlerState
      BY <1>a, <3>2 DEF HandlerState
    <3>4. handler' \in [Handler -> HandlerState] /\ handler'[h] = s /\ Kept(h)
      BY <1>a, <3>1, <3>3, Updated DEF IInv, Kept
    <3>5. Sound(handler[h])'
      BY <1>a, <1>b, <2>3, <3>4
         DEF IInv, TypeOK, HandlerState, Sound, SoundRead, SoundCall, Planned, HasRead,
             Verified, Calling, Deciding, Outside, Introduced, event, lookup
    <3> QED
      BY <3>4, <3>5 DEF Steps
  <2> QED
    BY <2>1, <2>2, <2>3
<1>2. CASE Becomes(h, Idle)
  BY <1>2, <1>a, IdleSteps
<1>3. CASE Becomes(h, [Idle EXCEPT !.pc = "create"])
  BY <1>3, <1>a, ReturnsSteps
<1> QED
  BY <1>1, <1>2, <1>3 DEF decide

\* What the two reads say is what the transition asks for.
LEMMA CausalIntroduced ==
  ASSUME NEW p, normalizeVerifiedPushEvent(event), assertPushAuthorityEligible(event),
         verifyPushSecretTransition(readImmutableContent(world.content, event.before),
                                    readImmutableContent(world.content, event.after), event, p)
           = "CAUSAL_SECRET_INTRODUCED"
  PROVE  Introduced(p)
<1>1. readImmutableContent(world.content, event.before).content = world.content[event.before]
  BY DEF readImmutableContent
<1>2. readImmutableContent(world.content, event.after).content = world.content[event.after]
  BY DEF readImmutableContent
<1>3. world.content[event.after] = p.digest /\ world.content[event.before] # p.digest
  BY <1>1, <1>2 DEF verifyPushSecretTransition
<1> QED
  BY <1>3 DEF Introduced, normalizeVerifiedPushEvent, assertPushAuthorityEligible

LEMMA judgeSteps ==
  ASSUME IInv, NEW h \in Handler, judge(h)
  PROVE  Steps(h)
<1>a. /\ handler[h] \in HandlerState /\ Sound(handler[h]) /\ handler[h].pc = "judge"
      /\ world' = world /\ receipt' = receipt /\ job' = job
  BY DEF IInv, TypeOK, judge, At
<1>b. /\ receipt # None /\ normalizeVerifiedPushEvent(event)
      /\ assertPushAuthorityEligible(event) /\ HasRead(handler[h])
  BY <1>a DEF Sound, SoundRead, SoundCall, Deciding, Outside, Planned
<1>1. CASE \E d \in Rejection : Rejects(h, d)
  BY <1>1, <1>a, <1>b, RejectsSteps
<1>2. CASE /\ Goto(h, "bind")
           /\ verifyPushSecretTransition(handler[h].before, handler[h].after, event, handler[h].policy)
                = "CAUSAL_SECRET_INTRODUCED"
  <2>1. Introduced(handler[h].policy)
    BY <1>2, <1>b, CausalIntroduced DEF HasRead
  <2> DEFINE s == [handler[h] EXCEPT !.pc = "bind"]
  <2>2. s \in HandlerState
    BY <1>a DEF HandlerState
  <2>3. handler' \in [Handler -> HandlerState] /\ handler'[h] = s /\ Kept(h)
    BY <1>a, <1>2, <2>2, Updated DEF IInv, Kept, Goto
  <2>4. Sound(handler[h])'
    BY <1>a, <1>b, <2>1, <2>3
       DEF IInv, TypeOK, HandlerState, Sound, SoundRead, SoundCall, Planned, HasRead, Verified,
           Calling, Deciding, Outside, Introduced, event, lookup
  <2> QED
    BY <2>3, <2>4 DEF Steps
<1> QED
  BY <1>1, <1>2 DEF judge, Rejection

LEMMA bindVerifiedEventSteps ==
  ASSUME IInv, NEW h \in Handler, bindVerifiedEvent(h)
  PROVE  Steps(h)
<1>a. /\ handler[h] \in HandlerState /\ Sound(handler[h]) /\ handler[h].pc = "bind"
      /\ world' = world /\ receipt' = receipt /\ job' = job
  BY DEF IInv, TypeOK, bindVerifiedEvent, At
<1>b. receipt # None /\ normalizeVerifiedPushEvent(event)
  BY <1>a DEF Sound, SoundRead, SoundCall, Deciding, Outside
<1>1. CASE \E d \in Rejection : Rejects(h, d)
  BY <1>1, <1>a, <1>b, RejectsSteps
<1>2. CASE Becomes(h, Idle)
  BY <1>2, <1>a, IdleSteps
<1>3. CASE Selects(h)
  <2> DEFINE s == [handler[h] EXCEPT !.decision = "C2_PUSH_SELECTED", !.before = None, !.after = None,
                                     !.pc = "open", !.call = "finalize", !.seen = None]
  <2>1. s \in HandlerState
    BY <1>a DEF HandlerState, Decision
  <2>2. Becomes(h, s)
    BY <1>3 DEF Selects, Calls
  <2>3. handler' \in [Handler -> HandlerState] /\ handler'[h] = s /\ Kept(h)
    BY <1>a, <2>1, <2>2, Updated DEF IInv, Kept
  <2>4. Sound(handler[h])'
    BY <1>a, <1>b, <2>3
       DEF Decision, IInv, TypeOK, HandlerState, Sound, SoundRead, SoundCall, Planned, HasRead,
           Verified, Calling, Deciding, Outside, Introduced, event, lookup
  <2> QED
    BY <2>3, <2>4 DEF Steps
<1> QED
  BY <1>1, <1>2, <1>3 DEF bindVerifiedEvent, Rejection

LEMMA updateSteps ==
  ASSUME IInv, NEW h \in Handler, update(h)
  PROVE  Steps(h)
<1>a. Sound(handler[h]) /\ handler[h].pc = "ready" /\ world' = world /\ receipt' = receipt /\ job' = job
  BY DEF IInv, update, At
<1>b. job # None
  BY <1>a DEF Sound, SoundCall
<1>1. ASSUME NEW to \in Patch, Calls(h, [Idle EXCEPT !.patch = to], "update")
      PROVE  Steps(h)
  <2> DEFINE s == [[Idle EXCEPT !.patch = to] EXCEPT !.pc = "open", !.call = "update", !.seen = None]
  <2>1. s \in HandlerState
    BY DEF HandlerState, Idle
  <2>2. Becomes(h, s)
    BY <1>1 DEF Calls
  <2>3. handler' \in [Handler -> HandlerState] /\ handler'[h] = s /\ Kept(h)
    BY <1>a, <2>1, <2>2, Updated DEF IInv, Kept
  <2>4. Sound(handler[h])'
    BY <1>a, <1>b, <2>3
       DEF Sound, SoundRead, SoundCall, Planned, HasRead, Verified, Calling, Deciding, Outside,
           Idle
  <2> QED
    BY <2>3, <2>4 DEF Steps
<1>2. CASE Becomes(h, Idle)
  BY <1>2, <1>a, IdleSteps
<1> QED
  BY <1>1, <1>2 DEF update

LEMMA HandlerSteps ==
  ASSUME IInv, NEW h \in Handler, HandlerStep(h)
  PROVE  Steps(h)
BY acceptSteps, openSteps, statSteps, breakSteps, closeSteps, reserve_readSteps,
   finalize_readSteps, finalizeDedupeSteps, update_readSteps, update_writeSteps,
   mintContentsReadTokenSteps, readBeforeSteps, readAfterSteps, revokeTokenSteps,
   probeRevokedTokenSteps, reserveDedupeSteps, decideSteps, judgeSteps, bindVerifiedEventSteps,
   createSteps, updateSteps
   DEF HandlerStep, Locked, Reads

LEMMA MatchIsSole ==
  ASSUME TypeOK, lookup = "MATCH", NEW p \in Usable(event, world.policies, world.retired)
  PROVE  SoleAuthority(p)
<1>1. /\ p \in NonRetired(event, world.policies, world.retired)
      /\ p.enabled /\ p.live /\ p.sound
      /\ p.repository = C2_PUSH_REPOSITORY /\ p.ref = C2_PUSH_REF
  BY DEF Usable, validateC2PushPolicyV2
<1>2. /\ p \in world.policies /\ p.policy_id \notin world.retired
      /\ p.repository = event.repository /\ p.ref = event.ref
  BY <1>1 DEF NonRetired, Matching
<1>3. ~Ambiguous(event, world.policies, world.retired)
  BY DEF lookup, lookupPreExistingPushPolicy
<1>4. ASSUME NEW r \in world.policies \ {p}, <<r.repository, r.ref>> = <<p.repository, p.ref>>
      PROVE  /\ r.policy_id # p.policy_id
             /\ ~(r.enabled /\ r.live /\ r.sound /\ r.policy_id \notin world.retired)
  <2>1. r \in Matching(event, world.policies) /\ r # p
    BY <1>2, <1>4 DEF Matching
  <2>2. ASSUME r.policy_id \notin world.retired
        PROVE  r \in NonRetired(event, world.policies, world.retired)
    BY <2>1, <2>2 DEF NonRetired
  <2>3. r.policy_id # p.policy_id
    BY <1>1, <1>2, <1>3, <2>1, <2>2 DEF Ambiguous, DuplicateIdentity
  <2>4. ASSUME r.enabled, r.live, r.sound, r.policy_id \notin world.retired
        PROVE  r \in Usable(event, world.policies, world.retired)
    BY <1>1, <1>4, <2>2, <2>4 DEF Usable, validateC2PushPolicyV2
  <2> QED
    BY <1>3, <2>1, <2>3, <2>4 DEF Ambiguous
<1> QED
  BY <1>1, <1>2, <1>4 DEF SoleAuthority

\* The files stay typed, whoever steps.
LEMMA FilesTyped ==
  ASSUME IInv, NEW h \in Handler, HandlerStep(h)
  PROVE  receipt' \in Receipt \cup {None} /\ job' \in Job \cup {None}
<1>1. CASE finalizeDedupe(h)
  BY <1>1, DecidedTyped DEF finalizeDedupe, IInv, TypeOK
<1>2. CASE update_write(h)
  BY <1>2, MergedTyped DEF update_write, IInv, TypeOK
<1>3. CASE create(h)
  BY <1>3 DEF create, IInv, TypeOK, Job, JobState
<1>4. CASE reserveDedupe(h)
  BY <1>4, ReceiptTyped DEF reserveDedupe, IInv, TypeOK
<1>5. CASE receipt' = receipt /\ job' = job
  BY <1>5 DEF IInv, TypeOK
<1> QED
  BY <1>1, <1>2, <1>3, <1>4, <1>5
     DEF HandlerStep, Locked, Reads, accept, open, stat, break, close, reserve_read,
         finalize_read, update_read, mintContentsReadToken, readBefore, readAfter, revokeToken,
         probeRevokedToken, decide, judge, bindVerifiedEvent, update

\* The rest of the state stays typed: time and lock files.
LEMMA LocksTyped ==
  ASSUME IInv, NEW h \in Handler, HandlerStep(h)
  PROVE  /\ lock' \in [File -> {"free", "held", "old"}]
         /\ aged' = aged /\ bound' \in BOOLEAN /\ overdue' = overdue
BY DEF IInv, TypeOK, HandlerStep, Locked, Reads, accept, open, stat, break, close, reserve_read,
       finalize_read, finalizeDedupe, update_read, update_write, mintContentsReadToken,
       readBefore, readAfter, revokeToken, probeRevokedToken, reserveDedupe, decide, judge,
       bindVerifiedEvent, create, update, FileOf, File

LEMMA StepTypeOK ==
  ASSUME IInv, NEW h \in Handler, HandlerStep(h)
  PROVE  TypeOK' /\ \A g \in Handler : Sound(handler[g])'
<1>1. Steps(h)
  BY HandlerSteps
<1>2. TypeOK'
  BY <1>1, FilesTyped, LocksTyped DEF TypeOK, IInv, Steps, Kept
<1> QED
  BY <1>1, <1>2, OthersSound DEF Steps, IInv

\* Only finalizeDedupe accepts, and its run has verified what it accepts.
LEMMA StepCausal ==
  ASSUME IInv, NEW h \in Handler, HandlerStep(h)
  PROVE  AcceptedIsCausal'
<1>0. world' = world
  BY HandlerSteps DEF Steps, Kept
<1>1. CASE finalizeDedupe(h)
  <2>1. receipt' = Decided(handler[h]) /\ Sound(handler[h]) /\ handler[h].call = "finalize"
    BY <1>1 DEF finalizeDedupe, IInv
  <2>2. CASE handler[h].decision = "C2_PUSH_SELECTED"
    <3>1. Introduced(handler[h].policy)
      BY <2>1, <2>2 DEF Sound, SoundRead, Verified
    <3>2. SoleAuthority(handler[h].policy)
      BY <2>1, <2>2, MatchIsSole DEF Sound, SoundRead, Planned, IInv
    <3>3. receipt'.policy = handler[h].policy
      BY <2>1, <2>2 DEF Decided
    <3> QED
      BY <1>0, <3>1, <3>2, <3>3 DEF AcceptedIsCausal, Accepted, Introduced, SoleAuthority, event
  <2>3. CASE handler[h].decision # "C2_PUSH_SELECTED"
    BY <2>1, <2>3 DEF Decided, Accepted, AcceptedIsCausal
  <2> QED
    BY <2>2, <2>3
<1>2. CASE reserveDedupe(h)
  BY <1>0, <1>2
     DEF reserveDedupe, AcceptedIsCausal, Accepted, Reserved, IInv, Introduced, SoleAuthority, event
<1>3. CASE receipt' = receipt
  BY <1>0, <1>3 DEF AcceptedIsCausal, Accepted, IInv, Introduced, SoleAuthority, event
<1> QED
  BY <1>1, <1>2, <1>3
     DEF HandlerStep, Locked, Reads, accept, open, stat, break, close, reserve_read,
         finalize_read, update_read, update_write, mintContentsReadToken, readBefore, readAfter,
         revokeToken, probeRevokedToken, decide, judge, bindVerifiedEvent, create, update

\* What exclusion asks of a step of h.
LEMMA ExclusiveSteps ==
  ASSUME IInv, ~overdue, NEW h \in Handler, Steps(h),
         \A f \in File : lock'[f] # "old",
         \A g \in Handler \ {h} : Inside(g) => lock'[FileOf(g)] = "held",
         \A g \in Handler \ {h} : Current(g)',
         handler'[h].pc # "break",
         Inside(h)' => /\ lock'[FileOf(h)'] = "held"
                       /\ Current(h)'
                       /\ \A g \in Handler \ {h} : Inside(g) => FileOf(g) # FileOf(h)'
  PROVE  Exclusive'
<1>1. \A g \in Handler \ {h} : /\ handler'[g] = handler[g]
                               /\ Inside(g)' = Inside(g) /\ FileOf(g)' = FileOf(g)
  BY DEF Steps, Kept, Inside, FileOf
<1>2. Exclusive
  BY DEF IInv
<1>3. ASSUME NEW g \in Handler
      PROVE  (~At(g, "break") /\ (Inside(g) => lock[FileOf(g)] = "held") /\ Current(g))'
  <2>1. CASE g = h
    BY <2>1 DEF At, Inside, Current
  <2>2. CASE g # h
    BY <1>1, <1>2, <2>2 DEF Exclusive, At
  <2> QED
    BY <2>1, <2>2
<1>4. ASSUME NEW g \in Handler, NEW k \in Handler, Inside(g)', Inside(k)', FileOf(g)' = FileOf(k)', g # k
      PROVE  FALSE
  <2>1. CASE g = h
    BY <1>1, <1>4, <2>1
  <2>2. CASE k = h
    BY <1>1, <1>4, <2>2
  <2>3. CASE g # h /\ k # h
    BY <1>1, <1>2, <1>4, <2>3 DEF Exclusive
  <2> QED
    BY <2>1, <2>2, <2>3
<1> QED
  BY <1>3, <1>4 DEF Exclusive

\* A run that is not inside after its step disturbs nobody.
LEMMA StaysOutside ==
  ASSUME IInv, ~overdue, NEW h \in Handler, Steps(h), UNCHANGED <<lock, receipt, job>>,
         handler'[h].pc \notin {"break", "inside", "write", "close"}
  PROVE  Exclusive'
<1>1. \A f \in File : lock'[f] # "old"
  BY DEF IInv, Exclusive
<1>2. \A g \in Handler \ {h} : (Inside(g) => lock'[FileOf(g)] = "held") /\ Current(g)'
  BY DEF IInv, Exclusive, Steps, Kept, Current, At
<1>3. ~Inside(h)'
  BY DEF Inside
<1> QED
  BY <1>1, <1>2, <1>3, ExclusiveSteps

\* Nor does one that stays inside with the same call, if what it read is current.
LEMMA StaysInside ==
  ASSUME IInv, ~overdue, NEW h \in Handler, Steps(h), UNCHANGED <<lock, receipt, job>>,
         Inside(h), handler'[h].pc \in {"inside", "write", "close"}, handler'[h].call = handler[h].call,
         Current(h)'
  PROVE  Exclusive'
<1>1. \A f \in File : lock'[f] # "old"
  BY DEF IInv, Exclusive
<1>2. \A g \in Handler \ {h} : (Inside(g) => lock'[FileOf(g)] = "held") /\ Current(g)'
  BY DEF IInv, Exclusive, Steps, Kept, Current, At
<1>3. FileOf(h)' = FileOf(h)
  BY DEF FileOf
<1>4. lock'[FileOf(h)'] = "held" /\ \A g \in Handler \ {h} : Inside(g) => FileOf(g) # FileOf(h)'
  BY <1>3 DEF IInv, Exclusive
<1> QED
  BY <1>1, <1>2, <1>4, ExclusiveSteps

LEMMA openExclusive ==
  ASSUME IInv, ~overdue, NEW h \in Handler, open(h)
  PROVE  Exclusive'
<1>1. Steps(h) /\ UNCHANGED <<receipt, job>>
  BY openSteps DEF open
<1>2. CASE lock[FileOf(h)] = "free" /\ lock' = [lock EXCEPT ![FileOf(h)] = "held"] /\ Goto(h, "inside")
  <2>1. /\ handler'[h].pc = "inside" /\ handler'[h].call = handler[h].call
    BY <1>2 DEF Goto, Becomes, IInv, TypeOK, HandlerState
  <2>2. \A g \in Handler : Inside(g) => FileOf(g) # FileOf(h)
    BY <1>2 DEF IInv, Exclusive
  <2>3. FileOf(h)' = FileOf(h) /\ \A g \in Handler \ {h} : FileOf(g)' = FileOf(g) /\ handler'[g] = handler[g]
    BY <1>1, <2>1 DEF FileOf, Steps, Kept
  <2>4. \A f \in File : lock'[f] # "old"
    BY <1>2 DEF IInv, Exclusive, TypeOK
  <2>5. lock'[FileOf(h)] = "held" /\ \A f \in File \ {FileOf(h)} : lock'[f] = lock[f]
    BY <1>2 DEF IInv, TypeOK, FileOf, File
  <2>6. \A g \in Handler : FileOf(g) \in File
    BY DEF FileOf, File
  <2>7. \A g \in Handler \ {h} : (Inside(g) => lock'[FileOf(g)] = "held") /\ Current(g)'
    BY <1>1, <2>2, <2>3, <2>5, <2>6 DEF IInv, Exclusive, Current, At
  <2>8. Current(h)'
    BY <2>1 DEF Current, At
  <2> QED
    BY <1>1, <2>1, <2>2, <2>3, <2>4, <2>5, <2>7, <2>8, ExclusiveSteps
<1>3. CASE UNCHANGED lock /\ Goto(h, "stat")
  BY <1>1, <1>3, StaysOutside DEF Goto, Becomes, IInv, TypeOK, HandlerState
<1> QED
  BY <1>2, <1>3 DEF open

LEMMA closeExclusive ==
  ASSUME IInv, ~overdue, NEW h \in Handler, close(h)
  PROVE  Exclusive'
<1>1. Steps(h) /\ UNCHANGED <<receipt, job>> /\ lock' = [lock EXCEPT ![FileOf(h)] = "free"]
  BY closeSteps DEF close
<1>2. handler'[h].pc \in {"idle", "create", "ready", "decide"}
  BY DEF close, Becomes, Goto, IInv, TypeOK, HandlerState, Idle
<1>3. \A g \in Handler \ {h} : Inside(g) => FileOf(g) # FileOf(h)
  BY DEF IInv, Exclusive, close, At, Inside
<1>4. \A g \in Handler \ {h} : FileOf(g)' = FileOf(g) /\ handler'[g] = handler[g]
  BY <1>1 DEF FileOf, Steps, Kept
<1>5. \A f \in File : lock'[f] # "old" /\ (f # FileOf(h) => lock'[f] = lock[f])
  BY <1>1 DEF IInv, TypeOK, Exclusive
<1>6. \A g \in Handler : FileOf(g) \in File
  BY DEF FileOf, File
<1>7. \A g \in Handler \ {h} : (Inside(g) => lock'[FileOf(g)] = "held") /\ Current(g)'
  BY <1>1, <1>3, <1>4, <1>5, <1>6 DEF IInv, Exclusive, Current, At
<1>8. ~Inside(h)'
  BY <1>2 DEF Inside
<1> QED
  BY <1>1, <1>2, <1>5, <1>7, <1>8, ExclusiveSteps

\* A read inside: what it read is what the file says.
LEMMA readExclusive ==
  ASSUME IInv, ~overdue, NEW h \in Handler, reserve_read(h) \/ finalize_read(h) \/ update_read(h)
  PROVE  Exclusive'
<1>1. Steps(h) /\ UNCHANGED <<lock, receipt, job>> /\ Inside(h)
  BY reserve_readSteps, finalize_readSteps, update_readSteps
     DEF reserve_read, finalize_read, update_read, At, Inside
<1>2. /\ handler'[h].pc \in {"write", "close"} /\ handler'[h].call = handler[h].call
      /\ Current(h)'
  <2>1. handler[h] \in HandlerState /\ handler \in [Handler -> HandlerState]
    BY DEF IInv, TypeOK
  <2>2. CASE reserve_read(h)
    BY <2>1, <2>2 DEF reserve_read, Becomes, Current, At, HandlerState
  <2>3. CASE finalize_read(h)
    BY <2>1, <2>3 DEF finalize_read, Becomes, Current, At, HandlerState
  <2>4. CASE update_read(h)
    <3>1. CASE canTransition(job.state, handler[h].patch, FALSE)
      <4>1. handler' = [handler EXCEPT ![h] = [handler[h] EXCEPT !.pc = "write", !.seen = job]]
        BY <2>4, <3>1 DEF update_read, Becomes
      <4> QED
        BY <1>1, <2>1, <2>4, <3>1, <4>1 DEF update_read, Current, At, HandlerState
    <3>2. CASE ~canTransition(job.state, handler[h].patch, FALSE)
      BY <2>1, <2>4, <3>2 DEF update_read, Becomes, Current, At, HandlerState
    <3> QED
      BY <3>1, <3>2
  <2> QED
    BY <2>2, <2>3, <2>4
<1> QED
  BY <1>1, <1>2, StaysInside

\* A write inside: no other run has read the file it changes.
LEMMA writeExclusive ==
  ASSUME IInv, ~overdue, NEW h \in Handler, finalizeDedupe(h) \/ update_write(h)
  PROVE  Exclusive'
<1>1. Steps(h) /\ UNCHANGED lock /\ Inside(h)
  BY finalizeDedupeSteps, update_writeSteps DEF finalizeDedupe, update_write, At, Inside
<1>2. handler'[h].pc = "close" /\ handler'[h].call = handler[h].call
  BY DEF finalizeDedupe, update_write, Goto, Becomes, IInv, TypeOK, HandlerState
<1>3. \A g \in Handler \ {h} : handler'[g] = handler[g] /\ (Inside(g) => FileOf(g) # FileOf(h))
  BY <1>1 DEF IInv, Exclusive, Steps, Kept
<1>4. \A g \in Handler \ {h} : Current(g)'
  BY <1>1, <1>3 DEF IInv, Exclusive, Current, At, Inside, FileOf, finalizeDedupe, update_write
<1>5. \A f \in File : lock'[f] # "old"
  BY <1>1 DEF IInv, Exclusive
<1>6. FileOf(h)' = FileOf(h) /\ lock'[FileOf(h)] = "held" /\ Current(h)'
  BY <1>1, <1>2 DEF IInv, Exclusive, FileOf, Current, At
<1>7. \A g \in Handler \ {h} : Inside(g) => lock'[FileOf(g)] = "held"
  BY <1>1 DEF IInv, Exclusive
<1> QED
  BY <1>1, <1>2, <1>3, <1>4, <1>5, <1>6, <1>7, ExclusiveSteps

\* The first links of the files: nobody can have read them before.
LEMMA linkExclusive ==
  ASSUME IInv, ~overdue, NEW h \in Handler, reserveDedupe(h) \/ create(h)
  PROVE  Exclusive'
<1>1. Steps(h) /\ UNCHANGED lock
  BY reserveDedupeSteps, createSteps DEF reserveDedupe, create
<1>2. handler'[h].pc \in {"decide", "open", "ready"}
  <2>0. handler \in [Handler -> HandlerState] /\ handler[h] \in HandlerState
    BY DEF IInv, TypeOK
  <2>1. ASSUME NEW pc, Goto(h, pc) PROVE handler'[h].pc = pc
    BY <2>0, <2>1 DEF Goto, Becomes, HandlerState
  <2>2. ASSUME Calls(h, handler[h], "reserve") PROVE handler'[h].pc = "open"
    BY <2>0, <2>2 DEF Calls, Becomes, HandlerState
  <2> QED
    BY <2>1, <2>2 DEF reserveDedupe, create
<1>3. /\ receipt' = receipt \/ receipt = None
      /\ job' = job \/ job = None
  BY DEF reserveDedupe, create
<1>4. ASSUME NEW g \in Handler \ {h}
      PROVE  Current(g)'
  <2>1. Sound(handler[g]) /\ Current(g) /\ handler'[g] = handler[g]
    BY <1>1 DEF IInv, Exclusive, Steps, Kept
  <2>2. At(g, "write") => \/ handler[g].call = "finalize" /\ receipt # None
                          \/ handler[g].call = "update" /\ job # None
    BY <2>1, ReceiptTyped DEF Current, Sound, SoundCall, Calling, At
  <2> QED
    BY <1>3, <2>1, <2>2 DEF Current, At
<1>5. \A f \in File : lock'[f] # "old"
  BY <1>1 DEF IInv, Exclusive
<1>6. \A g \in Handler \ {h} : Inside(g) => lock'[FileOf(g)] = "held"
  BY <1>1 DEF IInv, Exclusive
<1>7. ~Inside(h)'
  BY <1>2 DEF Inside
<1> QED
  BY <1>1, <1>2, <1>4, <1>5, <1>6, <1>7, ExclusiveSteps

\* The steps between the calls.
LEMMA OutsideSteps ==
  ASSUME TypeOK, NEW h \in Handler,
         \/ accept(h) \/ decide(h) \/ Reads(h) \/ judge(h) \/ bindVerifiedEvent(h) \/ update(h)
  PROVE  UNCHANGED <<lock, receipt, job>> /\ handler'[h].pc \notin {"break", "inside", "write", "close"}
<1>0. handler \in [Handler -> HandlerState] /\ handler[h] \in HandlerState
  BY DEF TypeOK
<1>1. UNCHANGED <<lock, receipt, job>>
  BY DEF accept, decide, Reads, mintContentsReadToken, readBefore, readAfter, revokeToken,
         probeRevokedToken, judge, bindVerifiedEvent, update
<1> SUFFICES handler'[h].pc \notin {"break", "inside", "write", "close"}
  BY <1>1
<1>3. ASSUME NEW d, Rejects(h, d) PROVE handler'[h].pc = "open"
  BY <1>0, <1>3 DEF Rejects, Calls, Becomes, Idle
<1>4. ASSUME Selects(h) PROVE handler'[h].pc = "open"
  BY <1>0, <1>4 DEF Selects, Calls, Becomes, HandlerState
<1>5. ASSUME NEW pc, Goto(h, pc) PROVE handler'[h].pc = pc
  BY <1>0, <1>5 DEF Goto, Becomes, HandlerState
<1>6. ASSUME NEW pc, Becomes(h, [Idle EXCEPT !.pc = pc]) PROVE handler'[h].pc = pc
  BY <1>0, <1>6 DEF Becomes, Idle
<1>7. ASSUME Becomes(h, Idle) PROVE handler'[h].pc = "idle"
  BY <1>0, <1>7 DEF Becomes, Idle
<1>8. CASE accept(h)
  BY <1>0, <1>8 DEF accept, Becomes, Idle
<1>9. CASE decide(h)
  <2>1. CASE createImmutablePushReadPlan(h)
    <3>1. ASSUME NEW p, Becomes(h, [handler[h] EXCEPT !.pc = "mint", !.seen = None, !.policy = p])
          PROVE  handler'[h].pc = "mint"
      BY <1>0, <3>1 DEF Becomes, HandlerState
    <3> QED
      BY <1>3, <2>1, <3>1 DEF createImmutablePushReadPlan
  <2>2. CASE Becomes(h, Idle) \/ Becomes(h, [Idle EXCEPT !.pc = "create"])
    BY <1>6, <1>7, <2>2
  <2> QED
    BY <1>9, <2>1, <2>2 DEF decide
<1>10. CASE Reads(h)
  <2>1. CASE mintContentsReadToken(h)
    BY <1>3, <1>5, <2>1 DEF mintContentsReadToken
  <2>2. CASE readBefore(h) \/ readAfter(h)
    <3>1. ASSUME NEW v, Becomes(h, [handler[h] EXCEPT !.pc = "after", !.before = v])
          PROVE  handler'[h].pc = "after"
      BY <1>0, <3>1 DEF Becomes, HandlerState
    <3>2. ASSUME NEW v, Becomes(h, [handler[h] EXCEPT !.pc = "revoke", !.after = v])
          PROVE  handler'[h].pc = "revoke"
      BY <1>0, <3>2 DEF Becomes, HandlerState
    <3>3. ASSUME ReadFails(h) PROVE handler'[h].pc = "revoke"
      BY <1>0, <3>3 DEF ReadFails, Becomes, HandlerState
    <3> QED
      BY <2>2, <3>1, <3>2, <3>3 DEF readBefore, readAfter
  <2>3. CASE revokeToken(h)
    BY <1>3, <1>5, <2>3 DEF revokeToken
  <2>4. CASE probeRevokedToken(h)
    BY <1>3, <1>5, <2>4 DEF probeRevokedToken
  <2> QED
    BY <1>10, <2>1, <2>2, <2>3, <2>4 DEF Reads
<1>11. CASE judge(h)
  BY <1>3, <1>5, <1>11 DEF judge
<1>12. CASE bindVerifiedEvent(h)
  BY <1>3, <1>4, <1>7, <1>12 DEF bindVerifiedEvent
<1>13. CASE update(h)
  BY <1>0, <1>7, <1>13 DEF update, Calls, Becomes, Idle
<1> QED
  BY <1>1, <1>8, <1>9, <1>10, <1>11, <1>12, <1>13

LEMMA StepExclusive ==
  ASSUME IInv, ~overdue, NEW h \in Handler, HandlerStep(h)
  PROVE  Exclusive'
<1>0. Steps(h) /\ TypeOK
  BY HandlerSteps DEF IInv
<1>1. CASE \/ accept(h) \/ decide(h) \/ Reads(h) \/ judge(h) \/ bindVerifiedEvent(h) \/ update(h)
  BY <1>0, <1>1, OutsideSteps, StaysOutside
<1>2. CASE stat(h)
  <2>1. ~Breakable(FileOf(h))
    BY DEF IInv, Exclusive, Breakable, FileOf, File
  <2> QED
    BY <1>0, <1>2, <2>1, StaysOutside DEF stat, Goto, Becomes, TypeOK, HandlerState
<1>3. CASE break(h)
  BY <1>3 DEF break, IInv, Exclusive
<1> QED
  BY <1>1, <1>2, <1>3, openExclusive, closeExclusive, readExclusive,
     writeExclusive, linkExclusive DEF HandlerStep, Locked

----------------------------------------------------------------------------
(* What a job rests on                                                      *)

\* Until a lock file is overdue, a decision is written once and an update of the
\* job loses nothing.
LEMMA StepAtomic ==
  ASSUME IInv, ~overdue', NEW h \in Handler, HandlerStep(h)
  PROVE  /\ receipt \notin {None, Reserved} => receipt' = receipt
         /\ job # None => /\ canTransition(job.state, job'.state, FALSE)
                          /\ job.patched \subseteq job'.patched
<1>0. Exclusive
  BY LocksTyped DEF IInv
<1>1. CASE finalizeDedupe(h)
  <2>1. receipt = Reserved
    BY <1>0, <1>1 DEF finalizeDedupe, Exclusive, Current
  <2> QED
    BY <1>1, <2>1 DEF finalizeDedupe, canTransition
<1>2. CASE update_write(h)
  <2>1. handler[h].seen = job /\ canTransition(job.state, handler[h].patch, FALSE)
    BY <1>0, <1>2 DEF update_write, Exclusive, Current
  <2> QED
    BY <1>2, <2>1 DEF update_write, Merged
<1>3. CASE create(h)
  BY <1>3 DEF create, canTransition
<1>4. CASE reserveDedupe(h)
  BY <1>4 DEF reserveDedupe, canTransition
<1>5. CASE receipt' = receipt /\ job' = job
  BY <1>5 DEF canTransition
<1> QED
  BY <1>1, <1>2, <1>3, <1>4, <1>5
     DEF HandlerStep, Locked, Reads, accept, open, stat, break, close, reserve_read,
         finalize_read, update_read, mintContentsReadToken, readBefore, readAfter, revokeToken,
         probeRevokedToken, decide, judge, bindVerifiedEvent, update

\* What the founding of a run speaks of beside the run itself never goes away.
Rests == /\ bound => bound'
         /\ Authorised => Authorised'

LEMMA StepRests ==
  ASSUME IInv, NEW h \in Handler, HandlerStep(h)
  PROVE  Rests
<1>1. world' = world /\ overdue' = overdue
  BY HandlerSteps, LocksTyped DEF Steps, Kept
<1>2. bound => bound'
  BY DEF HandlerStep, Locked, Reads, accept, open, stat, break, close, reserve_read,
         finalize_read, finalizeDedupe, update_read, update_write, mintContentsReadToken,
         readBefore, readAfter, revokeToken, probeRevokedToken, reserveDedupe, decide, judge,
         bindVerifiedEvent, create, update
<1>3. CausalPush => CausalPush'
  BY <1>1 DEF CausalPush, Introduced, SoleAuthority, event
<1>4. ~overdue /\ Accepted => Accepted'
  <2> SUFFICES ASSUME ~overdue, Accepted PROVE Accepted'
    OBVIOUS
  <2>1. receipt \notin {None, Reserved}
    BY DEF Accepted, Reserved
  <2>2. receipt' = receipt
    BY <1>1, <2>1, StepAtomic
  <2> QED
    BY <2>2 DEF Accepted
<1> QED
  BY <1>1, <1>2, <1>3, <1>4 DEF Rests, Authorised

LEMMA FoundedMoves ==
  ASSUME NEW g \in Handler, Founded(handler[g]), handler'[g] = handler[g], Rests
  PROVE  Founded(handler[g])'
BY DEF Founded, GoesOn, Rests

\* A run that goes on as it is: no more than before rests on it.
LEMMA FoundedGoesOn ==
  ASSUME NEW h \in Handler, Founded(handler[h]), Rests,
         handler'[h].call = handler[h].call, handler'[h].decision = handler[h].decision,
         GoesOn(handler'[h]) => GoesOn(handler[h])
  PROVE  Founded(handler[h])'
BY DEF Founded, GoesOn, Rests

\* A run that starts anew, or starts a call that decides nothing.
LEMMA FoundedAnew ==
  ASSUME NEW h \in Handler, handler'[h].seen = None, handler'[h].pc # "create",
         handler'[h].call = "finalize" => handler'[h].decision # "C2_PUSH_SELECTED"
  PROVE  Founded(handler[h])'
BY ReceiptTyped DEF Founded, GoesOn

\* An accepted receipt is a causal push's, and bound.
LEMMA AcceptedAuthorised ==
  ASSUME IInv, Accepted
  PROVE  Authorised
BY DEF IInv, Authorised, AcceptedIsCausal, CausalPush, SoleAuthority

\* A call of the run: what it is to decide, and the lines before its lock.
LEMMA CallsFounded ==
  ASSUME IInv, NEW h \in Handler, Rests, NEW s \in HandlerState, NEW call \in {"reserve", "finalize", "update"},
         Calls(h, s, call), call = "finalize" => s.decision # "C2_PUSH_SELECTED"
  PROVE  Founded(handler[h])'
<1>1. handler'[h] = [s EXCEPT !.pc = "open", !.call = call, !.seen = None]
  BY DEF IInv, TypeOK, Calls, Becomes
<1> QED
  BY <1>1, FoundedAnew DEF HandlerState

LEMMA RejectsFounded ==
  ASSUME IInv, NEW h \in Handler, Rests, NEW d \in Rejection, Rejects(h, d)
  PROVE  Founded(handler[h])'
<1> DEFINE s == [Idle EXCEPT !.decision = d]
<1>1. s \in HandlerState /\ s.decision = d
  BY DEF HandlerState, Idle, Decision
<1>2. d # "C2_PUSH_SELECTED"
  BY DEF Rejection
<1> QED
  BY <1>1, <1>2, CallsFounded DEF Rejects

LEMMA IdleFounded ==
  ASSUME TypeOK, NEW h \in Handler, NEW pc \in {"idle", "reserve", "ready"}, NEW b \in BOOLEAN,
         Becomes(h, [Idle EXCEPT !.pc = pc, !.resumes = b])
  PROVE  Founded(handler[h])'
<1>1. handler'[h] = [Idle EXCEPT !.pc = pc, !.resumes = b]
  BY DEF TypeOK, Becomes
<1> QED
  BY <1>1, FoundedAnew DEF Idle

\* The run goes on to the job: its founding is now asked for.
LEMMA CreateFounded ==
  ASSUME IInv, NEW h \in Handler, Rests, GoesOn(handler[h]), Becomes(h, [Idle EXCEPT !.pc = "create"])
  PROVE  Founded(handler[h])'
<1>1. handler'[h].call = "reserve"
  BY DEF IInv, TypeOK, Becomes, Idle
<1>2. Authorised
  BY DEF IInv, Founded
<1> QED
  BY <1>1, <1>2 DEF Founded, Rests

\* A step of h leaves h founded.
LEMMA StepFounded ==
  ASSUME IInv, NEW h \in Handler, HandlerStep(h)
  PROVE  Founded(handler[h])'
<1>0. /\ handler \in [Handler -> HandlerState] /\ handler[h] \in HandlerState
      /\ Founded(handler[h]) /\ Sound(handler[h]) /\ Rests
      /\ Idle \in HandlerState /\ Idle.pc = "idle" /\ Idle.resumes = FALSE
  BY StepRests, IdleTyped DEF IInv, TypeOK, Idle
<1>a. ASSUME NEW pc \in {"open", "stat", "break", "inside", "decide", "before", "probe", "judge", "bind"},
             Goto(h, pc)
      PROVE  Founded(handler[h])'
  <2>1. handler'[h] = [handler[h] EXCEPT !.pc = pc]
    BY <1>0, <1>a DEF Goto, Becomes
  <2> QED
    BY <1>0, <1>a, <2>1, FoundedGoesOn DEF HandlerState, GoesOn
<1>b. ASSUME Becomes(h, Idle) PROVE Founded(handler[h])'
  <2>1. handler'[h] = Idle
    BY <1>0, <1>b DEF Becomes
  <2> QED
    BY <2>1, FoundedAnew DEF Idle
<1>c. ASSUME handler'[h].pc \in {"after", "revoke"}, handler'[h].call = handler[h].call,
             handler'[h].seen = handler[h].seen, handler'[h].decision = handler[h].decision
      PROVE  Founded(handler[h])'
  BY <1>0, <1>c, FoundedGoesOn DEF GoesOn
<1>1. CASE accept(h)
  <2>1. Becomes(h, [Idle EXCEPT !.pc = "reserve", !.resumes = (receipt = Reserved /\ bound)])
    BY <1>1 DEF accept
  <2> QED
    BY <2>1, IdleFounded DEF IInv
<1>2. CASE open(h) \/ stat(h) \/ break(h)
  <2>1. Goto(h, "inside") \/ Goto(h, "stat") \/ Goto(h, "break") \/ Goto(h, "open")
    BY <1>2 DEF open, stat, break
  <2> QED
    BY <2>1, <1>a
<1>3. CASE close(h)
  <2>0. handler[h].pc = "close"
    BY <1>3 DEF close, At
  <2>1. CASE handler[h].call = "reserve" /\ Goto(h, "decide")
    BY <2>1, <1>a
  <2>2. CASE Becomes(h, Idle)
    BY <2>2, <1>b
  <2>3. CASE /\ handler[h].call = "finalize" /\ handler[h].seen = Reserved
             /\ handler[h].decision = "C2_PUSH_SELECTED"
             /\ Becomes(h, [Idle EXCEPT !.pc = "create"])
    BY <1>0, <2>0, <2>3, CreateFounded DEF GoesOn
  <2>4. CASE Becomes(h, [Idle EXCEPT !.pc = "ready"])
    <3>1. handler'[h] = [Idle EXCEPT !.pc = "ready"]
      BY <1>0, <2>4 DEF Becomes
    <3> QED
      BY <3>1, FoundedAnew DEF Idle
  <2> QED
    BY <1>3, <2>1, <2>2, <2>3, <2>4 DEF close
<1>4. CASE reserve_read(h)
  <2>1. handler'[h] = [handler[h] EXCEPT !.pc = "close", !.seen = receipt] /\ handler[h].call = "reserve"
    BY <1>0, <1>4 DEF reserve_read, Becomes
  <2>2. handler'[h].call = "reserve" /\ handler'[h].seen = receipt /\ handler'[h].pc = "close"
    BY <1>0, <2>1 DEF HandlerState
  <2>3. GoesOn(handler'[h]) => Authorised
    BY <2>2, AcceptedAuthorised DEF GoesOn, Accepted
  <2> QED
    BY <1>0, <2>2, <2>3 DEF Founded, GoesOn, Rests
<1>5. CASE finalize_read(h)
  <2>1. /\ handler'[h].call = "finalize" /\ handler[h].call = "finalize"
        /\ handler'[h].decision = handler[h].decision /\ handler'[h].seen = receipt
        /\ handler'[h].pc = IF receipt = Reserved THEN "write" ELSE "close"
    BY <1>0, <1>5 DEF finalize_read, Becomes, HandlerState
  <2>2. ~GoesOn(handler'[h])
    BY <2>1 DEF GoesOn
  <2> QED
    BY <1>0, <2>1, <2>2, FoundedGoesOn
<1>6. CASE finalizeDedupe(h)
  <2>1. /\ handler'[h].call = "finalize" /\ handler[h].call = "finalize"
        /\ handler'[h].decision = handler[h].decision /\ handler'[h].pc = "close"
        /\ receipt' = Decided(handler[h])
    BY <1>0, <1>6 DEF finalizeDedupe, Goto, Becomes, HandlerState
  <2>2. CASE handler[h].decision = "C2_PUSH_SELECTED"
    <3>1. Accepted'
      <4>1. receipt' # None
        BY <1>6, <2>1, DecidedTyped, ReceiptAssumption
      <4>2. receipt'.state = "ACCEPTED"
        BY <2>1, <2>2 DEF Decided
      <4> QED
        BY <4>1, <4>2 DEF Accepted
    <3>2. bound'
      BY <1>0, <2>1, <2>2 DEF Founded, Rests
    <3>3. CausalPush'
      <4>1. AcceptedIsCausal'
        BY StepCausal
      <4> QED
        BY <3>1, <4>1 DEF AcceptedIsCausal, CausalPush, SoleAuthority
    <3> QED
      BY <3>1, <3>2, <3>3 DEF Founded, Authorised
  <2>3. CASE handler[h].decision # "C2_PUSH_SELECTED"
    BY <2>1, <2>3 DEF Founded, GoesOn
  <2> QED
    BY <2>2, <2>3
<1>7. CASE update_read(h) \/ update_write(h)
  <2>0. handler[h].call = "update"
    BY <1>7 DEF update_read, update_write
  <2>1. handler'[h].call = "update" /\ handler'[h].pc \in {"write", "close"}
    <3>1. CASE Becomes(h, [handler[h] EXCEPT !.pc = "write", !.seen = job])
      BY <1>0, <2>0, <3>1 DEF Becomes, HandlerState
    <3>2. CASE Becomes(h, [handler[h] EXCEPT !.pc = "close", !.patch = None])
      BY <1>0, <2>0, <3>2 DEF Becomes, HandlerState
    <3>3. CASE Goto(h, "close")
      BY <1>0, <2>0, <3>3 DEF Goto, Becomes, HandlerState
    <3> QED
      BY <1>7, <3>1, <3>2, <3>3 DEF update_read, update_write
  <2> QED
    BY <2>1 DEF Founded, GoesOn
<1>8. CASE reserveDedupe(h)
  <2>1. CASE Goto(h, "decide")
    BY <2>1, <1>a
  <2>2. CASE Calls(h, handler[h], "reserve")
    BY <1>0, <2>2, CallsFounded
  <2> QED
    BY <1>8, <2>1, <2>2 DEF reserveDedupe
<1>9. CASE decide(h)
  <2>0. handler[h].pc = "decide" /\ handler[h].call = "reserve"
    BY <1>0, <1>9 DEF decide, At, Sound, SoundCall, Outside
  <2>1. CASE createImmutablePushReadPlan(h)
    <3>1. CASE \E d \in Rejection : Rejects(h, d)
      BY <1>0, <3>1, RejectsFounded
    <3>2. CASE \E p \in Usable(event, world.policies, world.retired) :
                 Becomes(h, [handler[h] EXCEPT !.pc = "mint", !.seen = None, !.policy = p])
      <4>1. handler'[h].pc = "mint" /\ handler'[h].seen = None /\ handler'[h].call = "reserve"
        BY <1>0, <2>0, <3>2 DEF Becomes, HandlerState
      <4> QED
        BY <4>1, FoundedAnew
    <3>3. lookup # "MATCH" => LookupRejection[lookup] \in Rejection
      BY DEF lookup, lookupPreExistingPushPolicy, LookupRejection, Rejection
    <3> QED
      BY <2>1, <3>1, <3>2, <3>3 DEF createImmutablePushReadPlan, Rejection
  <2>2. CASE Becomes(h, Idle)
    BY <2>2, <1>b
  <2>3. CASE /\ handler[h].seen \notin {None, Reserved} /\ Replays(handler[h].seen)
             /\ Becomes(h, [Idle EXCEPT !.pc = "create"])
    BY <1>0, <2>0, <2>3, CreateFounded DEF GoesOn, Replays
  <2> QED
    BY <1>9, <2>1, <2>2, <2>3 DEF decide
<1>10. CASE mintContentsReadToken(h) \/ revokeToken(h) \/ probeRevokedToken(h)
  <2>1. CASE Goto(h, "before") \/ Goto(h, "probe") \/ Goto(h, "judge")
    BY <2>1, <1>a
  <2>2. CASE Rejects(h, "C2_PUSH_REJECTED")
    BY <1>0, <2>2, RejectsFounded DEF Rejection
  <2> QED
    BY <1>10, <2>1, <2>2 DEF mintContentsReadToken, revokeToken, probeRevokedToken
<1>11. CASE readBefore(h) \/ readAfter(h)
  <2> DEFINE Same == /\ handler'[h].pc \in {"after", "revoke"}
                     /\ handler'[h].call = handler[h].call
                     /\ handler'[h].seen = handler[h].seen
                     /\ handler'[h].decision = handler[h].decision
  <2>1. Same
    <3>1. ASSUME NEW v, Becomes(h, [handler[h] EXCEPT !.pc = "after", !.before = v])
          PROVE  Same
      BY <1>0, <3>1 DEF Becomes, HandlerState
    <3>2. ASSUME NEW v, Becomes(h, [handler[h] EXCEPT !.pc = "revoke", !.after = v])
          PROVE  Same
      BY <1>0, <3>2 DEF Becomes, HandlerState
    <3>3. ASSUME ReadFails(h) PROVE Same
      BY <1>0, <3>3 DEF ReadFails, Becomes, HandlerState
    <3> QED
      BY <1>11, <3>1, <3>2, <3>3 DEF readBefore, readAfter
  <2> QED
    BY <2>1, <1>c
<1>12. CASE judge(h)
  <2>1. CASE Goto(h, "bind")
    BY <2>1, <1>a
  <2>2. CASE \E d \in Rejection : Rejects(h, d)
    BY <1>0, <2>2, RejectsFounded
  <2> QED
    BY <1>12, <2>1, <2>2 DEF judge, Rejection
<1>13. CASE bindVerifiedEvent(h)
  <2>1. CASE bound' = TRUE /\ Selects(h)
    <3>1. handler'[h].call = "finalize" /\ handler'[h].pc = "open"
      BY <1>0, <2>1 DEF Selects, Calls, Becomes, HandlerState
    <3> QED
      BY <2>1, <3>1 DEF Founded, GoesOn
  <2>2. CASE \E d \in Rejection : Rejects(h, d)
    BY <1>0, <2>2, RejectsFounded
  <2>3. CASE Becomes(h, Idle)
    BY <2>3, <1>b
  <2> QED
    BY <1>13, <2>1, <2>2, <2>3 DEF bindVerifiedEvent, Rejection
<1>14. CASE create(h)
  <2>1. handler'[h] = [handler[h] EXCEPT !.pc = "ready"] /\ GoesOn(handler[h])
    BY <1>0, <1>14 DEF create, At, Goto, Becomes, GoesOn
  <2> QED
    BY <1>0, <2>1, FoundedGoesOn DEF HandlerState
<1>15. CASE update(h)
  <2>1. CASE \E to \in Patch : Calls(h, [Idle EXCEPT !.patch = to], "update")
    <3>1. PICK to \in Patch : Calls(h, [Idle EXCEPT !.patch = to], "update")
      BY <2>1
    <3>2. [Idle EXCEPT !.patch = to] \in HandlerState
      BY DEF HandlerState, Idle
    <3> QED
      BY <1>0, <3>1, <3>2, CallsFounded
  <2>2. CASE Becomes(h, Idle)
    BY <2>2, <1>b
  <2> QED
    BY <1>15, <2>1, <2>2 DEF update
<1> QED
  BY <1>1, <1>2, <1>3, <1>4, <1>5, <1>6, <1>7, <1>8, <1>9, <1>10, <1>11, <1>12, <1>13, <1>14,
     <1>15 DEF HandlerStep, Locked, Reads

\* The three parts of the strengthening that speak of the job.
JobFounded ==
  /\ Accepted => bound
  /\ \A h \in Handler : Founded(handler[h])
  /\ JobIsAuthorised

LEMMA StepJobFounded ==
  ASSUME IInv, NEW h \in Handler, HandlerStep(h)
  PROVE  JobFounded'
<1>1. Rests /\ Founded(handler[h])' /\ Steps(h)
  BY StepRests, StepFounded, HandlerSteps
<1>2. \A g \in Handler : Founded(handler[g])'
  <2> TAKE g \in Handler
  <2>1. CASE g = h
    BY <1>1, <2>1
  <2>2. CASE g # h
    BY <1>1, <2>2, FoundedMoves DEF IInv, Steps, Kept
  <2> QED
    BY <2>1, <2>2
<1>3. Accepted' => bound'
  <2>1. CASE finalizeDedupe(h)
    <3>1. Accepted' => handler[h].decision = "C2_PUSH_SELECTED" /\ handler[h].call = "finalize"
      BY <2>1 DEF finalizeDedupe, Accepted, Decided
    <3> QED
      BY <1>1, <3>1 DEF IInv, Founded, Rests
  <2>2. CASE reserveDedupe(h)
    BY <1>1, <2>2 DEF reserveDedupe, Accepted, Reserved, IInv, Rests
  <2>3. CASE receipt' = receipt
    BY <1>1, <2>3 DEF Accepted, IInv, Rests
  <2> QED
    BY <2>1, <2>2, <2>3
       DEF HandlerStep, Locked, Reads, accept, open, stat, break, close, reserve_read,
           finalize_read, update_read, update_write, mintContentsReadToken, readBefore,
           readAfter, revokeToken, probeRevokedToken, decide, judge, bindVerifiedEvent, create,
           update
<1>4. JobIsAuthorised'
  <2>1. CASE create(h)
    BY <1>1, <2>1 DEF create, At, IInv, Founded, GoesOn, Rests, JobIsAuthorised
  <2>2. CASE update_write(h)
    BY <1>1, <2>2 DEF update_write, At, IInv, Sound, SoundCall, Calling, Rests, JobIsAuthorised
  <2>3. CASE job' = job
    BY <1>1, <2>3 DEF IInv, Rests, JobIsAuthorised
  <2> QED
    BY <2>1, <2>2, <2>3
       DEF HandlerStep, Locked, Reads, accept, open, stat, break, close, reserve_read,
           finalize_read, finalizeDedupe, update_read, mintContentsReadToken, readBefore,
           readAfter, revokeToken, probeRevokedToken, reserveDedupe, decide, judge,
           bindVerifiedEvent, update
<1> QED
  BY <1>2, <1>3, <1>4 DEF JobFounded

\* Steps of nobody: a lock that grows old asks for less.
LEMMA SameFounded ==
  ASSUME IInv, UNCHANGED <<world, receipt, bound, job, handler>>, overdue => overdue'
  PROVE  JobFounded'
<1>1. Rests
  BY DEF Rests, Authorised, Accepted, CausalPush, Introduced, SoleAuthority, event
<1>2. \A h \in Handler : Founded(handler[h])'
  BY <1>1, FoundedMoves DEF IInv
<1> QED
  BY <1>1, <1>2 DEF JobFounded, IInv, JobIsAuthorised, Accepted, Rests

----------------------------------------------------------------------------
(* The theorems                                                             *)

LEMMA InitIInv == Init => IInv
<1> SUFFICES ASSUME Init PROVE IInv
  OBVIOUS
<1>1. TypeOK
  BY IdleTyped DEF Init, TypeOK
<1>2. \A h \in Handler : handler[h] = Idle
  BY DEF Init
<1>3. ASSUME NEW h \in Handler PROVE Sound(handler[h])
  BY <1>2
     DEF Sound, SoundRead, SoundCall, Planned, HasRead, Verified, Calling, Deciding, Outside,
         Idle
<1>4. Exclusive
  BY <1>2 DEF Init, Exclusive, At, Inside, Current, Idle
<1>5. AcceptedIsCausal
  BY DEF Init, Accepted, AcceptedIsCausal
<1>6. ~Accepted /\ JobIsAuthorised /\ \A h \in Handler : Founded(handler[h])
  BY <1>2 DEF Init, Accepted, JobIsAuthorised, Founded, GoesOn, Idle
<1> QED
  BY <1>1, <1>3, <1>4, <1>5, <1>6 DEF IInv

\* Steps of nobody: the files and the world stay.
LEMMA SameCausal ==
  ASSUME AcceptedIsCausal, UNCHANGED <<world, receipt>>
  PROVE  AcceptedIsCausal'
BY DEF AcceptedIsCausal, Accepted, Introduced, SoleAuthority, event

LEMMA SameSound ==
  ASSUME \A h \in Handler : Sound(handler[h]), UNCHANGED <<world, receipt, job, handler>>
  PROVE  \A h \in Handler : Sound(handler[h])'
BY SoundMoves

LEMMA SameExclusive ==
  ASSUME Exclusive, UNCHANGED <<receipt, job, lock, handler>>
  PROVE  Exclusive'
BY DEF Exclusive, At, Inside, Current, FileOf

LEMMA NextIInv == IInv /\ [Next]_vars => IInv'
<1> SUFFICES ASSUME IInv, [Next]_vars PROVE IInv'
  OBVIOUS
<1>1. ASSUME NEW h \in Handler, HandlerStep(h) PROVE IInv'
  <2>1. TypeOK' /\ \A g \in Handler : Sound(handler[g])'
    BY <1>1, StepTypeOK
  <2>2. AcceptedIsCausal'
    BY <1>1, StepCausal
  <2>3. ~overdue' => Exclusive'
    BY <1>1, LocksTyped, StepExclusive
  <2>4. JobFounded'
    BY <1>1, StepJobFounded
  <2> QED
    BY <2>1, <2>2, <2>3, <2>4 DEF IInv, JobFounded
<1>2. ASSUME NEW f \in File, grow_old(f) PROVE IInv'
  <2>1. TypeOK'
    BY <1>2 DEF IInv, TypeOK, grow_old
  <2>2. (\A h \in Handler : Sound(handler[h])') /\ AcceptedIsCausal'
    BY <1>2, SameSound, SameCausal DEF IInv, grow_old
  <2>3. JobFounded'
    BY <1>2, SameFounded DEF grow_old
  <2> QED
    BY <1>2, <2>1, <2>2, <2>3 DEF IInv, grow_old, JobFounded
<1>3. CASE reservation_ages
  <2>1. TypeOK'
    BY <1>3 DEF IInv, TypeOK, reservation_ages
  <2>2. (\A h \in Handler : Sound(handler[h])') /\ AcceptedIsCausal'
    BY <1>3, SameSound, SameCausal DEF IInv, reservation_ages
  <2>3. ~overdue' => Exclusive'
    BY <1>3, SameExclusive DEF IInv, reservation_ages
  <2>4. JobFounded'
    BY <1>3, SameFounded DEF reservation_ages
  <2> QED
    BY <2>1, <2>2, <2>3, <2>4 DEF IInv, JobFounded
<1>4. CASE crash
  <2>1. /\ \A h \in Handler : handler'[h] = Idle
        /\ UNCHANGED <<world, receipt, aged, bound, job, lock, overdue>>
    BY <1>4 DEF crash
  <2>2. TypeOK'
    BY <1>4, <2>1, IdleTyped DEF IInv, TypeOK, crash
  <2>3. ASSUME NEW h \in Handler PROVE Sound(handler[h])'
    BY <2>1
       DEF Sound, SoundRead, SoundCall, Planned, HasRead, Verified, Calling, Deciding, Outside,
           Idle
  <2>4. AcceptedIsCausal'
    BY <2>1, SameCausal DEF IInv
  <2>5. ~overdue' => Exclusive'
    <3>1. \A h \in Handler : handler'[h].pc = "idle"
      BY <2>1 DEF Idle
    <3>2. \A h \in Handler : ~At(h, "break")' /\ ~Inside(h)' /\ Current(h)'
      BY <3>1 DEF At, Inside, Current
    <3> QED
      BY <2>1, <3>2 DEF IInv, Exclusive
  <2>6. JobFounded'
    <3>1. \A h \in Handler : Founded(handler[h])'
      BY <2>1 DEF Founded, GoesOn, Idle
    <3>2. Rests
      BY <2>1 DEF Rests, Authorised, Accepted, CausalPush, Introduced, SoleAuthority, event
    <3> QED
      BY <2>1, <3>1, <3>2 DEF JobFounded, IInv, JobIsAuthorised, Accepted, Rests
  <2> QED
    BY <2>2, <2>3, <2>4, <2>5, <2>6 DEF IInv, JobFounded
<1>5. CASE UNCHANGED vars
  <2>1. UNCHANGED <<world, receipt, aged, bound, job, lock, overdue, handler>>
    BY <1>5 DEF vars
  <2>2. TypeOK'
    BY <2>1 DEF IInv, TypeOK
  <2>3. (\A h \in Handler : Sound(handler[h])') /\ AcceptedIsCausal' /\ (~overdue' => Exclusive')
    BY <2>1, SameSound, SameCausal, SameExclusive DEF IInv
  <2>4. JobFounded'
    BY <2>1, SameFounded
  <2> QED
    BY <2>2, <2>3, <2>4 DEF IInv, JobFounded
<1> QED
  BY <1>1, <1>2, <1>3, <1>4, <1>5 DEF Next

THEOREM Invariance == Spec => []IInv
BY InitIInv, NextIInv, PTL DEF Spec

\* Types: in particular a decided receipt is a complete record, and the job's
\* state is one of the eight (dedupe.ts: validateDedupeRecord).
THEOREM TypeCorrect == Spec => []TypeOK
<1>1. IInv => TypeOK
  BY DEF IInv
<1> QED
  BY <1>1, Invariance, PTL

\* Authority is accepted for a push that introduced the secret, under the one
\* policy that was usable, whatever failed and was repeated on the way.
THEOREM AcceptedIsAuthorised == Spec => []AcceptedIsCausal
<1>1. IInv => AcceptedIsCausal
  BY DEF IInv
<1> QED
  BY <1>1, Invariance, PTL

\* A job exists only for a causal push that was bound, whatever locks were broken
\* and decisions overwritten; until then, only beside an accepted receipt.
THEOREM JobsAreAuthorised == Spec => []JobIsAuthorised
<1>1. IInv => JobIsAuthorised
  BY DEF IInv
<1> QED
  BY <1>1, Invariance, PTL

\* Until a lock file is overdue, the receipt and the job change as if every call
\* on them were one step (dedupe.ts: withReceiptLock, job-store.ts: update).
THEOREM LockedFilesAreAtomic == Spec => FilesAreAtomic
<1> DEFINE Atomic ==
      \/ overdue'
      \/ /\ receipt \notin {None, Reserved} => receipt' = receipt
         /\ job # None => /\ canTransition(job.state, job'.state, FALSE)
                          /\ job.patched \subseteq job'.patched
<1>1. IInv /\ [Next]_vars => [Atomic]_vars
  <2> SUFFICES ASSUME IInv, [Next]_vars PROVE [Atomic]_vars
    OBVIOUS
  <2>1. ASSUME NEW h \in Handler, HandlerStep(h) PROVE Atomic
    BY <2>1, StepAtomic
  <2>2. ASSUME NEW f \in File, grow_old(f) PROVE Atomic
    BY <2>2 DEF grow_old
  <2>3. CASE reservation_ages \/ crash
    BY <2>3 DEF reservation_ages, crash, canTransition
  <2> QED
    BY <2>1, <2>2, <2>3 DEF Next
<1> HIDE DEF Atomic
<1>3. Spec => [][Atomic]_vars
  BY <1>1, Invariance, PTL DEF Spec
<1> QED
  BY <1>3 DEF Atomic, FilesAreAtomic
=============================================================================
