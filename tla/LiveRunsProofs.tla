--------------------------- MODULE LiveRunsProofs ---------------------------
(***************************************************************************)
(* Theorems about LiveRuns, for any number of contenders and any window of *)
(* the incident: what the evidence of a live run says is true, a DELETE is *)
(* authorised when it is sent, the sandbox branch sees one secret push, and *)
(* a replay changes nothing.  IInv of LiveRuns is inductive: it says of     *)
(* every step of a script what was done before it, and of every contender   *)
(* what it holds.                                                           *)
(***************************************************************************)
EXTENDS LiveRuns, C1ModelLemmas, TLAPS

----------------------------------------------------------------------------
(* How the row moves: under calls that start and settle nothing, under      *)
(* begin-effect, and under finalize and reconcile.                          *)

Idles(a, b) ==
  /\ GoodRow(b)
  /\ \/ b = a
     \/ a.effect_start_id = None /\ b.effect_start_id = None

Starts(a, b, n) ==
  /\ GoodRow(b)
  /\ \/ b = a
     \/ /\ a.effect_start_id = None
        /\ b.status = "EFFECT_STARTED" /\ b.effect_start_id # None /\ b.effect_start_id.nonce = n

Settles(a, b, start) ==
  /\ GoodRow(b)
  /\ \/ b = a
     \/ /\ a.status # "CLOSED"
        /\ a.effect_start_id = start /\ b.effect_start_id = start

\* A row without a start is not closed, and a started one has its start.
LEMMA StartShape ==
  ASSUME NEW a, GoodRow(a)
  PROVE  /\ a.status \in {"EFFECT_STARTED", "CLOSED"} => a.effect_start_id # None /\ a.effect_attempts = 1
         /\ a.status \in {"ACTIVE", "RESERVED", "READY_RETRY", "EFFECT_CLAIMED", "EXPIRED"} => a.effect_start_id = None
         /\ a # None
  BY AssumptionsHold DEF Assumptions, GoodRow, valid_shape, StatusShape, NoEffect, Started

LEMMA ExpireIdles ==
  ASSUME NEW a, GoodRow(a)
  PROVE  Idles(a, Expire(a))
<1>1. CASE a.status \in {"ACTIVE", "RESERVED", "READY_RETRY"}
  <2>1. GoodRow(Expire(a)) /\ Expire(a) = [a EXCEPT !.status = "EXPIRED"]
    BY <1>1, ExpireGood
  <2> QED  BY <1>1, <2>1, StartShape DEF Idles, GoodRow, IncidentAuthority
<1>2. CASE a.status \notin {"ACTIVE", "RESERVED", "READY_RETRY"}
  BY <1>2 DEF Expire, Idles
<1> QED  BY <1>1, <1>2

\* What is stored of an outcome.
LEMMA ReserveIdles ==
  ASSUME GoodRow(row), NEW caller, NEW now, NEW o, o = reserve(row, caller, now)
  PROVE  Idles(row, Stored(o))
<1>1. CASE o.authority = Reserved(row) /\ row.status = "ACTIVE" /\ GoodRow(Reserved(row))
  <2>1. Idles(row, Reserved(row))
    BY <1>1, StartShape DEF Idles, GoodRow, IncidentAuthority, Reserved
  <2> QED  BY <1>1, <2>1 DEF Stored, Idles
<1>2. CASE o.authority \in {row, Expire(row)}
  BY <1>2, ExpireIdles DEF Stored, Idles
<1> QED  BY <1>1, <1>2, ReserveOutcome

LEMMA ClaimIdles ==
  ASSUME GoodRow(row), NEW caller, NEW now, NEW version, NEW nonce, NEW o,
         o = claim_with_nonce(row, caller, now, version, nonce)
  PROVE  /\ Idles(row, Stored(o))
         /\ o.decision \in {"Proposed", "Lost", "Denied"}
         /\ GoodRow(o.authority)
         /\ o.decision = "Proposed" => o.authority.effect_claim_id \in StateId
<1>1. CASE /\ o.decision = "Proposed" /\ o.authority = Claimed(row, nonce) /\ nonce \in Nonce
           /\ row.effect_claim_version + 1 \in U64
           /\ row.status \in {"RESERVED", "READY_RETRY"} /\ GoodRow(Claimed(row, nonce))
  <2>1. Idles(row, Claimed(row, nonce))
    BY <1>1, StartShape DEF Idles, GoodRow, IncidentAuthority, Claimed
  <2>2. Claimed(row, nonce).effect_claim_id \in StateId
    BY <1>1 DEF GoodRow, IncidentAuthority, Claimed, StateId
  <2> QED  BY <1>1, <2>1, <2>2 DEF Stored, Idles
<1>2. CASE o.decision \in {"Denied", "Lost"} /\ o.authority \in {row, Expire(row)}
  BY <1>2, ExpireIdles DEF Stored, Idles
<1> QED  BY <1>1, <1>2, ClaimOutcome

LEMMA ReleaseIdles ==
  ASSUME GoodRow(row), NEW caller, NEW claim_id, NEW now, NEW o,
         o = release_not_attempted(row, caller, claim_id, now)
  PROVE  Idles(row, Stored(o))
<1>1. CASE o.decision = "Won"
  <2>1. o.authority = Released(row) /\ OwnsClaim(row, caller, claim_id) /\ GoodRow(Released(row))
    BY <1>1, ReleaseOutcome
  <2>2. Idles(row, Released(row))
    BY <2>1, StartShape DEF Idles, OwnsClaim, GoodRow, IncidentAuthority, Released
  <2> QED  BY <2>1, <2>2 DEF Stored, Idles
<1>2. CASE o.decision # "Won"
  BY <1>2 DEF release_not_attempted, Outcome, Stored, Idles
<1> QED  BY <1>1, <1>2

LEMMA BeginStarts ==
  ASSUME GoodRow(row), NEW caller, NEW claim_id, NEW nonce, NEW now, NEW o,
         o = begin_effect_with_nonce(row, caller, claim_id, nonce, now)
  PROVE  /\ Starts(row, Stored(o), nonce)
         /\ o.decision = "Won" => /\ o.authority.effect_start_id \in StateId
                                  /\ o.authority.effect_start_id.nonce = nonce
<1>1. CASE o.decision = "Won"
  <2>1. /\ o.authority = Begun(row, StartOf(row, nonce)) /\ OwnsClaim(row, caller, claim_id)
        /\ StartOf(row, nonce) \in StateId /\ GoodRow(Begun(row, StartOf(row, nonce)))
    BY <1>1, BeginOutcome
  <2>2. /\ Begun(row, StartOf(row, nonce)).effect_start_id = StartOf(row, nonce)
        /\ Begun(row, StartOf(row, nonce)).status = "EFFECT_STARTED"
    BY DEF GoodRow, IncidentAuthority, Begun
  <2>3. StartOf(row, nonce).nonce = nonce /\ StartOf(row, nonce) # None
    BY <2>1, AssumptionsHold DEF StartOf, Assumptions
  <2>4. row.effect_start_id = None
    BY <2>1, StartShape DEF OwnsClaim
  <2> QED  BY <1>1, <2>1, <2>2, <2>3, <2>4 DEF Stored, Writes, Starts
<1>2. CASE o.decision # "Won"
  BY <1>2 DEF begin_effect_with_nonce, Outcome, Stored, Starts
<1> QED  BY <1>1, <1>2

LEMMA SettleSettles ==
  ASSUME GoodRow(row), NEW caller, NEW claim_id, NEW start_id, NEW classification, NEW o,
         \/ o = finalize_with_start(row, caller, claim_id, start_id, classification)
         \/ o = reconcile_with_start(row, caller, claim_id, start_id, classification)
  PROVE  /\ Settles(row, Stored(o), start_id)
         /\ classification # "VERIFIED_ABSENT" /\ row.status # "CLOSED" => Stored(o).status # "CLOSED"
<1>1. CASE o.decision = "Won"
  <2>1. PICK status \in {"CLOSED", "RECONCILE_REQUIRED", "FAILED"} :
          /\ o.authority = Settled(row, status, classification)
          /\ row.status \in {"EFFECT_STARTED", "RECONCILE_REQUIRED", "FAILED"}
          /\ GoodRow(Settled(row, status, classification))
    BY <1>1, SettleOutcome
  <2>2. /\ Settled(row, status, classification).effect_start_id = row.effect_start_id
        /\ Settled(row, status, classification).status = status
        /\ Settled(row, status, classification).final_result_classification = classification
    BY DEF GoodRow, IncidentAuthority, Settled
  <2>3. row.effect_start_id = start_id
    BY <1>1 DEF finalize_with_start, reconcile_with_start, OwnsStart, Outcome
  <2>4. classification # "VERIFIED_ABSENT" => status # "CLOSED"
    BY <2>1, <2>2 DEF GoodRow, valid_shape, StatusShape
  <2>5. Stored(o) = Settled(row, status, classification)
    BY <1>1, <2>1 DEF Stored, Writes
  <2> QED  BY <2>1, <2>2, <2>3, <2>4, <2>5 DEF Settles
<1>2. CASE o.decision # "Won"
  BY <1>2 DEF finalize_with_start, reconcile_with_start, Outcome, Stored, Settles
<1> QED  BY <1>1, <1>2

----------------------------------------------------------------------------
(* The shape of the state, step by step.  The row and the number of         *)
(* DELETEs are not matters of shape and are kept out of it.                 *)

Typed ==
  /\ run \in Runner
  /\ key \in {"absent", "present", "gone"}
  /\ tokens \subseteq Purpose \cup Contender
  /\ branch \in [head : {"before", "trigger"}, issued : 0..2]
  /\ receipt \in [Delivery -> {"none", "RESERVED", "ACCEPTED", "REJECTED"}]
  /\ files \subseteq Evidence /\ pushed \subseteq files
  /\ inbox \in Inbox
  /\ gate \in Gate
  /\ child \in [Contender -> ChildState]

LEMMA LastSteps == {"catch", "catch-source", "catch-setup", "ended", "crashed"} \subseteq Step
  BY DEF Step

LEMMA RawStep == "source-mint" \in Step
  BY DEF Step

LEMMA GotoTyped ==
  ASSUME Typed, NEW to \in Step, Goto(to)
  PROVE  run' \in Runner
  BY DEF Typed, Goto, Runner

LEMMA ThrowsTyped ==
  ASSUME Typed, Throws
  PROVE  run' \in Runner
  BY GotoTyped, LastSteps DEF Throws

LEMMA ChecksTyped ==
  ASSUME Typed, NEW from, NEW to \in Step, NEW required, Checks(from, to, required)
  PROVE  Typed'
  BY GotoTyped, ThrowsTyped DEF Checks, Typed, provider, evidence, others

LEMMA MintsTyped ==
  ASSUME Typed, NEW from, NEW to \in Step, NEW p \in Purpose, Mints(from, to, p)
  PROVE  Typed'
  BY GotoTyped, ThrowsTyped DEF Mints, Typed, evidence, others

LEMMA RevokesTyped ==
  ASSUME Typed, NEW from, NEW to \in Step, NEW p \in Purpose, NEW required, Revokes(from, to, p, required)
  PROVE  Typed'
  BY GotoTyped, ThrowsTyped DEF Revokes, Typed, evidence, others

LEMMA PublishesTyped ==
  ASSUME Typed, NEW from, NEW to \in Step, NEW fs \in SUBSET Evidence, Publishes(from, to, fs)
  PROVE  Typed'
  BY GotoTyped, ThrowsTyped DEF Publishes, Typed, provider, others

LEMMA CallsTyped ==
  ASSUME Typed, NEW from, NEW to \in Step, NEW o, NEW affirmative, NEW after_call,
         o.decision = affirmative => after_call \in Runner,
         Calls(from, to, o, affirmative, after_call)
  PROVE  Typed'
<1>1. [after_call EXCEPT !.pc = to] \in Runner \/ o.decision # affirmative
  BY DEF Runner
<1> QED  BY <1>1, ThrowsTyped DEF Calls, Typed, provider, evidence, others

LEMMA CallsInVainTyped ==
  ASSUME Typed, NEW from, NEW to \in Step, NEW o, NEW affirmative, CallsInVain(from, to, o, affirmative)
  PROVE  Typed'
  BY GotoTyped, ThrowsTyped DEF CallsInVain, Typed, provider, evidence, others

LEMMA AttemptsTyped ==
  ASSUME Typed, NEW from, NEW to \in Step, NEW o, NEW affirmative, Attempts(from, to, o, affirmative)
  PROVE  Typed'
  BY GotoTyped, ThrowsTyped DEF Attempts, Typed, provider, evidence, others

LEMMA CreatesTyped ==
  ASSUME Typed, NEW from, NEW to \in Step, Creates(from, to)
  PROVE  Typed'
<1>1. /\ [run EXCEPT !.pc = to, !.created = TRUE] \in Runner
      /\ [run EXCEPT !.pc = "catch"] \in Runner
  BY LastSteps DEF Typed, Runner
<1> QED  BY <1>1, ThrowsTyped DEF Creates, Typed, provider, evidence, others

LEMMA ReservesTyped ==
  ASSUME Typed, NEW from, NEW to \in Step, Reserves(from, to)
  PROVE  Typed'
  BY CallsTyped DEF Reserves, Typed

LEMMA SpawnsTyped ==
  ASSUME Typed, NEW from, NEW to \in Step, NEW state \in ChildState, Spawns(from, to, state)
  PROVE  Typed'
<1>1. ClosedGate \in Gate
  BY DEF ClosedGate, Gate
<1> QED  BY <1>1, GotoTyped DEF Spawns, Typed, provider, evidence

LEMMA PassesTyped ==
  ASSUME Typed, NEW from, Passes(from)
  PROVE  Typed'
  BY LastSteps DEF Passes, Typed, Runner, provider, evidence, others

LEMMA CreatesKeyTyped ==
  ASSUME Typed, NEW from, NEW to \in Step, CreatesKey(from, to)
  PROVE  Typed'
<1>1. /\ [run EXCEPT !.pc = to, !.target = TRUE] \in Runner
      /\ [run EXCEPT !.pc = "catch", !.target = TRUE] \in Runner
  BY LastSteps DEF Typed, Runner
<1> QED  BY <1>1, ThrowsTyped DEF CreatesKey, Typed, evidence, others

LEMMA TriggersTyped ==
  ASSUME Typed, NEW from, NEW to \in Step, Triggers(from, to)
  PROVE  Typed'
<1>1. AtMost2(branch.issued + 1) \in 0..2
  BY DEF Typed, AtMost2
<1> QED  BY <1>1, GotoTyped, ThrowsTyped DEF Triggers, Typed, evidence, others

LEMMA DeliversTyped ==
  ASSUME Typed, NEW reserves, Delivers(reserves)
  PROVE  Typed'
<1>1. CASE \E d \in Delivery :
              /\ inbox' = [inbox EXCEPT !.latest = d, !.handling = @ \cup {d}]
              /\ receipt' = IF reserves /\ receipt[d] = "none" THEN [receipt EXCEPT ![d] = "RESERVED"] ELSE receipt
  <2>1. PICK d \in Delivery :
          /\ inbox' = [inbox EXCEPT !.latest = d, !.handling = @ \cup {d}]
          /\ receipt' = IF reserves /\ receipt[d] = "none" THEN [receipt EXCEPT ![d] = "RESERVED"] ELSE receipt
    BY <1>1
  <2>2. inbox' \in Inbox
    BY <2>1 DEF Typed, Inbox
  <2>3. receipt' \in [Delivery -> {"none", "RESERVED", "ACCEPTED", "REJECTED"}]
    BY <2>1 DEF Typed
  <2> QED  BY <2>2, <2>3 DEF Delivers, Typed, provider, evidence
<1>2. CASE \E d \in inbox.handling :
             inbox' = [inbox EXCEPT !.capture = d, !.handling = @ \ {d}] /\ UNCHANGED receipt
  <2>1. inbox' \in Inbox
    BY <1>2 DEF Typed, Inbox
  <2> QED  BY <1>2, <2>1 DEF Delivers, Typed, provider, evidence
<1> QED  BY <1>1, <1>2 DEF Delivers

LEMMA RetainsRawTyped ==
  ASSUME Typed, NEW from, NEW to \in Step, RetainsRaw(from, to)
  PROVE  Typed' /\ (run'.pc # "catch" => run'.raw \in Delivery)
<1>1. EmptyInbox \in Inbox
  BY DEF EmptyInbox, Inbox
<1>2. inbox.latest \in Delivery \cup {None}
  BY DEF Typed, Inbox
<1> QED  BY <1>1, <1>2, ThrowsTyped DEF RetainsRaw, Typed, Runner, Throws, Goto, provider, evidence

LEMMA ProcessesTyped ==
  ASSUME Typed, NEW from, NEW to \in Step, NEW selected, run.raw \in Delivery, Processes(from, to, selected)
  PROVE  Typed'
<1>1. Processed(run.raw) \in {"none", "RESERVED", "ACCEPTED", "REJECTED"}
  BY DEF Typed, Processed
<1> QED  BY <1>1, GotoTyped, ThrowsTyped DEF Processes, Typed, provider, evidence, others

LEMMA RemovesTyped ==
  ASSUME Typed, NEW by \in Purpose, Removes(by)
  PROVE  key' \in {"absent", "present", "gone"} /\ tokens' \subseteq Purpose \cup Contender
  BY DEF Removes, Typed

----------------------------------------------------------------------------
(* ... and of the contenders.                                               *)

LEMMA NoResultTyped == NoResult \in BrokerResult
  BY DEF NoResult, BrokerResult, OutcomeOfClaim

LEMMA OffTyped == Off \in ChildState
  BY NoResultTyped DEF Off, ChildState

LEMMA BecomesTyped ==
  ASSUME Typed, NEW c \in Contender, NEW s \in ChildState, Becomes(c, s)
  PROVE  child' \in [Contender -> ChildState] /\ child'[c] = s
  BY DEF Becomes, Typed

LEMMA ChildTyped ==
  ASSUME Typed, NEW c \in Contender
  PROVE  /\ child[c] \in ChildState /\ child[c].ev \in BrokerResult
         /\ child[c].claim \in StateId \cup {None} /\ child[c].start \in StateId \cup {None}
         /\ child[c].file \in BOOLEAN
  BY DEF Typed, ChildState

LEMMA EndsTyped ==
  ASSUME Typed, NEW c \in Contender, NEW ev \in BrokerResult, Ends(c, ev)
  PROVE  child' \in [Contender -> ChildState] /\ child'[c].pc = "ended"
<1> DEFINE s == [Off EXCEPT !.pc = "ended", !.file = TRUE, !.ev = ev]
<1>1. s \in ChildState /\ s.pc = "ended"
  BY OffTyped DEF ChildState
<1>2. Becomes(c, s)
  BY DEF Ends
<1> HIDE DEF s
<1> QED  BY <1>1, <1>2, BecomesTyped

LEMMA ChildThrowsTyped ==
  ASSUME Typed, NEW c \in Contender, ChildThrows(c)
  PROVE  child' \in [Contender -> ChildState] /\ child'[c].pc = "ended"
<1> DEFINE s == [Off EXCEPT !.pc = "ended", !.code = 1, !.file = TRUE]
<1>0. 1 \in 0..1
  OBVIOUS
<1>1. s \in ChildState /\ s.pc = "ended"
  BY <1>0, OffTyped DEF ChildState
<1>2. Becomes(c, s)
  BY DEF ChildThrows
<1> HIDE DEF s
<1> QED  BY <1>1, <1>2, BecomesTyped

LEMMA ChildGotoTyped ==
  ASSUME Typed, NEW c \in Contender, NEW pc \in Waiting, ChildGoto(c, pc)
  PROVE  /\ child' \in [Contender -> ChildState]
         /\ child'[c] = [child[c] EXCEPT !.pc = pc] /\ child'[c].pc = pc
         /\ child'[c].start = child[c].start
<1>1. [child[c] EXCEPT !.pc = pc] \in ChildState
  BY ChildTyped DEF ChildState
<1>2. [child[c] EXCEPT !.pc = pc].pc = pc /\ [child[c] EXCEPT !.pc = pc].start = child[c].start
  BY ChildTyped DEF ChildState
<1> QED  BY <1>1, <1>2, BecomesTyped DEF ChildGoto

LEMMA DiesTyped ==
  ASSUME Typed, NEW c \in Contender, die(c)
  PROVE  Typed' /\ child'[c].pc = "ended"
<1> DEFINE s == [Off EXCEPT !.pc = "ended", !.code = 1, !.file = child[c].file]
<1>0. 1 \in 0..1
  OBVIOUS
<1>1. s \in ChildState /\ s.pc = "ended"
  BY <1>0, OffTyped, ChildTyped DEF ChildState
<1>2. Becomes(c, s)
  BY DEF die
<1>3. child' \in [Contender -> ChildState] /\ child'[c].pc = "ended"
  <2> HIDE DEF s
  <2> QED  BY <1>1, <1>2, BecomesTyped
<1> QED  BY <1>3 DEF die, Typed, waiting_runner, evidence

LEMMA WaitingSteps ==
  {"connect", "barrier", "claim", "proposals", "confirm", "begin", "confirm-start", "mint", "precheck",
   "hold", "delete", "after", "finalize-unknown", "settle", "finally"} = Waiting
  BY DEF Waiting

\* A contender step leaves the branch, the receipts and the evidence alone.
LEMMA ContenderTyped ==
  ASSUME Typed, NEW c \in Contender,
         child' \in [Contender -> ChildState], gate' \in Gate,
         key' \in {key, "gone"}, tokens' \in {tokens, tokens \cup {c}, tokens \ {c}},
         UNCHANGED waiting_runner
  PROVE  Typed'
  BY DEF Typed, waiting_runner, evidence

LEMMA GateTyped ==
  ASSUME Typed, NEW c \in Contender
  PROVE  /\ gate \in Gate
         /\ [gate EXCEPT !.ready = @ \cup {c}] \in Gate
         /\ [gate EXCEPT !.effect = child[c].start] \in Gate
  BY ChildTyped DEF Typed, Gate

LEMMA ConnectTyped ==
  ASSUME Typed, NEW c \in Contender, connect(c)
  PROVE  Typed' /\ child'[c].pc \in {"barrier", "ended"}
  BY WaitingSteps, GateTyped, ChildGotoTyped, ChildThrowsTyped, ContenderTyped DEF connect

LEMMA BarrierTyped ==
  ASSUME Typed, NEW c \in Contender, await_barrier(c)
  PROVE  Typed' /\ child'[c].pc \in {"claim", "ended"}
<1>1. [child[c].ev EXCEPT !.claim_outcome = "DUPLICATE_NONCE_ABORT"] \in BrokerResult
  BY ChildTyped DEF BrokerResult, OutcomeOfClaim
<1> QED  BY <1>1, WaitingSteps, GateTyped, ChildGotoTyped, ChildThrowsTyped, EndsTyped, ContenderTyped
         DEF await_barrier

LEMMA RefusedTyped ==
  ASSUME NEW ev \in BrokerResult, NEW o, GoodRow(o.authority), o.decision \in {"Lost", "Denied"}
  PROVE  Refused(ev, o) \in BrokerResult
<1>1. o.authority.status \in Status
  BY DEF GoodRow, IncidentAuthority
<1> QED  BY <1>1 DEF Refused, BrokerResult, OutcomeOfClaim

LEMMA ClaimTyped ==
  ASSUME Typed, GoodRow(row), NEW c \in Contender, claim_effect(c)
  PROVE  Typed' /\ child'[c].pc \in {"proposals", "ended"}
<1>1. PICK now \in U64 :
        LET o == claim_with_nonce(row, Broker, now, 0, c)
        IN  \/ o.decision = "Proposed" /\ Proposed(c, o)
            \/ o.decision # "Proposed" /\ Ends(c, Refused(child[c].ev, o))
            \/ Ends(c, child[c].ev)
  BY DEF claim_effect
<1> DEFINE o == claim_with_nonce(row, Broker, now, 0, c)
<1>2. /\ o.decision \in {"Proposed", "Lost", "Denied"} /\ GoodRow(o.authority)
      /\ o.decision = "Proposed" => o.authority.effect_claim_id \in StateId
  BY ClaimIdles
<1>3. child' \in [Contender -> ChildState] /\ child'[c].pc \in {"proposals", "ended"}
  <2>1. CASE o.decision = "Proposed" /\ Proposed(c, o)
    <3> DEFINE e == [child[c].ev EXCEPT !.claim_outcome = "CLAIM_PROPOSED", !.claim = "Proposed",
                                        !.claim_state = "EFFECT_CLAIMED", !.claim_proposal = TRUE]
               s == [child[c] EXCEPT !.pc = "proposals", !.file = TRUE,
                                     !.claim = o.authority.effect_claim_id, !.ev = e]
    <3> HIDE DEF o
    <3>1. e \in BrokerResult
      BY ChildTyped DEF BrokerResult, OutcomeOfClaim, Status
    <3>2. Becomes(c, s)
      BY <2>1, ChildTyped DEF Proposed, ChildState, BrokerResult
    <3> HIDE DEF e
    <3>3. s \in ChildState /\ s.pc = "proposals"
      BY <2>1, <1>2, <3>1, WaitingSteps, ChildTyped DEF ChildState
    <3> HIDE DEF s
    <3> QED  BY <3>2, <3>3, BecomesTyped
  <2>2. CASE o.decision # "Proposed" /\ Ends(c, Refused(child[c].ev, o))
    <3> HIDE DEF o
    <3> QED  BY <1>2, <2>2, RefusedTyped, ChildTyped, EndsTyped
  <2>3. CASE Ends(c, child[c].ev)
    BY <2>3, ChildTyped, EndsTyped
  <2> QED  BY <1>1, <2>1, <2>2, <2>3
<1> QED  BY <1>3, GateTyped, ContenderTyped DEF claim_effect

LEMMA ProposalsTyped ==
  ASSUME Typed, NEW c \in Contender, await_proposals(c)
  PROVE  Typed' /\ child'[c].pc \in {"confirm", "ended"}
  BY WaitingSteps, GateTyped, ChildGotoTyped, ChildThrowsTyped, ContenderTyped DEF await_proposals

LEMMA ConfirmTyped ==
  ASSUME Typed, NEW c \in Contender, confirm_claim_call(c)
  PROVE  Typed' /\ child'[c].pc \in {"begin", "ended"}
<1>1. /\ [child[c].ev EXCEPT !.ownership_confirmation = "NOT_OWNER", !.claim_outcome = "CLAIM_LOST"] \in BrokerResult
      /\ [child[c].ev EXCEPT !.ownership_confirmation = "CONFIRMED", !.claim_outcome = "CLAIM_WON"] \in BrokerResult
  BY ChildTyped DEF BrokerResult, OutcomeOfClaim
<1>2. [child[c] EXCEPT !.pc = "begin", !.ev = [child[c].ev EXCEPT !.ownership_confirmation = "CONFIRMED",
                                                                  !.claim_outcome = "CLAIM_WON"]] \in ChildState
  BY <1>1, WaitingSteps, ChildTyped DEF ChildState
<1> DEFINE s == [child[c] EXCEPT !.pc = "begin", !.ev.ownership_confirmation = "CONFIRMED",
                                 !.ev.claim_outcome = "CLAIM_WON"]
<1>3. s \in ChildState /\ s.pc = "begin"
  BY <1>2, ChildTyped DEF ChildState, BrokerResult
<1> HIDE DEF s
<1> QED  BY <1>1, <1>3, GateTyped, BecomesTyped, ChildTyped, EndsTyped, ContenderTyped
         DEF confirm_claim_call, s

LEMMA BeginTyped ==
  ASSUME Typed, GoodRow(row), NEW c \in Contender, begin_effect(c)
  PROVE  /\ Typed'
         /\ \/ child'[c].pc = "ended"
            \/ child'[c].pc = "confirm-start" /\ child'[c].start \in StateId /\ child'[c].start.nonce = c
         /\ row' \in {row} \cup {b \in IncidentAuthority : Starts(row, b, c)}
<1>1. PICK now \in U64 :
        LET o == begin_effect_with_nonce(row, Broker, child[c].claim, c, now)
        IN  /\ row' \in {row, Stored(o)}
            /\ \/ o.decision = "Won" /\ Becomes(c, [child[c] EXCEPT !.pc = "confirm-start",
                                                                    !.start = o.authority.effect_start_id])
               \/ Ends(c, child[c].ev)
  BY DEF begin_effect
<1> DEFINE o == begin_effect_with_nonce(row, Broker, child[c].claim, c, now)
<1>2. /\ Starts(row, Stored(o), c)
      /\ o.decision = "Won" => /\ o.authority.effect_start_id \in StateId
                               /\ o.authority.effect_start_id.nonce = c
  BY BeginStarts
<1> HIDE DEF o
<1>3. CASE o.decision = "Won" /\ Becomes(c, [child[c] EXCEPT !.pc = "confirm-start",
                                                             !.start = o.authority.effect_start_id])
  <2> DEFINE s == [child[c] EXCEPT !.pc = "confirm-start", !.start = o.authority.effect_start_id]
  <2>1. /\ s \in ChildState /\ s.pc = "confirm-start"
        /\ s.start = o.authority.effect_start_id
    BY <1>2, <1>3, WaitingSteps, ChildTyped DEF ChildState
  <2>2. Becomes(c, s)
    BY <1>3
  <2> HIDE DEF s
  <2>3. child' \in [Contender -> ChildState] /\ child'[c] = s
    BY <2>1, <2>2, BecomesTyped
  <2> QED  BY <1>1, <1>2, <1>3, <2>1, <2>3, GateTyped, ContenderTyped DEF begin_effect, o, Starts, GoodRow
<1>4. CASE Ends(c, child[c].ev)
  BY <1>1, <1>2, <1>4, GateTyped, ChildTyped, EndsTyped, ContenderTyped DEF begin_effect, o, Starts, GoodRow
<1> QED  BY <1>1, <1>3, <1>4 DEF o

LEMMA ConfirmStartTyped ==
  ASSUME Typed, NEW c \in Contender, confirm_effect_start_call(c)
  PROVE  /\ Typed'
         /\ \/ child'[c].pc = "ended"
            \/ child'[c].pc = "mint" /\ child'[c].start = child[c].start
  BY WaitingSteps, GateTyped, ChildTyped, ChildGotoTyped, EndsTyped, ContenderTyped
  DEF confirm_effect_start_call

LEMMA MintTyped ==
  ASSUME Typed, NEW c \in Contender, mint(c)
  PROVE  /\ Typed'
         /\ \/ child'[c].pc = "ended"
            \/ child'[c].pc = "precheck" /\ child'[c].start = child[c].start /\ tokens' = tokens \cup {c}
<1> DEFINE s == [child[c] EXCEPT !.pc = "precheck", !.ev.token_minted = TRUE]
<1>1. [child[c].ev EXCEPT !.token_minted = TRUE] \in BrokerResult
  BY ChildTyped DEF BrokerResult
<1>2. s \in ChildState /\ s.pc = "precheck" /\ s.start = child[c].start
  BY <1>1, WaitingSteps, ChildTyped DEF ChildState
<1>3. CASE tokens' = tokens \cup {c} /\ Becomes(c, s)
  <2> HIDE DEF s
  <2>1. child' \in [Contender -> ChildState] /\ child'[c] = s
    BY <1>2, <1>3, BecomesTyped
  <2> QED  BY <1>2, <1>3, <2>1, GateTyped, ContenderTyped DEF mint
<1>4. CASE tokens' \in {tokens, tokens \cup {c}} /\ Ends(c, child[c].ev)
  BY <1>4, GateTyped, ChildTyped, EndsTyped, ContenderTyped DEF mint
<1> QED  BY <1>3, <1>4 DEF mint

LEMMA PrecheckTyped ==
  ASSUME Typed, NEW c \in Contender, precheck(c)
  PROVE  /\ Typed'
         /\ child'[c].start = child[c].start
         /\ \/ child'[c].pc = "hold" /\ key = "present" /\ gate' = [gate EXCEPT !.effect = child[c].start]
            \/ child'[c].pc = "finally" /\ gate' = gate
  BY WaitingSteps, GateTyped, ChildTyped, ChildGotoTyped, ContenderTyped DEF precheck

LEMMA HoldTyped ==
  ASSUME Typed, NEW c \in Contender, hold(c)
  PROVE  /\ Typed'
         /\ child'[c].start = child[c].start
         /\ \/ child'[c].pc = "delete" /\ gate.release
            \/ child'[c].pc = "finally"
  BY WaitingSteps, GateTyped, ChildTyped, ChildGotoTyped, ContenderTyped DEF hold, ReleasedByOperator

LEMMA DeleteTyped ==
  ASSUME Typed, NEW c \in Contender, delete_key(c)
  PROVE  Typed' /\ child'[c].pc = "after" /\ child'[c].start = child[c].start
<1>1. ASSUME NEW answer \in {"204", "error", "unknown"},
             Becomes(c, [child[c] EXCEPT !.pc = "after", !.ev.delete = answer])
      PROVE  child' \in [Contender -> ChildState] /\ child'[c].pc = "after" /\ child'[c].start = child[c].start
  <2> DEFINE s == [child[c] EXCEPT !.pc = "after", !.ev.delete = answer]
  <2>1. [child[c].ev EXCEPT !.delete = answer] \in BrokerResult
    BY ChildTyped DEF BrokerResult
  <2>2. s \in ChildState /\ s.pc = "after" /\ s.start = child[c].start
    BY <2>1, WaitingSteps, ChildTyped DEF ChildState
  <2>3. Becomes(c, s)
    BY <1>1
  <2> HIDE DEF s
  <2> QED  BY <2>2, <2>3, BecomesTyped
<1> QED  BY <1>1, GateTyped, ContenderTyped DEF delete_key

LEMMA AfterTyped ==
  ASSUME Typed, NEW c \in Contender, after(c)
  PROVE  /\ Typed'
         /\ \/ child'[c].pc = "ended"
            \/ /\ child'[c].pc \in {"finalize-unknown", "settle"} /\ child'[c].start = child[c].start
               /\ tokens' = tokens \ {c}
<1>1. PICK seen \in BOOLEAN :
        LET s == [child[c] EXCEPT !.ev.target_absent = seen]
        IN  \/ /\ tokens' = tokens \ {c}
               /\ \/ Becomes(c, [s EXCEPT !.pc = "finalize-unknown"])
                  \/ Becomes(c, [s EXCEPT !.pc = "settle"])
                  \/ Ends(c, s.ev)
            \/ tokens' \in {tokens, tokens \ {c}} /\ Ends(c, s.ev)
  BY DEF after
<1> DEFINE s == [child[c] EXCEPT !.ev.target_absent = seen]
<1>2. s \in ChildState /\ s.start = child[c].start /\ s.ev \in BrokerResult
  <2>1. [child[c].ev EXCEPT !.target_absent = seen] \in BrokerResult
    BY ChildTyped DEF BrokerResult
  <2> QED  BY <2>1, ChildTyped DEF ChildState
<1> HIDE DEF s
<1>3. ASSUME NEW pc \in {"finalize-unknown", "settle"}, Becomes(c, [s EXCEPT !.pc = pc])
      PROVE  child' \in [Contender -> ChildState] /\ child'[c].pc = pc /\ child'[c].start = child[c].start
  <2>1. [s EXCEPT !.pc = pc] \in ChildState /\ [s EXCEPT !.pc = pc].pc = pc /\ [s EXCEPT !.pc = pc].start = s.start
    BY <1>2, WaitingSteps DEF ChildState
  <2> QED  BY <1>2, <1>3, <2>1, BecomesTyped
<1>4. UNCHANGED <<waiting_runner, gate, key, deletes, row>>
  BY DEF after
<1>5. CASE tokens' = tokens \ {c} /\ (\/ Becomes(c, [s EXCEPT !.pc = "finalize-unknown"])
                                      \/ Becomes(c, [s EXCEPT !.pc = "settle"]))
  BY <1>3, <1>4, <1>5, GateTyped, ContenderTyped
<1>6. CASE tokens' \in {tokens, tokens \ {c}} /\ Ends(c, s.ev)
  BY <1>2, <1>4, <1>6, GateTyped, EndsTyped, ContenderTyped
<1> QED  BY <1>1, <1>5, <1>6 DEF s

LEMMA FinalizeUnknownTyped ==
  ASSUME Typed, GoodRow(row), NEW c \in Contender, finalize_unknown(c)
  PROVE  /\ Typed'
         /\ \/ child'[c].pc = "ended"
            \/ child'[c].pc = "settle" /\ child'[c].start = child[c].start
         /\ Settles(row, row', child[c].start)
         /\ row'.status = "CLOSED" => row.status = "CLOSED"
<1>1. Typed' /\ \/ child'[c].pc = "ended"
                \/ child'[c].pc = "settle" /\ child'[c].start = child[c].start
  BY WaitingSteps, GateTyped, ChildTyped, ChildGotoTyped, EndsTyped, ContenderTyped DEF finalize_unknown
<1> DEFINE o == finalize_with_start(row, Broker, child[c].claim, child[c].start, "ATTEMPTED_OUTCOME_UNKNOWN")
<1>2. /\ Settles(row, Stored(o), child[c].start)
      /\ row.status # "CLOSED" => Stored(o).status # "CLOSED"
  BY SettleSettles
<1>3. row' \in {row, Stored(o)}
  BY DEF finalize_unknown
<1> QED  BY <1>1, <1>2, <1>3 DEF Settles

LEMMA SettleTyped ==
  ASSUME Typed, GoodRow(row), NEW c \in Contender, settle(c)
  PROVE  /\ Typed' /\ child'[c].pc = "ended"
         /\ Settles(row, row', child[c].start)
         /\ row' # row => key = "gone"
<1>1. [child[c].ev EXCEPT !.verified = TRUE] \in BrokerResult
  BY ChildTyped DEF BrokerResult
<1>2. child' \in [Contender -> ChildState] /\ child'[c].pc = "ended"
  BY <1>1, ChildTyped, EndsTyped DEF settle
<1>3. Typed'
  BY <1>2, GateTyped, ContenderTyped DEF settle
<1> DEFINE f == finalize_with_start(row, Broker, child[c].claim, child[c].start, "VERIFIED_ABSENT")
           r == reconcile_with_start(row, Broker, child[c].claim, child[c].start, "VERIFIED_ABSENT")
<1>4. Settles(row, Stored(f), child[c].start) /\ Settles(row, Stored(r), child[c].start)
  BY SettleSettles
<1>5. row' = row \/ (key = "gone" /\ row' \in {Stored(f), Stored(r)})
  BY DEF settle
<1> QED  BY <1>2, <1>3, <1>4, <1>5 DEF Settles

LEMMA FinallyTyped ==
  ASSUME Typed, NEW c \in Contender, finally(c)
  PROVE  Typed' /\ child'[c].pc = "ended"
  BY GateTyped, ChildTyped, EndsTyped, ContenderTyped DEF finally

----------------------------------------------------------------------------
(* The row under the calls of a runner.                                     *)

\* A row is made, or moves without a start being made or settled.
RowMoves ==
  \/ row' = row
  \/ row # None /\ Idles(row, row')
  \/ run.pc = "create" /\ GoodRow(row') /\ row'.status = "ACTIVE"

LEMMA CreatesRow ==
  ASSUME NEW to, Creates("create", to)
  PROVE  RowMoves /\ (run' = [run EXCEPT !.pc = "catch"] \/ row' # None)
<1>1. PICK now \in U64, k \in KeyId, i \in Incident, ttl \in MinTtl..MaxTtl :
        LET a == build_incident_authority(i, Agent, Broker, k, ttl, now)
        IN  At("create") /\ (\/ ~CreateDenied(Tenant, Agent, Broker, k, ttl, now) /\ row' = a
                             \/ Throws /\ UNCHANGED row)
  BY DEF Creates
<1>2. ttl \in Nat
  BY AssumptionsHold DEF Assumptions
<1>3. build_incident_authority(i, Agent, Broker, k, ttl, now).status = "ACTIVE"
  BY DEF build_incident_authority
<1>4. ~CreateDenied(Tenant, Agent, Broker, k, ttl, now) =>
        GoodRow(build_incident_authority(i, Agent, Broker, k, ttl, now))
  BY <1>2, CreateGood
<1> QED  BY <1>1, <1>3, <1>4, StartShape DEF RowMoves, At, Throws, Goto

LEMMA ReservesRow ==
  ASSUME GoodRow(row), NEW from, NEW to, Reserves(from, to)
  PROVE  Idles(row, row')
<1>1. PICK now \in U64 : row' \in {row, Stored(reserve(row, Agent, now))}
  BY DEF Reserves, Calls
<1>2. Idles(row, Stored(reserve(row, Agent, now)))
  BY ReserveIdles
<1> QED  BY <1>1, <1>2 DEF Idles

\* In R3 only create, the two reserves and the replayed claim touch the row.
LEMMA R3Row ==
  ASSUME row # None => GoodRow(row), run.pc \in Opened => row # None, R3
  PROVE  RowMoves
<1>1. CASE r3_create
  BY <1>1, CreatesRow DEF r3_create
<1>2. CASE r3_reserve
  <2>1. row # None
    BY <1>2 DEF r3_reserve, Reserves, Calls, At, Opened, Incipient
  <2> QED  BY <1>2, <2>1, ReservesRow DEF r3_reserve, RowMoves
<1>3. CASE r3_reserve_again
  <2>1. row # None
    BY <1>3 DEF r3_reserve_again, At, Opened, Closing, Retired
  <2>2. PICK now \in U64 : row' \in {row, Stored(reserve(row, Agent, now))}
    BY <1>3 DEF r3_reserve_again, CallsInVain
  <2>3. Idles(row, Stored(reserve(row, Agent, now)))
    BY <2>1, ReserveIdles
  <2> QED  BY <2>1, <2>2, <2>3 DEF Idles, RowMoves
<1>4. CASE r3_closed_replay
  <2>1. row # None
    BY <1>4 DEF r3_closed_replay, At, Opened, Closing, Retired
  <2>2. PICK now \in U64, c \in Contender :
          row' \in {row, Stored(claim_with_nonce(row, Broker, now, row.effect_claim_version, c))}
    BY <1>4 DEF r3_closed_replay
  <2>3. Idles(row, Stored(claim_with_nonce(row, Broker, now, row.effect_claim_version, c)))
    BY <2>1, ClaimIdles
  <2> QED  BY <2>1, <2>2, <2>3 DEF Idles, RowMoves
<1>5. CASE \/ r3_preflight \/ r3_ingressReachability \/ r3_appReadiness \/ r3_t3nReadiness
           \/ r3_mintInstallationToken \/ r3_revokeAndRefuse \/ r3_verifyBaseline \/ r3_freezeLiveExecutionCheckpoint
           \/ r3_createTarget \/ r3_commitAndPush \/ r3_remotePolicyReadback \/ r3_verifyTarget \/ r3_triggerSecret
           \/ r3_awaitDelivery \/ r3_deliveryHistory \/ r3_raw \/ r3_readContentDigest \/ r3_process
  BY <1>5 DEF r3_preflight, r3_ingressReachability, r3_appReadiness, r3_t3nReadiness,
     r3_mintInstallationToken, r3_revokeAndRefuse, r3_verifyBaseline, r3_freezeLiveExecutionCheckpoint,
     r3_createTarget, r3_commitAndPush, r3_remotePolicyReadback, r3_verifyTarget, r3_triggerSecret,
     r3_awaitDelivery, r3_deliveryHistory, r3_raw, r3_readContentDigest, r3_process,
     Checks, Mints, Revokes, CreatesKey, Publishes, Triggers, RetainsRaw, Processes, RowMoves
<1>6. CASE \/ r3_readbacks \/ r3_spawn \/ r3_ready \/ r3_aborting \/ r3_results \/ r3_effect_ready \/ r3_adjudicate
           \/ r3_replay \/ r3_terminal \/ r3_final \/ r3_passed \/ r3_cleanupFreshTarget
  BY <1>6 DEF r3_readbacks, r3_spawn, r3_ready, r3_aborting, r3_results, r3_effect_ready, r3_adjudicate,
     r3_replay, r3_terminal, r3_final, r3_passed, r3_cleanupFreshTarget,
     Checks, Spawns, Publishes, Passes, RowMoves
<1> QED  BY <1>1, <1>2, <1>3, <1>4, <1>5, <1>6 DEF R3

----------------------------------------------------------------------------
(* The way of a causal run.                                                 *)

\* What is left of the runner's memory by a step that goes on.
Remembers(r) ==
  r.created = run.created /\ r.target = run.target /\ r.held = run.held /\ r.raw = run.raw

LEMMA CreatesKeyRun ==
  ASSUME run \in Runner, NEW from, NEW to, CreatesKey(from, to)
  PROVE  /\ run'.pc \in {to, "catch"}
         /\ run'.created = run.created /\ run'.held = run.held /\ run'.raw = run.raw
  BY DEF CreatesKey, Throws, Goto, Runner

LEMMA RetainsRawRun ==
  ASSUME Typed, NEW from, NEW to \in Step, RetainsRaw(from, to)
  PROVE  /\ run'.pc \in {to, "catch"} /\ (run'.pc # "catch" => run'.raw \in Delivery)
         /\ run'.created = run.created /\ run'.held = run.held /\ run'.target = run.target
<1>1. run'.pc # "catch" => run'.raw \in Delivery
  BY RetainsRawTyped
<1>2. run \in Runner
  BY DEF Typed
<1> QED  BY <1>1, <1>2 DEF RetainsRaw, Throws, Goto, Runner

LEMMA CreatesRun ==
  ASSUME run \in Runner, NEW to, Creates("create", to)
  PROVE  /\ \/ run'.pc = to /\ run'.created /\ row' # None
            \/ run'.pc = "catch" /\ run'.created = run.created
         /\ run'.held = run.held /\ run'.target = run.target /\ run'.raw = run.raw
<1>1. run' = [run EXCEPT !.pc = "catch"] \/ (run' = [run EXCEPT !.pc = to, !.created = TRUE] /\ row' # None)
  BY CreatesRow DEF Creates, Throws, Goto
<1> QED  BY <1>1 DEF Runner

LEMMA PassesRun ==
  ASSUME run \in Runner, NEW from, Passes(from)
  PROVE  run'.pc = "ended" /\ Remembers(run')
  BY DEF Passes, Runner, Remembers

LEMMA EffectReadyRun ==
  ASSUME run \in Runner, r3_effect_ready
  PROVE  run'.pc \in {"exits", "catch"} /\ Remembers(run')
  BY DEF r3_effect_ready, Throws, Goto, Runner, Remembers

LEMMA AdjudicateRun ==
  ASSUME run \in Runner, r3_adjudicate
  PROVE  run'.pc \in {"retire", "catch"} /\ Remembers(run')
  BY DEF r3_adjudicate, Throws, Goto, Runner, Remembers

\* R3: every step is taken where CausalOK says, and leaves what it says.
LEMMA R3Way ==
  ASSUME Typed, script = "R3", CausalOK, R3,
         receipt["other"] # "ACCEPTED", RowIs("CLOSED") => deletes = 1,
         row # None => row' # None, RowMoves
  PROVE  CausalOK'
<1> USE DEF CausalOK, Published, TokensHeld, Preparing, Announced, Marked, Triggered, Opening, Incipient,
            Racing, Retired, Closing, Unopened, Opened, Failing, Done, At, Goto, Throws, provider,
            evidence, others
<1>0. run \in Runner /\ pushed \subseteq files /\ tokens \subseteq Purpose \cup Contender
  BY DEF Typed
<1> USE DEF Runner
<1>1. CASE r3_preflight
  BY <1>0, <1>1 DEF r3_preflight, NothingPublished, Fresh
<1>2. CASE r3_ingressReachability \/ r3_appReadiness \/ r3_t3nReadiness \/ r3_freezeLiveExecutionCheckpoint
  BY <1>0, <1>2 DEF Checks, r3_ingressReachability, r3_appReadiness, r3_t3nReadiness, r3_freezeLiveExecutionCheckpoint
<1>3. CASE r3_mintInstallationToken
  BY <1>0, <1>3 DEF Mints, r3_mintInstallationToken
<1>4. CASE r3_revokeAndRefuse
  BY <1>0, <1>4 DEF Revokes, r3_revokeAndRefuse
<1>5. CASE r3_verifyBaseline \/ r3_verifyTarget \/ r3_readContentDigest
  BY <1>0, <1>5 DEF Revokes, r3_verifyBaseline, r3_verifyTarget, r3_readContentDigest
<1>6. CASE r3_createTarget
  <2>1. /\ run'.pc \in {"target-refused", "catch"}
        /\ run'.created = run.created /\ run'.held = run.held /\ run'.raw = run.raw
    BY <1>0, <1>6, CreatesKeyRun DEF r3_createTarget
  <2> QED  BY <1>0, <1>6, <2>1 DEF CreatesKey, r3_createTarget
<1>7. CASE r3_commitAndPush
  BY <1>0, <1>7 DEF Publishes, r3_commitAndPush
<1>8. CASE r3_remotePolicyReadback \/ r3_awaitDelivery \/ r3_deliveryHistory
  BY <1>0, <1>8 DEF Checks, r3_remotePolicyReadback, r3_awaitDelivery, r3_deliveryHistory
<1>9. CASE r3_triggerSecret
  <2>1. branch.issued = 0 => AtMost2(branch.issued + 1) = 1
    BY DEF AtMost2
  <2> QED  BY <1>0, <1>9, <2>1 DEF Triggers, r3_triggerSecret
<1>10. CASE r3_raw
  <2>1. /\ run'.pc \in {"source-mint", "catch"} /\ (run'.pc # "catch" => run'.raw \in Delivery)
        /\ run'.created = run.created /\ run'.held = run.held /\ run'.target = run.target
    BY <1>10, RetainsRawRun, RawStep DEF r3_raw
  <2> QED  BY <1>0, <1>10, <2>1 DEF RetainsRaw, r3_raw
<1>11. CASE r3_process
  <2>1. run.raw \in Delivery /\ run.pc = "process"
    BY <1>11 DEF r3_process, Processes
  <2>2. run'.pc = "create" => receipt'["trigger"] = "ACCEPTED"
    BY <1>0, <1>11, <2>1 DEF r3_process, Processes, Processed, Typed, Delivery
  <2> QED  BY <1>0, <1>11, <2>1, <2>2 DEF Processes, r3_process
<1>12. CASE r3_create
  <2>1. /\ \/ run'.pc = "active" /\ run'.created /\ row' # None
           \/ run'.pc = "catch" /\ run'.created = run.created
        /\ run'.held = run.held /\ run'.target = run.target /\ run'.raw = run.raw
    BY <1>0, <1>12, CreatesRun DEF r3_create
  <2> QED  BY <1>0, <1>12, <2>1 DEF Creates, r3_create
<1>13. CASE r3_readbacks \/ r3_replay \/ r3_terminal
  BY <1>0, <1>13 DEF Checks, r3_readbacks, r3_replay, r3_terminal
<1>14. CASE r3_reserve \/ r3_reserve_again
  BY <1>0, <1>14 DEF Reserves, Calls, CallsInVain, r3_reserve, r3_reserve_again
<1>15. CASE r3_closed_replay
  BY <1>0, <1>15 DEF r3_closed_replay
<1>16. CASE r3_spawn
  BY <1>0, <1>16 DEF Spawns, r3_spawn
<1>17. CASE r3_ready \/ r3_aborting \/ r3_results
  BY <1>0, <1>17 DEF r3_ready, r3_aborting, r3_results
<1>18. CASE r3_effect_ready \/ r3_adjudicate
  <2>1. run'.pc \in {"exits", "retire", "catch"} /\ Remembers(run')
    BY <1>0, <1>18, EffectReadyRun, AdjudicateRun
  <2> QED  BY <1>0, <1>18, <2>1 DEF r3_effect_ready, r3_adjudicate, Remembers
<1>19. CASE r3_final
  BY <1>0, <1>19 DEF r3_final, Publishes
<1>21. CASE r3_passed
  <2>1. run'.pc = "ended" /\ Remembers(run')
    BY <1>0, <1>21, PassesRun DEF r3_passed
  <2> QED  BY <1>0, <1>21, <2>1 DEF r3_passed, Passes, Remembers
<1>20. CASE r3_cleanupFreshTarget
  BY <1>0, <1>20 DEF r3_cleanupFreshTarget, FixtureOwned, Removes
<1> QED  BY <1>1, <1>2, <1>3, <1>4, <1>5, <1>6, <1>7, <1>8, <1>9, <1>10, <1>11, <1>12, <1>13, <1>14, <1>15,
            <1>16, <1>17, <1>18, <1>19, <1>20, <1>21 DEF R3

\* R1 makes no incident and removes only a key of its own.
LEMMA R1Way ==
  ASSUME Typed, script = "R1", CausalOK, R1
  PROVE  CausalOK'
<1> USE DEF CausalOK, Published, TokensHeld, Preparing, Announced, Marked, Triggered, Opening, Incipient,
            Racing, Retired, Closing, Unopened, Opened, Failing, Done, At, Goto, Throws, provider,
            evidence, others
<1>0. run \in Runner /\ pushed \subseteq files /\ tokens \subseteq Purpose \cup Contender
  BY DEF Typed
<1> USE DEF Runner
<1>1. CASE r1_preflight
  BY <1>0, <1>1 DEF r1_preflight, NoPreexistingR1Files, Fresh
<1>2. CASE r1_stopExistingB0Receiver \/ r1_ingressReachability \/ r1_appReadiness \/ r1_t3nReadiness
  BY <1>0, <1>2 DEF Checks, r1_stopExistingB0Receiver, r1_ingressReachability, r1_appReadiness, r1_t3nReadiness
<1>3. CASE r1_mintInstallationToken
  BY <1>0, <1>3 DEF Mints, r1_mintInstallationToken
<1>4. CASE r1_revokeAndRefuse
  BY <1>0, <1>4 DEF Revokes, r1_revokeAndRefuse
<1>5. CASE r1_verifyBaseline \/ r1_verifyTarget \/ r1_readContentDigest
  BY <1>0, <1>5 DEF Revokes, r1_verifyBaseline, r1_verifyTarget, r1_readContentDigest
<1>6. CASE r1_createTarget
  <2>1. /\ run'.pc \in {"target-refused", "catch"}
        /\ run'.created = run.created /\ run'.held = run.held /\ run'.raw = run.raw
    BY <1>0, <1>6, CreatesKeyRun DEF r1_createTarget
  <2> QED  BY <1>0, <1>6, <2>1 DEF CreatesKey, r1_createTarget
<1>7. CASE r1_commitAndPush
  BY <1>0, <1>7 DEF Publishes, r1_commitAndPush
<1>8. CASE r1_checkpoint \/ r1_generateKeyAndStage \/ r1_remotePolicyReadback \/ r1_awaitDelivery \/ r1_deliveryHistory
  BY <1>0, <1>8 DEF Checks, r1_checkpoint, r1_generateKeyAndStage, r1_remotePolicyReadback, r1_awaitDelivery,
     r1_deliveryHistory
<1>9. CASE r1_triggerSecret
  <2>1. branch.issued = 0 => AtMost2(branch.issued + 1) = 1
    BY DEF AtMost2
  <2> QED  BY <1>0, <1>9, <2>1 DEF Triggers, r1_triggerSecret
<1>10. CASE r1_raw
  <2>1. /\ run'.pc \in {"source-mint", "catch"} /\ (run'.pc # "catch" => run'.raw \in Delivery)
        /\ run'.created = run.created /\ run'.held = run.held /\ run'.target = run.target
    BY <1>10, RetainsRawRun, RawStep DEF r1_raw
  <2> QED  BY <1>0, <1>10, <2>1 DEF RetainsRaw, r1_raw
<1>11. CASE r1_process
  BY <1>0, <1>11 DEF Processes, r1_process
<1>12. CASE r1_cleanupFreshTarget
  BY <1>0, <1>12 DEF r1_cleanupFreshTarget, Removes
<1> QED  BY <1>1, <1>2, <1>3, <1>4, <1>5, <1>6, <1>7, <1>8, <1>9, <1>10, <1>11, <1>12 DEF R1

LEMMA KeepsRun ==
  ASSUME run \in Runner, NEW from, NEW to, NEW p, Keeps(from, to, p)
  PROVE  /\ run'.pc \in {to, "catch"}
         /\ run'.created = run.created /\ run'.target = run.target /\ run'.raw = run.raw
  BY DEF Keeps, Throws, Goto, Runner

LEMMA SurrendersRun ==
  ASSUME run \in Runner, NEW from, NEW to, NEW p, Surrenders(from, to, p)
  PROVE  /\ \/ run'.pc = to /\ tokens' = tokens \ {p}
            \/ run'.pc = IF from \in {"catch-source", "catch-setup"} THEN "ended" ELSE "catch"
         /\ run'.held \subseteq run.held
         /\ run'.created = run.created /\ run'.target = run.target /\ run'.raw = run.raw
  BY DEF Surrenders, Goto, Runner

\* B1 gives up the tokens it holds before it removes a key of its own.
LEMMA B1Way ==
  ASSUME Typed, script = "B1", CausalOK, B1
  PROVE  CausalOK'
<1> USE DEF CausalOK, Published, TokensHeld, Preparing, Announced, Marked, Triggered, Opening, Incipient,
            Racing, Retired, Closing, Unopened, Opened, Failing, Done, At, Goto, Throws, provider,
            evidence, others
<1>0. run \in Runner /\ pushed \subseteq files /\ tokens \subseteq Purpose \cup Contender
  BY DEF Typed
<1>1. CASE b1_preflight
  BY <1>0, <1>1 DEF b1_preflight, assertNoPreexistingB1Files, Fresh, Runner
<1>2. CASE b1_verifyIngress \/ b1_appReadback \/ b1_verifyBaseline \/ b1_generateKeyAndStage
  BY <1>0, <1>2 DEF Checks, b1_verifyIngress, b1_appReadback, b1_verifyBaseline, b1_generateKeyAndStage, Runner
<1>3. CASE b1_mintInstallationToken
  <2>1. CASE Keeps("setup-mint", "target-create", "setup")
    <3>1. /\ run'.pc \in {"target-create", "catch"}
          /\ run'.created = run.created /\ run'.target = run.target /\ run'.raw = run.raw
      BY <1>0, <2>1, KeepsRun
    <3> QED  BY <1>0, <2>1, <3>1 DEF Keeps
  <2>2. CASE Keeps("source-mint", "source-reads", "source")
    <3>1. /\ run'.pc \in {"source-reads", "catch"}
          /\ run'.created = run.created /\ run'.target = run.target /\ run'.raw = run.raw
      BY <1>0, <2>2, KeepsRun
    <3> QED  BY <1>0, <2>2, <3>1 DEF Keeps
  <2> QED  BY <1>3, <2>1, <2>2 DEF b1_mintInstallationToken
<1>4. CASE b1_createAndVerifyTarget
  <2>1. /\ run'.pc \in {"target-refused", "catch"}
        /\ run'.created = run.created /\ run'.held = run.held /\ run'.raw = run.raw
    BY <1>0, <1>4, CreatesKeyRun DEF b1_createAndVerifyTarget
  <2> QED  BY <1>0, <1>4, <2>1 DEF CreatesKey, b1_createAndVerifyTarget
<1>5. CASE b1_revokeAndProbe
  <2>1. PICK way \in {<<"target-refused", "policy", "setup">>, <<"source-refused", "derive", "source">>,
                      <<"catch-source", "catch", "source">>, <<"catch-setup", "catch", "setup">>} :
          Surrenders(way[1], way[2], way[3])
    BY <1>5 DEF b1_revokeAndProbe
  <2>2. /\ \/ run'.pc = way[2] /\ tokens' = tokens \ {way[3]}
           \/ run'.pc = IF way[1] \in {"catch-source", "catch-setup"} THEN "ended" ELSE "catch"
        /\ run'.held \subseteq run.held
        /\ run'.created = run.created /\ run'.target = run.target /\ run'.raw = run.raw
    BY <1>0, <2>1, SurrendersRun
  <2> QED  BY <1>0, <2>1, <2>2 DEF Surrenders
<1>6. CASE b1_commitAndPush
  BY <1>0, <1>6 DEF Publishes, b1_commitAndPush, Runner
<1>7. CASE b1_remotePolicyReadback \/ b1_verifyTargetWithPat \/ b1_awaitRealDelivery \/ b1_deliveryHistory
  BY <1>0, <1>7 DEF Checks, b1_remotePolicyReadback, b1_verifyTargetWithPat, b1_awaitRealDelivery,
     b1_deliveryHistory, Runner
<1>8. CASE b1_readContentDigest \/ b1_derive
  BY <1>0, <1>8 DEF Checks, b1_readContentDigest, b1_derive, Runner
<1>9. CASE b1_secretTrigger
  <2>1. branch.issued = 0 => AtMost2(branch.issued + 1) = 1
    BY DEF AtMost2
  <2> QED  BY <1>0, <1>9, <2>1 DEF Triggers, b1_secretTrigger, Runner
<1>10. CASE b1_completed
  <2>1. run'.pc = "ended" /\ Remembers(run')
    BY <1>0, <1>10, PassesRun DEF b1_completed
  <2> QED  BY <1>0, <1>10, <2>1 DEF b1_completed, Passes, Remembers
<1>11. CASE b1_catch
  BY <1>0, <1>11 DEF b1_catch, b1_emergencyCleanup, Removes, Runner
<1> QED  BY <1>1, <1>2, <1>3, <1>4, <1>5, <1>6, <1>7, <1>8, <1>9, <1>10, <1>11 DEF B1

----------------------------------------------------------------------------
(* The shape of the state under the steps of a causal run.                  *)

LEMMA EmptiesTyped ==
  ASSUME Typed
  PROVE  /\ EmptyInbox \in Inbox /\ {} \subseteq Purpose \cup Contender
         /\ [d \in Delivery |-> "none"] \in [Delivery -> {"none", "RESERVED", "ACCEPTED", "REJECTED"}]
  BY DEF EmptyInbox, Inbox

LEMMA R3Typed ==
  ASSUME Typed, script = "R3", CausalOK, row \in IncidentAuthority \cup {None}, R3
  PROVE  Typed'
<1>1. CASE r3_preflight
  BY <1>1, EmptiesTyped, GotoTyped, ThrowsTyped DEF r3_preflight, Step, Typed, evidence
<1>2. CASE r3_ingressReachability \/ r3_appReadiness \/ r3_t3nReadiness \/ r3_freezeLiveExecutionCheckpoint
  BY <1>2, ChecksTyped DEF r3_ingressReachability, r3_appReadiness, r3_t3nReadiness,
     r3_freezeLiveExecutionCheckpoint, Step
<1>3. CASE r3_mintInstallationToken
  BY <1>3, MintsTyped DEF r3_mintInstallationToken, Step, Purpose
<1>4. CASE r3_revokeAndRefuse \/ r3_verifyBaseline \/ r3_verifyTarget \/ r3_readContentDigest
  BY <1>4, RevokesTyped DEF r3_revokeAndRefuse, r3_verifyBaseline, r3_verifyTarget, r3_readContentDigest,
     Step, Purpose
<1>5. CASE r3_createTarget
  BY <1>5, CreatesKeyTyped DEF r3_createTarget, Step
<1>6. CASE r3_commitAndPush \/ r3_final
  BY <1>6, PublishesTyped DEF r3_commitAndPush, r3_final, Step, Evidence
<1>7. CASE r3_remotePolicyReadback \/ r3_awaitDelivery \/ r3_deliveryHistory
  BY <1>7, ChecksTyped DEF r3_remotePolicyReadback, r3_awaitDelivery, r3_deliveryHistory, Step
<1>8. CASE r3_triggerSecret
  BY <1>8, TriggersTyped DEF r3_triggerSecret, Step
<1>9. CASE r3_raw
  BY <1>9, RetainsRawTyped, RawStep DEF r3_raw
<1>10. CASE r3_process
  <2>1. run.raw \in Delivery
    BY <1>10 DEF CausalOK, r3_process, Processes, At
  <2> QED  BY <1>10, <2>1, ProcessesTyped DEF r3_process, Step
<1>11. CASE r3_create
  BY <1>11, CreatesTyped DEF r3_create, Step
<1>12. CASE r3_readbacks \/ r3_replay \/ r3_terminal
  BY <1>12, ChecksTyped DEF r3_readbacks, r3_replay, r3_terminal, Step
<1>13. CASE r3_reserve
  BY <1>13, ReservesTyped DEF r3_reserve, Step
<1>14. CASE r3_reserve_again
  <2>1. "closed-replay" \in Step
    BY DEF Step
  <2> QED  BY <1>14, <2>1, CallsInVainTyped DEF r3_reserve_again
<1>15. CASE r3_closed_replay
  <2>1. "terminal" \in Step
    BY DEF Step
  <2> QED  BY <1>15, <2>1, GotoTyped, ThrowsTyped DEF r3_closed_replay, Typed, provider, evidence, others
<1>16. CASE r3_spawn
  <2>1. [Off EXCEPT !.pc = "connect"] \in ChildState
    BY OffTyped, WaitingSteps DEF ChildState
  <2>2. "ready" \in Step
    BY DEF Step
  <2> QED  BY <1>16, <2>1, <2>2, SpawnsTyped DEF r3_spawn
<1>17. CASE r3_ready \/ r3_aborting \/ r3_results
  <2>1. {"aborting", "results", "effect-ready"} \subseteq Step
    BY DEF Step
  <2>2. /\ [gate EXCEPT !.barrier = "release"] \in Gate /\ [gate EXCEPT !.barrier = "abort"] \in Gate
        /\ [gate EXCEPT !.proposals = TRUE] \in Gate
    BY DEF Typed, Gate
  <2> QED  BY <1>17, <2>1, <2>2, GotoTyped, ThrowsTyped
           DEF r3_ready, r3_aborting, r3_results, Typed, provider, evidence, others
<1>18. CASE r3_effect_ready
  <2>1. [gate EXCEPT !.release = TRUE] \in Gate
    BY DEF Typed, Gate
  <2>2. "exits" \in Step
    BY DEF Step
  <2>3. [run EXCEPT !.pc = "exits", !.started = TRUE] \in Runner
    BY <2>2 DEF Typed, Runner
  <2> QED  BY <1>18, <2>1, <2>3, ThrowsTyped DEF r3_effect_ready, Typed, provider, evidence
<1>19. CASE r3_adjudicate
  <2>1. "retire" \in Step
    BY DEF Step
  <2>2. [run EXCEPT !.pc = "retire", !.closed = row] \in Runner
    BY <2>1 DEF Typed, Runner
  <2> QED  BY <1>19, <2>2, ThrowsTyped DEF r3_adjudicate, Typed, provider, evidence, others
<1>20. CASE r3_passed
  BY <1>20, PassesTyped DEF r3_passed
<1>21. CASE r3_cleanupFreshTarget
  <2>1. "cleanup" \in Purpose
    BY DEF Purpose
  <2> QED  BY <1>21, <2>1, RemovesTyped, GotoTyped, LastSteps
           DEF r3_cleanupFreshTarget, Typed, evidence, others
<1> QED  BY <1>1, <1>2, <1>3, <1>4, <1>5, <1>6, <1>7, <1>8, <1>9, <1>10, <1>11, <1>12, <1>13, <1>14, <1>15,
            <1>16, <1>17, <1>18, <1>19, <1>20, <1>21 DEF R3

LEMMA R1Typed ==
  ASSUME Typed, script = "R1", CausalOK, R1
  PROVE  Typed'
<1>1. CASE r1_preflight
  BY <1>1, EmptiesTyped, GotoTyped, ThrowsTyped DEF r1_preflight, Step, Typed, evidence
<1>2. CASE r1_stopExistingB0Receiver \/ r1_ingressReachability \/ r1_appReadiness \/ r1_t3nReadiness
  BY <1>2, ChecksTyped DEF r1_stopExistingB0Receiver, r1_ingressReachability, r1_appReadiness, r1_t3nReadiness, Step
<1>3. CASE r1_mintInstallationToken
  BY <1>3, MintsTyped DEF r1_mintInstallationToken, Step, Purpose
<1>4. CASE r1_revokeAndRefuse \/ r1_verifyBaseline \/ r1_verifyTarget \/ r1_readContentDigest
  BY <1>4, RevokesTyped DEF r1_revokeAndRefuse, r1_verifyBaseline, r1_verifyTarget, r1_readContentDigest,
     Step, Purpose
<1>5. CASE r1_createTarget
  BY <1>5, CreatesKeyTyped DEF r1_createTarget, Step
<1>6. CASE r1_commitAndPush
  BY <1>6, PublishesTyped DEF r1_commitAndPush, Step, Evidence
<1>7. CASE r1_checkpoint \/ r1_generateKeyAndStage \/ r1_remotePolicyReadback \/ r1_awaitDelivery \/ r1_deliveryHistory
  BY <1>7, ChecksTyped DEF r1_checkpoint, r1_generateKeyAndStage, r1_remotePolicyReadback, r1_awaitDelivery,
     r1_deliveryHistory, Step
<1>8. CASE r1_triggerSecret
  BY <1>8, TriggersTyped DEF r1_triggerSecret, Step
<1>9. CASE r1_raw
  BY <1>9, RetainsRawTyped, RawStep DEF r1_raw
<1>10. CASE r1_process
  <2>1. run.raw \in Delivery
    BY <1>10 DEF CausalOK, r1_process, Processes, At
  <2> QED  BY <1>10, <2>1, ProcessesTyped DEF r1_process, Step
<1>11. CASE r1_cleanupFreshTarget
  <2>1. "cleanup" \in Purpose
    BY DEF Purpose
  <2> QED  BY <1>11, <2>1, RemovesTyped, GotoTyped, LastSteps
           DEF r1_cleanupFreshTarget, Typed, evidence, others
<1> QED  BY <1>1, <1>2, <1>3, <1>4, <1>5, <1>6, <1>7, <1>8, <1>9, <1>10, <1>11 DEF R1

LEMMA KeepsTyped ==
  ASSUME Typed, NEW from, NEW to \in Step, NEW p \in Purpose, Keeps(from, to, p)
  PROVE  Typed'
<1>1. [run EXCEPT !.pc = to, !.held = @ \cup {p}] \in Runner
  BY DEF Typed, Runner
<1> QED  BY <1>1, ThrowsTyped DEF Keeps, Typed, evidence, others

LEMMA SurrendersTyped ==
  ASSUME Typed, NEW from, NEW to \in Step, NEW p \in Purpose, Surrenders(from, to, p)
  PROVE  Typed'
<1>1. [run EXCEPT !.pc = to, !.held = @ \ {p}] \in Runner
  BY DEF Typed, Runner
<1>2. (IF from \in {"catch-source", "catch-setup"} THEN "ended" ELSE "catch") \in Step
  BY LastSteps
<1>3. Goto(IF from \in {"catch-source", "catch-setup"} THEN "ended" ELSE "catch") => run' \in Runner
  BY <1>2, GotoTyped
<1> QED  BY <1>1, <1>3 DEF Surrenders, Typed, evidence, others

LEMMA B1Typed ==
  ASSUME Typed, script = "B1", B1
  PROVE  Typed'
<1>1. CASE b1_preflight
  BY <1>1, EmptiesTyped, GotoTyped, ThrowsTyped DEF b1_preflight, Step, Typed, evidence
<1>2. CASE b1_verifyIngress \/ b1_appReadback \/ b1_verifyBaseline \/ b1_generateKeyAndStage
  BY <1>2, ChecksTyped DEF b1_verifyIngress, b1_appReadback, b1_verifyBaseline, b1_generateKeyAndStage, Step
<1>3. CASE b1_mintInstallationToken
  BY <1>3, KeepsTyped DEF b1_mintInstallationToken, Step, Purpose
<1>4. CASE b1_createAndVerifyTarget
  BY <1>4, CreatesKeyTyped DEF b1_createAndVerifyTarget, Step
<1>5. CASE b1_revokeAndProbe
  BY <1>5, SurrendersTyped DEF b1_revokeAndProbe, Step, Purpose
<1>6. CASE b1_commitAndPush
  BY <1>6, PublishesTyped DEF b1_commitAndPush, Step, Evidence
<1>7. CASE b1_remotePolicyReadback \/ b1_verifyTargetWithPat \/ b1_awaitRealDelivery \/ b1_deliveryHistory
  BY <1>7, ChecksTyped DEF b1_remotePolicyReadback, b1_verifyTargetWithPat, b1_awaitRealDelivery,
     b1_deliveryHistory, Step
<1>8. CASE b1_readContentDigest \/ b1_derive
  BY <1>8, ChecksTyped DEF b1_readContentDigest, b1_derive, Step
<1>9. CASE b1_secretTrigger
  BY <1>9, TriggersTyped DEF b1_secretTrigger, Step
<1>10. CASE b1_completed
  BY <1>10, PassesTyped DEF b1_completed
<1>11. CASE b1_catch
  <2>1. "cleanup" \in Purpose /\ "FAILURE" \in Evidence
    BY DEF Purpose, Evidence
  <2>2. run' \in Runner
    BY <1>11, GotoTyped, LastSteps DEF b1_catch
  <2>3. key' \in {"absent", "present", "gone"} /\ tokens' \subseteq Purpose \cup Contender
    BY <1>11, <2>1, RemovesTyped DEF b1_catch, b1_emergencyCleanup, Typed
  <2>4. files' \subseteq Evidence /\ files \subseteq files'
    BY <1>11, <2>1 DEF b1_catch, Typed
  <2> QED  BY <1>11, <2>2, <2>3, <2>4 DEF b1_catch, Typed, others
<1> QED  BY <1>1, <1>2, <1>3, <1>4, <1>5, <1>6, <1>7, <1>8, <1>9, <1>10, <1>11 DEF B1

----------------------------------------------------------------------------
(* What every step of a causal run leaves of the world.                     *)

World ==
  /\ Typed
  /\ deletes \in 0..1
  /\ branch.issued <= 1
  /\ receipt["other"] # "ACCEPTED"

\* A step that sends no DELETE, pushes no secret and decides no delivery.
LEMMA QuietWorld ==
  ASSUME World, Typed', UNCHANGED <<deletes, branch, receipt>>
  PROVE  World'
  BY DEF World

\* The one push: it is only made when the branch has seen none.
LEMMA TriggersWorld ==
  ASSUME World, Typed', branch.issued = 0, NEW from, NEW to, Triggers(from, to)
  PROVE  World'
<1>1. AtMost2(branch.issued + 1) = 1
  BY DEF AtMost2
<1> QED  BY <1>1 DEF World, Triggers

\* The first and only DELETE of a runner.
LEMMA RemovesWorld ==
  ASSUME World, Typed', deletes = 0, NEW by, Removes(by), UNCHANGED <<branch, receipt>>
  PROVE  World'
  BY DEF World, Removes

\* The observations fit the trigger only.
LEMMA ProcessesWorld ==
  ASSUME World, Typed', run.raw \in Delivery, NEW from, NEW to, NEW selected, Processes(from, to, selected)
  PROVE  World'
<1>1. receipt'["other"] # "ACCEPTED"
  BY DEF World, Typed, Processes, Processed, Delivery
<1> QED  BY <1>1 DEF World, Processes, provider

LEMMA DeliversWorld ==
  ASSUME World, NEW reserves, Delivers(reserves)
  PROVE  World'
<1>1. Typed'
  BY DeliversTyped DEF World
<1>2. receipt'["other"] # "ACCEPTED"
  BY DEF World, Typed, Delivers, Delivery
<1> QED  BY <1>1, <1>2 DEF World, Delivers, provider

LEMMA R1World ==
  ASSUME World, script = "R1", CausalOK, R1
  PROVE  World' /\ script' = script /\ row' = row /\ child' = child
         /\ tokens' \subseteq tokens \cup Purpose /\ run'.passed = run.passed
<1>0. Typed'
  BY R1Typed DEF World
<1>1. CASE r1_preflight
  <2>1. World'
    BY <1>0, <1>1 DEF r1_preflight, World, Delivery
  <2> QED  BY <1>1, <2>1 DEF r1_preflight, World, Typed, Runner, Goto, Throws
<1>2. CASE \/ r1_stopExistingB0Receiver \/ r1_ingressReachability \/ r1_appReadiness \/ r1_t3nReadiness
           \/ r1_checkpoint \/ r1_generateKeyAndStage \/ r1_remotePolicyReadback \/ r1_awaitDelivery
           \/ r1_deliveryHistory
  <2>1. PICK from, to, required : Checks(from, to, required)
    BY <1>2 DEF r1_stopExistingB0Receiver, r1_ingressReachability, r1_appReadiness, r1_t3nReadiness,
       r1_checkpoint, r1_generateKeyAndStage, r1_remotePolicyReadback, r1_awaitDelivery, r1_deliveryHistory
  <2> QED  BY <1>0, <2>1, QuietWorld DEF Checks, World, Typed, Runner, Goto, Throws, provider, others
<1>3. CASE r1_mintInstallationToken
  <2>1. PICK from, to, p : p \in {"setup", "source", "verifier"} /\ Mints(from, to, p)
    BY <1>3 DEF r1_mintInstallationToken
  <2> QED  BY <1>0, <2>1, QuietWorld DEF Mints, World, Typed, Runner, Goto, Throws, others, Purpose
<1>4. CASE r1_revokeAndRefuse \/ r1_verifyBaseline \/ r1_verifyTarget \/ r1_readContentDigest
  <2>1. PICK from, to, p, required : Revokes(from, to, p, required)
    BY <1>4 DEF r1_revokeAndRefuse, r1_verifyBaseline, r1_verifyTarget, r1_readContentDigest
  <2> QED  BY <1>0, <2>1, QuietWorld DEF Revokes, World, Typed, Runner, Goto, Throws, others
<1>5. CASE r1_createTarget
  BY <1>0, <1>5, QuietWorld DEF r1_createTarget, CreatesKey, World, Typed, Runner, Goto, Throws, others
<1>6. CASE r1_commitAndPush
  BY <1>0, <1>6, QuietWorld
  DEF r1_commitAndPush, Publishes, World, Typed, Runner, Goto, Throws, provider, others
<1>7. CASE r1_triggerSecret
  <2>1. branch.issued = 0
    BY <1>7 DEF r1_triggerSecret, Triggers, At, CausalOK, Published, Marked
  <2>2. World'
    BY <1>0, <1>7, <2>1, TriggersWorld DEF r1_triggerSecret
  <2> QED  BY <1>7, <2>2 DEF r1_triggerSecret, Triggers, World, Typed, Runner, Goto, Throws, others
<1>8. CASE r1_raw
  BY <1>0, <1>8, QuietWorld DEF r1_raw, RetainsRaw, World, Typed, Runner, Goto, Throws, provider
<1>9. CASE r1_process
  <2>1. run.raw \in Delivery
    BY <1>9 DEF CausalOK, r1_process, Processes, At
  <2>2. World'
    BY <1>0, <1>9, <2>1, ProcessesWorld DEF r1_process
  <2> QED  BY <1>9, <2>2 DEF r1_process, Processes, World, Typed, Runner, Goto, Throws, provider, others
<1>10. CASE r1_cleanupFreshTarget
  <2>1. World'
    <3>1. CASE run.target /\ ~run.created /\ ~run.started
      <4>1. deletes = 0
        BY <1>10, <3>1 DEF r1_cleanupFreshTarget, At, CausalOK, Failing
      <4> QED  BY <1>0, <1>10, <3>1, <4>1, RemovesWorld DEF r1_cleanupFreshTarget
    <3>2. CASE ~(run.target /\ ~run.created /\ ~run.started)
      BY <1>0, <1>10, <3>2, QuietWorld DEF r1_cleanupFreshTarget
    <3> QED  BY <3>1, <3>2
  <2> QED  BY <1>10, <2>1 DEF r1_cleanupFreshTarget, Removes, World, Typed, Runner, Goto, others, Purpose
<1> QED  BY <1>1, <1>2, <1>3, <1>4, <1>5, <1>6, <1>7, <1>8, <1>9, <1>10 DEF R1

LEMMA B1World ==
  ASSUME World, script = "B1", CausalOK, B1
  PROVE  World' /\ script' = script /\ row' = row /\ child' = child
         /\ tokens' \subseteq tokens \cup Purpose /\ (run'.passed = run.passed \/ b1_completed)
<1>0. Typed'
  BY B1Typed DEF World
<1>1. CASE b1_preflight
  BY <1>0, <1>1 DEF b1_preflight, World, Typed, Runner, Goto, Throws
<1>2. CASE \/ b1_verifyIngress \/ b1_appReadback \/ b1_verifyBaseline \/ b1_generateKeyAndStage
           \/ b1_remotePolicyReadback \/ b1_verifyTargetWithPat \/ b1_awaitRealDelivery \/ b1_deliveryHistory
           \/ b1_readContentDigest \/ b1_derive
  <2>1. PICK from, to, required : Checks(from, to, required)
    BY <1>2 DEF b1_verifyIngress, b1_appReadback, b1_verifyBaseline, b1_generateKeyAndStage,
       b1_remotePolicyReadback, b1_verifyTargetWithPat, b1_awaitRealDelivery, b1_deliveryHistory,
       b1_readContentDigest, b1_derive
  <2> QED  BY <1>0, <2>1, QuietWorld DEF Checks, World, Typed, Runner, Goto, Throws, provider, others
<1>3. CASE b1_mintInstallationToken
  <2>1. PICK from, to, p : p \in {"setup", "source"} /\ Keeps(from, to, p)
    BY <1>3 DEF b1_mintInstallationToken
  <2> QED  BY <1>0, <2>1, QuietWorld DEF Keeps, World, Typed, Runner, Goto, Throws, others, Purpose
<1>4. CASE b1_createAndVerifyTarget
  BY <1>0, <1>4, QuietWorld DEF b1_createAndVerifyTarget, CreatesKey, World, Typed, Runner, Goto, Throws, others
<1>5. CASE b1_revokeAndProbe
  <2>1. PICK from, to, p : Surrenders(from, to, p)
    BY <1>5 DEF b1_revokeAndProbe
  <2> QED  BY <1>0, <2>1, QuietWorld DEF Surrenders, World, Typed, Runner, Goto, others
<1>6. CASE b1_commitAndPush
  BY <1>0, <1>6, QuietWorld
  DEF b1_commitAndPush, Publishes, World, Typed, Runner, Goto, Throws, provider, others
<1>7. CASE b1_secretTrigger
  <2>1. branch.issued = 0
    BY <1>7 DEF b1_secretTrigger, Triggers, At, CausalOK, Published, Marked
  <2>2. World'
    BY <1>0, <1>7, <2>1, TriggersWorld DEF b1_secretTrigger
  <2> QED  BY <1>7, <2>2 DEF b1_secretTrigger, Triggers, World, Typed, Runner, Goto, Throws, others
<1>8. CASE b1_completed
  BY <1>0, <1>8, QuietWorld DEF b1_completed, Passes, provider, others
<1>9. CASE b1_catch
  <2>1. World'
    <3>1. CASE (run.held # {} \/ run.target) /\ b1_emergencyCleanup
      <4>1. deletes = 0
        BY <1>9, <3>1 DEF b1_catch, At, CausalOK, Failing
      <4> QED  BY <1>0, <1>9, <3>1, <4>1, RemovesWorld DEF b1_catch, b1_emergencyCleanup
    <3>2. CASE UNCHANGED deletes
      BY <1>0, <1>9, <3>2, QuietWorld DEF b1_catch
    <3> QED  BY <1>9, <3>1, <3>2 DEF b1_catch
  <2> QED  BY <1>9, <2>1 DEF b1_catch, b1_emergencyCleanup, Removes, World, Typed, Runner, Goto, others, Purpose
<1> QED  BY <1>1, <1>2, <1>3, <1>4, <1>5, <1>6, <1>7, <1>8, <1>9 DEF B1

\* The key that was verified stays, and the evidence is pushed before the run completes.
LEMMA B1Remains ==
  ASSUME Typed, CausalOK, RemainingOK, B1
  PROVE  RemainingOK'
<1> USE DEF RemainingOK, Triggered, At, Goto, Throws, provider, evidence, others
<1>0. run \in Runner
  BY DEF Typed
<1>1. CASE b1_preflight
  BY <1>0, <1>1 DEF b1_preflight, Runner
<1>2. CASE \/ b1_verifyIngress \/ b1_appReadback \/ b1_verifyBaseline \/ b1_generateKeyAndStage
           \/ b1_remotePolicyReadback
  BY <1>0, <1>2 DEF Checks, b1_verifyIngress, b1_appReadback, b1_verifyBaseline, b1_generateKeyAndStage,
     b1_remotePolicyReadback, Runner
<1>3. CASE \/ b1_verifyTargetWithPat \/ b1_awaitRealDelivery \/ b1_deliveryHistory
           \/ b1_readContentDigest \/ b1_derive
  BY <1>0, <1>3 DEF Checks, b1_verifyTargetWithPat, b1_awaitRealDelivery, b1_deliveryHistory,
     b1_readContentDigest, b1_derive, Runner
<1>4. CASE b1_mintInstallationToken
  <2>1. PICK way \in {<<"setup-mint", "target-create", "setup">>, <<"source-mint", "source-reads", "source">>} :
          Keeps(way[1], way[2], way[3])
    BY <1>4 DEF b1_mintInstallationToken
  <2>2. run'.pc \in {way[2], "catch"}
    BY <1>0, <2>1, KeepsRun
  <2> QED  BY <2>1, <2>2 DEF Keeps
<1>5. CASE b1_createAndVerifyTarget
  <2>1. run'.pc \in {"target-refused", "catch"}
    BY <1>0, <1>5, CreatesKeyRun DEF b1_createAndVerifyTarget
  <2> QED  BY <2>1
<1>6. CASE b1_revokeAndProbe
  <2>1. PICK way \in {<<"target-refused", "policy", "setup">>, <<"source-refused", "derive", "source">>,
                      <<"catch-source", "catch", "source">>, <<"catch-setup", "catch", "setup">>} :
          Surrenders(way[1], way[2], way[3])
    BY <1>6 DEF b1_revokeAndProbe
  <2>2. run'.pc \in {way[2], "ended", "catch"}
    BY <1>0, <2>1, SurrendersRun
  <2> QED  BY <2>1, <2>2 DEF Surrenders
<1>7. CASE b1_commitAndPush
  BY <1>0, <1>7 DEF Publishes, b1_commitAndPush, Runner
<1>8. CASE b1_secretTrigger
  BY <1>0, <1>8 DEF Triggers, b1_secretTrigger, Runner
<1>9. CASE b1_completed
  BY <1>0, <1>9, PassesRun DEF b1_completed
<1>10. CASE b1_catch
  BY <1>0, <1>10 DEF b1_catch, Runner
<1> QED  BY <1>1, <1>2, <1>3, <1>4, <1>5, <1>6, <1>7, <1>8, <1>9, <1>10 DEF B1

LEMMA R3World ==
  ASSUME World, script = "R3", CausalOK, row \in IncidentAuthority \cup {None}, R3
  PROVE  World' /\ script' = script /\ (run'.passed = run.passed \/ r3_passed)
<1>0. Typed'
  BY R3Typed DEF World
<1>1. CASE r3_preflight
  <2>1. World'
    BY <1>0, <1>1 DEF r3_preflight, World, Delivery
  <2> QED  BY <1>1, <2>1 DEF r3_preflight, World, Typed, Runner, Goto, Throws
<1>2. CASE \/ r3_ingressReachability \/ r3_appReadiness \/ r3_t3nReadiness \/ r3_freezeLiveExecutionCheckpoint
           \/ r3_remotePolicyReadback \/ r3_awaitDelivery \/ r3_deliveryHistory
           \/ r3_readbacks \/ r3_replay \/ r3_terminal
  <2>1. PICK from, to, required : Checks(from, to, required)
    BY <1>2 DEF r3_ingressReachability, r3_appReadiness, r3_t3nReadiness, r3_freezeLiveExecutionCheckpoint,
       r3_remotePolicyReadback, r3_awaitDelivery, r3_deliveryHistory, r3_readbacks, r3_replay, r3_terminal
  <2> QED  BY <1>0, <2>1, QuietWorld DEF Checks, World, Typed, Runner, Goto, Throws, provider, others
<1>3. CASE r3_mintInstallationToken
  <2>1. PICK from, to, p : Mints(from, to, p)
    BY <1>3 DEF r3_mintInstallationToken
  <2> QED  BY <1>0, <2>1, QuietWorld DEF Mints, World, Typed, Runner, Goto, Throws, others
<1>4. CASE r3_revokeAndRefuse \/ r3_verifyBaseline \/ r3_verifyTarget \/ r3_readContentDigest
  <2>1. PICK from, to, p, required : Revokes(from, to, p, required)
    BY <1>4 DEF r3_revokeAndRefuse, r3_verifyBaseline, r3_verifyTarget, r3_readContentDigest
  <2> QED  BY <1>0, <2>1, QuietWorld DEF Revokes, World, Typed, Runner, Goto, Throws, others
<1>5. CASE r3_createTarget
  BY <1>0, <1>5, QuietWorld DEF r3_createTarget, CreatesKey, World, Typed, Runner, Goto, Throws, others
<1>6. CASE r3_commitAndPush \/ r3_final
  BY <1>0, <1>6, QuietWorld
  DEF r3_commitAndPush, r3_final, Publishes, World, Typed, Runner, Goto, Throws, provider, others
<1>7. CASE r3_triggerSecret
  <2>1. branch.issued = 0
    BY <1>7 DEF r3_triggerSecret, Triggers, At, CausalOK, Published, Marked
  <2>2. World'
    BY <1>0, <1>7, <2>1, TriggersWorld DEF r3_triggerSecret
  <2> QED  BY <1>7, <2>2 DEF r3_triggerSecret, Triggers, World, Typed, Runner, Goto, Throws, others
<1>8. CASE r3_raw
  BY <1>0, <1>8, QuietWorld DEF r3_raw, RetainsRaw, World, Typed, Runner, Goto, Throws, provider
<1>9. CASE r3_process
  <2>1. run.raw \in Delivery
    BY <1>9 DEF CausalOK, r3_process, Processes, At
  <2>2. World'
    BY <1>0, <1>9, <2>1, ProcessesWorld DEF r3_process
  <2> QED  BY <1>9, <2>2 DEF r3_process, Processes, World, Typed, Runner, Goto, Throws, provider, others
<1>10. CASE r3_create
  BY <1>0, <1>10, QuietWorld DEF r3_create, Creates, World, Typed, Runner, Goto, Throws, provider, others
<1>11. CASE r3_reserve \/ r3_reserve_again \/ r3_closed_replay
  BY <1>0, <1>11, QuietWorld DEF r3_reserve, r3_reserve_again, r3_closed_replay, Reserves, Calls, CallsInVain,
     World, Typed, Runner, Goto, Throws, provider, others
<1>12. CASE r3_spawn
  BY <1>0, <1>12, QuietWorld DEF r3_spawn, Spawns, World, Typed, Runner, Goto, Throws, provider
<1>13. CASE r3_ready \/ r3_aborting \/ r3_results
  BY <1>0, <1>13, QuietWorld
  DEF r3_ready, r3_aborting, r3_results, World, Typed, Runner, Goto, Throws, provider, others
<1>14. CASE r3_effect_ready \/ r3_adjudicate
  BY <1>0, <1>14, QuietWorld
  DEF r3_effect_ready, r3_adjudicate, World, Typed, Runner, Goto, Throws, provider, others
<1>15. CASE r3_passed
  BY <1>0, <1>15, QuietWorld DEF r3_passed, Passes, provider, others
<1>16. CASE r3_cleanupFreshTarget
  <2>1. World'
    <3>1. CASE FixtureOwned
      <4>1. deletes = 0
        BY <1>16, <3>1 DEF r3_cleanupFreshTarget, At, CausalOK, Failing, FixtureOwned
      <4> QED  BY <1>0, <1>16, <3>1, <4>1, RemovesWorld DEF r3_cleanupFreshTarget
    <3>2. CASE ~FixtureOwned
      BY <1>0, <1>16, <3>2, QuietWorld DEF r3_cleanupFreshTarget
    <3> QED  BY <3>1, <3>2
  <2> QED  BY <1>16, <2>1 DEF r3_cleanupFreshTarget, Removes, World, Typed, Runner, Goto, others
<1> QED  BY <1>1, <1>2, <1>3, <1>4, <1>5, <1>6, <1>7, <1>8, <1>9, <1>10, <1>11, <1>12, <1>13, <1>14, <1>15,
            <1>16 DEF R3

----------------------------------------------------------------------------
(* The race, under the steps of the runner.                                 *)

LEMMA PurposeTokens ==
  ASSUME NEW c \in Contender
  PROVE  c \notin Purpose
  BY TokenAssumption DEF Purpose

\* While a contender runs the runner waits for it, or has failed.
LEMMA RaceTime ==
  ASSUME RaceOK, run.pc \notin Racing \cup Failing \cup Done
  PROVE  NobodyRuns
  BY DEF RaceOK, ContenderOK, NobodyRuns

\* When the row moves under the runner nobody holds a start, hence no token.
LEMMA MovedRow ==
  ASSUME RaceOK, RowMoves, row' # row, NEW c \in Contender
  PROVE  c \notin tokens \/ run.pc = "create"
  BY DEF RaceOK, RowMoves, Idles, IsOwner

\* A step that the contenders do not notice.
LEMMA Unnoticed ==
  ASSUME RaceOK, child' = child,
         row' = row \/ \A c \in Contender : c \notin tokens,
         \A c \in Contender : c \in tokens' => c \in tokens,
         \/ NobodyRuns
         \/ /\ UNCHANGED <<row, key, deletes>> /\ pushed \subseteq pushed' /\ run'.created = run.created
            /\ run'.pc \in Racing \cup Failing \cup Done
            /\ gate'.effect = gate.effect /\ (gate.release => gate'.release)
            /\ \A c \in Contender : c \in tokens => c \in tokens',
         run'.pc \in Closing => NobodyRuns /\ RowIs("CLOSED")',
         "FINAL" \in files' => NobodyRuns /\ run'.pc \in {"passed", "catch", "preflight"} \cup Done
  PROVE  RaceOK'
<1>1. ASSUME NEW c \in Contender, Running(c)'
      PROVE  ContenderOK(c)'
  <2>1. Running(c) /\ ~NobodyRuns
    BY <1>1 DEF Running, NobodyRuns
  <2>2. ContenderOK(c)
    BY <2>1 DEF RaceOK
  <2>3. IsOwner(c)' <=> IsOwner(c)
    BY <2>1 DEF IsOwner
  <2> QED  BY <2>1, <2>2, <2>3 DEF ContenderOK
<1>2. ASSUME NEW c \in Contender, c \in tokens'
      PROVE  IsOwner(c)' /\ row'.status # "CLOSED"
  <2>1. c \in tokens /\ row' = row
    BY <1>2
  <2> QED  BY <2>1 DEF RaceOK, IsOwner
<1>3. NobodyRuns' <=> NobodyRuns
  BY DEF NobodyRuns, Running
<1> QED  BY <1>1, <1>2, <1>3 DEF RaceOK

\* Before the race there is nobody to notice, and no evidence to be wrong.
LEMMA BeforeRace ==
  ASSUME RaceOK, child' = child,
         run.pc \notin Racing \cup Failing \cup Done \cup {"passed", "preflight"}, run'.pc \notin Closing,
         row' = row \/ \A c \in Contender : c \notin tokens,
         tokens' \subseteq tokens \cup Purpose, "FINAL" \in files' => "FINAL" \in files
  PROVE  RaceOK'
<1>1. NobodyRuns
  BY RaceTime
<1>2. \A c \in Contender : c \in tokens' => c \in tokens
  BY PurposeTokens
<1>3. "FINAL" \notin files
  BY DEF RaceOK, Failing
<1> QED  BY <1>1, <1>2, <1>3, Unnoticed

\* A closed row does not move.
LEMMA ClosedStays ==
  ASSUME GoodRow(row), row.status = "CLOSED", RowMoves, run.pc # "create"
  PROVE  row' = row
  BY StartShape DEF RowMoves, Idles

\* After the race the row is closed and nobody runs.
LEMMA AfterRace ==
  ASSUME RaceOK, child' = child, row # None => GoodRow(row), RowMoves,
         run.pc \in Closing, run'.pc \in Closing \cup {"catch", "ended"},
         tokens' = tokens,
         "FINAL" \in files' => run'.pc \in {"passed", "catch", "ended"}
  PROVE  RaceOK'
<1>1. NobodyRuns /\ RowIs("CLOSED")
  BY DEF RaceOK
<1>2. row' = row
  BY <1>1, ClosedStays DEF RowIs, Closing, Retired
<1> QED  BY <1>1, <1>2, Unnoticed DEF RowIs, Done

LEMMA R3Race ==
  ASSUME World, script = "R3", CausalOK, RaceOK, row # None => GoodRow(row), RowMoves, R3
  PROVE  RaceOK'
<1> USE DEF At, Goto, Throws
<1>0. /\ run \in Runner
      /\ \A c \in Contender : c \notin Purpose
      /\ "FINAL" \in files => run.pc \in {"passed", "catch", "preflight"} \cup Done
      /\ run.pc \in Closing => RowIs("CLOSED")
      /\ row = None => \A c \in Contender : c \notin tokens
      /\ run.pc = "create" => row = None
  BY PurposeTokens DEF World, Typed, RaceOK, CausalOK, IsOwner, Unopened, Opening
<1>1. CASE r3_preflight
  <2>1. NobodyRuns
    BY <1>1, RaceTime DEF r3_preflight, Racing, Failing, Done
  <2> QED  BY <1>0, <1>1, <2>1, Unnoticed
           DEF r3_preflight, evidence, NothingPublished, Runner, Closing, Retired
<1>2. CASE \/ r3_ingressReachability \/ r3_appReadiness \/ r3_t3nReadiness \/ r3_freezeLiveExecutionCheckpoint
           \/ r3_remotePolicyReadback \/ r3_awaitDelivery \/ r3_deliveryHistory \/ r3_readbacks
  <2>1. /\ run.pc \notin Racing \cup Failing \cup Done \cup {"passed", "preflight"}
        /\ run'.pc \notin Closing
        /\ UNCHANGED <<row, files, tokens, child>>
    BY <1>0, <1>2 DEF r3_ingressReachability, r3_appReadiness, r3_t3nReadiness, r3_freezeLiveExecutionCheckpoint,
       r3_remotePolicyReadback, r3_awaitDelivery, r3_deliveryHistory, r3_readbacks, Checks, Runner,
       Racing, Failing, Done, Closing, Retired, provider, evidence, others
  <2> QED  BY <2>1, BeforeRace
<1>3. CASE r3_mintInstallationToken
  <2>1. /\ run.pc \notin Racing \cup Failing \cup Done \cup {"passed", "preflight"}
        /\ run'.pc \notin Closing
        /\ UNCHANGED <<row, files, child>> /\ tokens' \subseteq tokens \cup Purpose
    BY <1>0, <1>3 DEF r3_mintInstallationToken, Mints, Runner,
       Racing, Failing, Done, Closing, Retired, evidence, others, Purpose
  <2> QED  BY <2>1, BeforeRace
<1>4. CASE r3_revokeAndRefuse \/ r3_verifyBaseline \/ r3_verifyTarget \/ r3_readContentDigest
  <2>1. /\ run.pc \notin Racing \cup Failing \cup Done \cup {"passed", "preflight"}
        /\ run'.pc \notin Closing
        /\ UNCHANGED <<row, files, child>> /\ tokens' \subseteq tokens
    BY <1>0, <1>4 DEF r3_revokeAndRefuse, r3_verifyBaseline, r3_verifyTarget, r3_readContentDigest, Revokes, Runner,
       Racing, Failing, Done, Closing, Retired, evidence, others
  <2> QED  BY <2>1, BeforeRace
<1>5. CASE r3_createTarget
  <2>1. run'.pc \in {"target-refused", "catch"}
    BY <1>0, <1>5, CreatesKeyRun DEF r3_createTarget
  <2>2. run.pc = "target-create" /\ UNCHANGED <<row, files, child, tokens>>
    BY <1>5 DEF r3_createTarget, CreatesKey, evidence, others
  <2> QED  BY <2>1, <2>2, BeforeRace DEF Racing, Failing, Done, Closing, Retired
<1>6. CASE r3_commitAndPush
  <2>1. /\ run.pc \in {"policy", "marker", "retire"}
        /\ run.pc = "retire" => run'.pc \in {"replay", "catch"}
        /\ run.pc # "retire" => run'.pc \notin Closing
        /\ UNCHANGED <<row, tokens, child>> /\ ("FINAL" \in files' => "FINAL" \in files)
    BY <1>0, <1>6 DEF r3_commitAndPush, Publishes, Runner, provider, others, Closing, Retired
  <2>2. CASE run.pc = "retire"
    BY <1>0, <2>1, <2>2, AfterRace DEF Closing, Retired, Done
  <2>3. CASE run.pc # "retire"
    BY <2>1, <2>3, BeforeRace DEF Racing, Failing, Done
  <2> QED  BY <2>2, <2>3
<1>7. CASE r3_triggerSecret \/ r3_raw \/ r3_process
  <2>1. run.pc \in {"trigger", "raw", "process"} /\ UNCHANGED <<row, files, tokens, child>>
    BY <1>7 DEF r3_triggerSecret, r3_raw, r3_process, Triggers, RetainsRaw, Processes, provider, evidence, others
  <2>2. run'.pc \in {"await", "source-mint", "create", "catch"}
    BY <1>0, <1>7 DEF r3_triggerSecret, r3_raw, r3_process, Triggers, RetainsRaw, Processes, Runner
  <2> QED  BY <2>1, <2>2, BeforeRace DEF Racing, Failing, Done, Closing, Retired
<1>8. CASE r3_create
  <2>1. run'.pc \in {"active", "catch"}
    BY <1>0, <1>8, CreatesRun DEF r3_create
  <2>2. run.pc = "create" /\ UNCHANGED <<files, tokens, child>>
    BY <1>8 DEF r3_create, Creates, provider, evidence, others
  <2> QED  BY <1>0, <2>1, <2>2, BeforeRace DEF Racing, Failing, Done, Closing, Retired
<1>9. CASE r3_reserve
  <2>1. run.pc = "reserve" /\ run'.pc \in {"reserved", "catch"} /\ UNCHANGED <<files, tokens, child>>
    BY <1>0, <1>9 DEF r3_reserve, Reserves, Calls, Runner, provider, evidence, others
  <2>2. row' = row \/ \A c \in Contender : c \notin tokens
    BY <2>1, MovedRow
  <2> QED  BY <2>1, <2>2, BeforeRace DEF Racing, Failing, Done, Closing, Retired
<1>10. CASE r3_ready \/ r3_aborting \/ r3_results \/ r3_effect_ready
  <2>1. run.pc \in Racing /\ run'.pc \in Racing \cup {"catch"}
    BY <1>0, <1>10 DEF r3_ready, r3_aborting, r3_results, r3_effect_ready, Racing, Runner
  <2>2. run'.created = run.created
    BY <1>0, <1>10 DEF r3_ready, r3_aborting, r3_results, r3_effect_ready, Runner
  <2>3. UNCHANGED <<row, key, deletes, pushed, files, tokens, child>>
    BY <1>10 DEF r3_ready, r3_aborting, r3_results, r3_effect_ready, provider, evidence, others
  <2>4. gate'.effect = gate.effect /\ (gate.release => gate'.release)
    BY <1>10 DEF r3_ready, r3_aborting, r3_results, r3_effect_ready, World, Typed, Gate, others
  <2> QED  BY <1>0, <2>1, <2>2, <2>3, <2>4, Unnoticed DEF Racing, Failing, Done, Closing, Retired
<1>11. CASE r3_adjudicate
  <2>1. run.pc = "exits" /\ run'.pc \in {"retire", "catch"} /\ UNCHANGED <<row, tokens, files, child>>
    BY <1>0, <1>11, AdjudicateRun DEF r3_adjudicate, provider, evidence, others
  <2>2. NobodyRuns
    BY <1>11 DEF r3_adjudicate, Exited, NobodyRuns, Running, Waiting
  <2>3. run'.pc = "retire" => RowIs("CLOSED")
    BY <1>0, <1>11 DEF r3_adjudicate, Runner
  <2> QED  BY <1>0, <2>1, <2>2, <2>3, Unnoticed DEF RowIs, Closing, Retired, Done
<1>12. CASE r3_replay \/ r3_terminal \/ r3_reserve_again \/ r3_closed_replay
  <2>1. /\ run.pc \in {"replay", "terminal", "reserve-again", "closed-replay"}
        /\ run'.pc \in {"reserve-again", "offline", "closed-replay", "terminal", "catch"}
        /\ UNCHANGED <<tokens, files, child>>
    BY <1>0, <1>12 DEF r3_replay, r3_terminal, r3_reserve_again, r3_closed_replay, Checks, CallsInVain, Runner,
       provider, evidence, others
  <2> QED  BY <1>0, <2>1, AfterRace DEF Closing, Retired, Done
<1>13. CASE r3_final \/ r3_passed
  <2>1. /\ run.pc \in {"offline", "passed"} /\ run'.pc \in {"passed", "catch", "ended"}
        /\ UNCHANGED <<tokens, child>>
    BY <1>0, <1>13 DEF r3_final, r3_passed, Publishes, Passes, Runner, provider, others
  <2> QED  BY <1>0, <2>1, AfterRace DEF Closing, Retired, Done
<1>14. CASE r3_spawn
  <2>1. /\ run.pc = "spawn" /\ run'.pc = "ready" /\ run'.created = run.created
        /\ UNCHANGED <<row, key, deletes, tokens, files, pushed>>
        /\ child' = [c \in Contender |-> [Off EXCEPT !.pc = "connect"]]
    BY <1>0, <1>14 DEF r3_spawn, Spawns, Runner, provider, evidence
  <2>2. /\ row # None /\ run.created /\ {"POLICY", "MARKER"} \subseteq pushed /\ deletes = 0
    BY <2>1 DEF CausalOK, Published, Opened, Incipient, Preparing, Announced
  <2>3. "FINAL" \notin files
    BY <1>0, <2>1 DEF Done
  <2>4. \A c \in Contender : child'[c].pc = "connect"
    BY <2>1 DEF Off
  <2>5. \A c \in Contender : ContenderOK(c)'
    BY <2>1, <2>2, <2>4 DEF ContenderOK, Racing, Armed, Sent
  <2> QED  BY <2>1, <2>3, <2>5 DEF RaceOK, IsOwner, Closing, Retired
<1>15. CASE r3_cleanupFreshTarget
  <2>1. /\ run.pc = "catch" /\ run'.pc = "ended" /\ run'.created = run.created
        /\ UNCHANGED <<row, child, files, pushed, gate>>
    BY <1>0, <1>15 DEF r3_cleanupFreshTarget, Runner, evidence, others
  <2>2. CASE FixtureOwned
    <3>1. NobodyRuns
      BY <2>2 DEF FixtureOwned, RaceOK, ContenderOK, NobodyRuns
    <3>2. tokens' \subseteq tokens \cup Purpose
      BY <1>15, <2>2 DEF r3_cleanupFreshTarget, Removes, Purpose
    <3> QED  BY <1>0, <2>1, <3>1, <3>2, Unnoticed DEF Closing, Retired, Done
  <2>3. CASE ~FixtureOwned
    <3>1. UNCHANGED <<tokens, key, deletes>>
      BY <1>15, <2>3 DEF r3_cleanupFreshTarget
    <3>2. "FINAL" \in files => NobodyRuns
      BY DEF RaceOK
    <3> QED  BY <1>0, <2>1, <3>1, <3>2, Unnoticed DEF Closing, Retired, Done
  <2> QED  BY <2>2, <2>3
<1> QED  BY <1>1, <1>2, <1>3, <1>4, <1>5, <1>6, <1>7, <1>8, <1>9, <1>10, <1>11, <1>12, <1>13, <1>14, <1>15
         DEF R3

----------------------------------------------------------------------------
(* What a closed row and a final evidence say, under the steps of the       *)
(* runner.                                                                  *)

LEMMA ClosedKept ==
  ASSUME ClosedOK, UNCHANGED <<key, deletes>>,
         RowIs("CLOSED")' => row' = row,
         "FINAL" \in files' => /\ "FINAL" \in files
                               /\ UNCHANGED <<row, tokens, branch, receipt>> /\ pushed \subseteq pushed'
  PROVE  ClosedOK'
  BY DEF ClosedOK, FinalEvidence, RowIs

\* Without the final evidence only a closed row says something.
LEMMA NothingFinal ==
  ASSUME RaceOK, run.pc \notin Failing \cup Done \cup {"passed", "preflight"}
  PROVE  "FINAL" \notin files
  BY DEF RaceOK, Failing

\* No move of the runner's closes the row.
LEMMA MovesClose ==
  ASSUME RowMoves, RowIs("CLOSED")'
  PROVE  row' = row
  BY StartShape DEF RowMoves, Idles, RowIs

LEMMA R3Closed ==
  ASSUME World, script = "R3", CausalOK, RaceOK, ClosedOK, row # None => GoodRow(row), RowMoves, R3
  PROVE  ClosedOK'
<1> USE DEF At, Goto, Throws
<1>1. CASE r3_final
  <2>1. /\ run.pc = "offline" /\ UNCHANGED <<key, deletes, tokens, branch, row, receipt>>
        /\ pushed \subseteq pushed'
    BY <1>1 DEF r3_final, Publishes, provider
  <2>2. RowIs("CLOSED") /\ key = "gone" /\ deletes = 1
    BY <2>1 DEF RaceOK, ClosedOK, Closing, Retired
  <2>3. tokens = {}
    <3>1. \A c \in Contender : c \notin tokens
      BY <2>2 DEF RaceOK, RowIs
    <3>2. \A p \in Purpose : p \notin tokens
      BY <2>1 DEF CausalOK, TokensHeld, Opened, Closing, Retired, Purpose
    <3> QED  BY <3>1, <3>2 DEF World, Typed
  <2>4. row.effect_attempts = 1
    BY <2>2, StartShape DEF RowIs
  <2>5. /\ {"POLICY", "MARKER", "RETIREMENT"} \subseteq pushed
        /\ branch = [head |-> "trigger", issued |-> 1]
        /\ receipt["trigger"] = "ACCEPTED"
    BY <2>1 DEF CausalOK, Published, Opened, Closing, Retired, Preparing, Announced
  <2> QED  BY <2>1, <2>2, <2>3, <2>4, <2>5 DEF ClosedOK, FinalEvidence, RowIs
<1>2. CASE r3_preflight
  <2>1. row' = row /\ files' = files /\ pushed' = pushed /\ branch' = branch
    BY <1>2 DEF r3_preflight, evidence
  <2>2. CASE NothingPublished
    <3>1. row = None /\ "FINAL" \notin files
      BY <2>2 DEF NothingPublished, CausalOK, Published
    <3> QED  BY <2>1, <3>1 DEF ClosedOK, RowIs
  <2>3. CASE UNCHANGED <<key, deletes, tokens, inbox, receipt>>
    BY <2>1, <2>3, ClosedKept
  <2> QED  BY <1>2, <2>2, <2>3 DEF r3_preflight
<1>3. CASE r3_createTarget
  <2>1. run.pc = "target-create" /\ row' = row /\ files' = files
    BY <1>3 DEF r3_createTarget, CreatesKey, evidence
  <2>2. row = None /\ "FINAL" \notin files
    BY <2>1, NothingFinal DEF CausalOK, Unopened, Preparing, Failing, Done
  <2> QED  BY <2>1, <2>2 DEF ClosedOK, RowIs
<1>4. CASE r3_cleanupFreshTarget
  <2>1. run.pc = "catch" /\ UNCHANGED <<row, files, pushed, branch, receipt>>
    BY <1>4 DEF r3_cleanupFreshTarget, evidence
  <2>2. CASE FixtureOwned
    <3>1. deletes = 0
      BY <2>1, <2>2 DEF CausalOK, Failing, FixtureOwned
    <3>2. ~RowIs("CLOSED") /\ "FINAL" \notin files
      BY <3>1 DEF ClosedOK, FinalEvidence
    <3> QED  BY <2>1, <3>2 DEF ClosedOK, RowIs
  <2>3. CASE ~FixtureOwned
    BY <1>4, <2>1, <2>3, ClosedKept DEF r3_cleanupFreshTarget
  <2> QED  BY <2>2, <2>3
<1>5. CASE r3_passed
  BY <1>5, ClosedKept DEF r3_passed, Passes, provider, evidence
<1>6. CASE \/ r3_ingressReachability \/ r3_appReadiness \/ r3_t3nReadiness
           \/ r3_mintInstallationToken \/ r3_revokeAndRefuse \/ r3_verifyBaseline \/ r3_freezeLiveExecutionCheckpoint
           \/ r3_commitAndPush \/ r3_remotePolicyReadback \/ r3_verifyTarget \/ r3_triggerSecret
           \/ r3_awaitDelivery \/ r3_deliveryHistory \/ r3_raw \/ r3_readContentDigest \/ r3_process
  <2>1. /\ run.pc \notin Failing \cup Done \cup {"passed", "preflight"}
        /\ UNCHANGED <<key, deletes, row>> /\ ("FINAL" \in files' => "FINAL" \in files)
    BY <1>6 DEF r3_ingressReachability, r3_appReadiness, r3_t3nReadiness,
     r3_mintInstallationToken, r3_revokeAndRefuse, r3_verifyBaseline, r3_freezeLiveExecutionCheckpoint,
     r3_commitAndPush, r3_remotePolicyReadback, r3_verifyTarget, r3_triggerSecret,
     r3_awaitDelivery, r3_deliveryHistory, r3_raw, r3_readContentDigest, r3_process,
     Checks, Mints, Revokes, Publishes, Triggers, RetainsRaw, Processes, provider, evidence, Failing, Done
  <2> QED  BY <2>1, NothingFinal, ClosedKept
<1>7. CASE \/ r3_create \/ r3_readbacks \/ r3_reserve \/ r3_spawn \/ r3_ready \/ r3_aborting \/ r3_results
           \/ r3_effect_ready \/ r3_adjudicate \/ r3_replay \/ r3_reserve_again \/ r3_closed_replay \/ r3_terminal
  <2>1. /\ run.pc \notin Failing \cup Done \cup {"passed", "preflight"}
        /\ UNCHANGED <<key, deletes, files>>
    BY <1>7 DEF r3_create, r3_readbacks, r3_reserve, r3_spawn, r3_ready, r3_aborting, r3_results,
     r3_effect_ready, r3_adjudicate, r3_replay, r3_reserve_again, r3_closed_replay, r3_terminal,
     Checks, Creates, Reserves, Calls, CallsInVain, Spawns, provider, evidence, Failing, Done
  <2> QED  BY <2>1, NothingFinal, MovesClose, ClosedKept
<1> QED  BY <1>1, <1>2, <1>3, <1>4, <1>5, <1>6, <1>7 DEF R3

----------------------------------------------------------------------------
(* The race, under the steps of a contender.                                *)

\* A contender moves itself only, and what the runner and the receiver have stays.
Alone(c) ==
  /\ Running(c)
  /\ UNCHANGED waiting_runner
  /\ \A d \in Contender \ {c} : child'[d] = child[d]

LEMMA BecomesAlone ==
  ASSUME Typed, NEW c \in Contender, NEW s, Becomes(c, s)
  PROVE  \A d \in Contender \ {c} : child'[d] = child[d]
  BY DEF Becomes, Typed

LEMMA MovesAlone ==
  ASSUME Typed, NEW c \in Contender,
         \/ ChildThrows(c)
         \/ \E pc : ChildGoto(c, pc)
         \/ \E ev : Ends(c, ev)
         \/ \E o : Proposed(c, o)
  PROVE  \A d \in Contender \ {c} : child'[d] = child[d]
<1>1. CASE ChildThrows(c)
  BY <1>1, BecomesAlone DEF ChildThrows
<1>2. CASE \E pc : ChildGoto(c, pc)
  <2>1. PICK pc : ChildGoto(c, pc)
    BY <1>2
  <2> QED  BY <2>1, BecomesAlone DEF ChildGoto
<1>3. CASE \E ev : Ends(c, ev)
  <2>1. PICK ev : Ends(c, ev)
    BY <1>3
  <2> DEFINE state == [Off EXCEPT !.pc = "ended", !.file = TRUE, !.ev = ev]
  <2>2. Becomes(c, state)
    BY <2>1, Zenon DEF Ends
  <2> HIDE DEF state
  <2> QED  BY <2>2, BecomesAlone
<1>4. CASE \E o : Proposed(c, o)
  <2>1. PICK o : Proposed(c, o)
    BY <1>4
  <2> DEFINE state == [child[c] EXCEPT !.pc = "proposals", !.file = TRUE, !.claim = o.authority.effect_claim_id,
                                       !.ev.claim_outcome = "CLAIM_PROPOSED", !.ev.claim = "Proposed",
                                       !.ev.claim_state = "EFFECT_CLAIMED", !.ev.claim_proposal = TRUE]
  <2>2. Becomes(c, state)
    BY <2>1, Zenon DEF Proposed
  <2> HIDE DEF state
  <2> QED  BY <2>2, BecomesAlone
<1> QED  BY <1>1, <1>2, <1>3, <1>4

LEMMA AfterKeeps ==
  ASSUME NEW c \in Contender, after(c)
  PROVE  /\ UNCHANGED <<waiting_runner, gate, key, deletes, row>> /\ child[c].pc = "after"
         /\ tokens' \in {tokens, tokens \ {c}}
<1>1. UNCHANGED <<waiting_runner, gate, key, deletes, row>>
  BY DEF after
<1>2. ChildAt(c, "after")
  BY Zenon DEF after
<1>3. tokens' \in {tokens, tokens \ {c}}
  BY Zenon DEF after
<1> QED  BY <1>1, <1>2, <1>3 DEF ChildAt

LEMMA ChildAlone ==
  ASSUME Typed, NEW c \in Contender, ContenderStep(c) \/ die(c)
  PROVE  Alone(c)
<1>0. \A pc \in Waiting : ChildAt(c, pc) => Running(c)
  BY DEF ChildAt, Running
<1>1. CASE connect(c)
  BY <1>0, <1>1, WaitingSteps, MovesAlone DEF connect, Alone
<1>2. CASE await_barrier(c)
  BY <1>0, <1>2, WaitingSteps, MovesAlone DEF await_barrier, Alone
<1>3. CASE claim_effect(c)
  BY <1>0, <1>3, WaitingSteps, MovesAlone DEF claim_effect, Alone
<1>4. CASE await_proposals(c)
  BY <1>0, <1>4, WaitingSteps, MovesAlone DEF await_proposals, Alone
<1>5. CASE confirm_claim_call(c)
  BY <1>0, <1>5, WaitingSteps, MovesAlone, BecomesAlone DEF confirm_claim_call, Alone
<1>6. CASE begin_effect(c)
  BY <1>0, <1>6, WaitingSteps, MovesAlone, BecomesAlone DEF begin_effect, Alone
<1>7. CASE confirm_effect_start_call(c)
  BY <1>0, <1>7, WaitingSteps, MovesAlone DEF confirm_effect_start_call, Alone
<1>8. CASE mint(c)
  BY <1>0, <1>8, WaitingSteps, MovesAlone, BecomesAlone DEF mint, Alone
<1>9. CASE precheck(c)
  BY <1>0, <1>9, WaitingSteps, MovesAlone DEF precheck, Alone
<1>10. CASE hold(c)
  BY <1>0, <1>10, WaitingSteps, MovesAlone DEF hold, Alone
<1>11. CASE delete_key(c)
  BY <1>0, <1>11, WaitingSteps, BecomesAlone DEF delete_key, Alone
<1>12. CASE after(c)
  <2>1. (\E ev : Ends(c, ev)) \/ \E s : Becomes(c, s)
    BY <1>12, Zenon DEF after
  <2> QED  BY <1>0, <1>12, <2>1, AfterKeeps, WaitingSteps, MovesAlone, BecomesAlone DEF Alone, ChildAt
<1>13. CASE finalize_unknown(c)
  BY <1>0, <1>13, WaitingSteps, MovesAlone DEF finalize_unknown, Alone
<1>14. CASE settle(c)
  BY <1>0, <1>14, WaitingSteps, MovesAlone DEF settle, Alone
<1>15. CASE finally(c)
  BY <1>0, <1>15, WaitingSteps, MovesAlone DEF finally, Alone
<1>16. CASE die(c)
  BY <1>16, BecomesAlone DEF die, Alone, Running
<1> QED  BY <1>1, <1>2, <1>3, <1>4, <1>5, <1>6, <1>7, <1>8, <1>9, <1>10, <1>11, <1>12, <1>13, <1>14, <1>15,
            <1>16 DEF ContenderStep

\* There is one owner.
LEMMA OneOwnerOfStart ==
  ASSUME NEW c \in Contender, NEW d \in Contender, IsOwner(c), IsOwner(d)
  PROVE  c = d
  BY DEF IsOwner

\* What a contender step has to leave, beside what it cannot touch.
Leaves(c) ==
  /\ Typed'
  /\ deletes' \in 0..1
  /\ GoodRow(row')
  /\ tokens' \in {tokens, tokens \cup {c}, tokens \ {c}}
  /\ RowIs("CLOSED")' => key' = "gone" /\ deletes' = 1
  /\ Running(c)' => ContenderOK(c)'
  /\ \A d \in Contender \ {c} : Running(d) => ContenderOK(d)'
  /\ \A d \in Contender : d \in tokens' => IsOwner(d)' /\ row'.status # "CLOSED"

\* Steps before the start that leave the row.
LEMMA EarlyLeaves ==
  ASSUME World, RaceOK, ClosedOK, GoodRow(row), NEW c \in Contender, Alone(c),
         \/ connect(c) \/ await_barrier(c) \/ await_proposals(c) \/ confirm_claim_call(c) \/ die(c)
  PROVE  Leaves(c)
<1>1. Typed' /\ child'[c].pc \in {"barrier", "claim", "confirm", "begin", "ended"}
  BY ConnectTyped, BarrierTyped, ProposalsTyped, ConfirmTyped, DiesTyped DEF World
<1>2. /\ UNCHANGED <<row, key, deletes, tokens>>
      /\ gate'.effect = gate.effect /\ gate'.release = gate.release
  BY DEF connect, await_barrier, await_proposals, confirm_claim_call, die, World, Typed, Gate
<1>3. child'[c].pc # "ended" => child[c].pc \notin Sent
  <2>1. ~die(c) => child[c].pc \in {"connect", "barrier", "proposals", "confirm"}
    BY DEF connect, await_barrier, await_proposals, confirm_claim_call, ChildAt
  <2>2. die(c) => child'[c].pc = "ended"
    BY DiesTyped DEF World
  <2> QED  BY <2>1, <2>2 DEF Sent
<1>4. ContenderOK(c) /\ \A d \in Contender \ {c} : Running(d) => ContenderOK(d)
  BY DEF RaceOK, Alone
<1>5. \A d : IsOwner(d)' <=> IsOwner(d)
  BY <1>2 DEF IsOwner
<1>6. Running(c)' => ContenderOK(c)'
  BY <1>1, <1>2, <1>3, <1>4, <1>5, WaitingSteps DEF Running, ContenderOK, Armed, Sent, Alone, waiting_runner, evidence
<1>7. \A d \in Contender \ {c} : Running(d) => ContenderOK(d)'
  BY <1>2, <1>4, <1>5 DEF ContenderOK, Alone, waiting_runner, evidence
<1> QED  BY <1>1, <1>2, <1>5, <1>6, <1>7 DEF Leaves, World, RaceOK, ClosedOK, RowIs

LEMMA ClaimLeaves ==
  ASSUME World, RaceOK, ClosedOK, GoodRow(row), NEW c \in Contender, Alone(c),
         claim_effect(c)
  PROVE  Leaves(c)
<1>1. Typed' /\ child'[c].pc \in {"proposals", "ended"}
  BY ClaimTyped DEF World
<1>2. UNCHANGED <<gate, key, deletes, tokens>> /\ child[c].pc = "claim"
  BY DEF claim_effect, ChildAt
<1>3. Idles(row, row')
  <2>1. PICK now \in U64 : row' \in {row, Stored(claim_with_nonce(row, Broker, now, 0, c))}
    BY DEF claim_effect
  <2>2. Idles(row, Stored(claim_with_nonce(row, Broker, now, 0, c)))
    BY ClaimIdles
  <2> QED  BY <2>1, <2>2 DEF Idles
<1>4. ContenderOK(c) /\ \A d \in Contender \ {c} : Running(d) => ContenderOK(d)
  BY DEF RaceOK, Alone
<1>5. \A d : IsOwner(d)' <=> IsOwner(d)
  BY <1>3, StartShape DEF IsOwner, Idles
<1>6. GoodRow(row') /\ row' # None /\ (RowIs("CLOSED")' => row' = row)
  BY <1>3, StartShape DEF Idles, RowIs
<1>7. row' # row => /\ \A d : ~IsOwner(d)
                    /\ deletes = 0
  BY <1>3, <1>4 DEF Idles, IsOwner, ContenderOK
<1>8. Running(c)' => ContenderOK(c)'
  BY <1>1, <1>2, <1>4, <1>5, <1>6, <1>7, WaitingSteps
  DEF Running, ContenderOK, Armed, Sent, Alone, waiting_runner, evidence
<1>9. \A d \in Contender \ {c} : Running(d) => ContenderOK(d)'
  BY <1>2, <1>4, <1>5, <1>6, <1>7 DEF ContenderOK, Alone, waiting_runner, evidence, Armed, Sent
<1>10. \A d \in Contender : d \in tokens' => IsOwner(d)' /\ row'.status # "CLOSED"
  BY <1>2, <1>5, <1>7 DEF RaceOK
<1> QED  BY <1>1, <1>2, <1>6, <1>8, <1>9, <1>10 DEF Leaves, World, ClosedOK, RowIs

\* The start is made: nobody had one, so nobody holds a token and nothing was sent.
LEMMA BeginLeaves ==
  ASSUME World, RaceOK, ClosedOK, GoodRow(row), NEW c \in Contender, Alone(c),
         begin_effect(c)
  PROVE  Leaves(c)
<1>1. /\ Typed'
      /\ \/ child'[c].pc = "ended"
         \/ child'[c].pc = "confirm-start" /\ child'[c].start \in StateId /\ child'[c].start.nonce = c
      /\ row' = row \/ Starts(row, row', c)
  BY BeginTyped DEF World
<1>2. UNCHANGED <<gate, key, deletes, tokens>> /\ child[c].pc = "begin"
  BY DEF begin_effect, ChildAt
<1>3. ContenderOK(c) /\ \A d \in Contender \ {c} : Running(d) => ContenderOK(d)
  BY DEF RaceOK, Alone
<1>4. row' # row => /\ \A d : ~IsOwner(d)
                    /\ deletes = 0
                    /\ row'.status = "EFFECT_STARTED"
  BY <1>1, <1>3 DEF Starts, IsOwner, ContenderOK
<1>5. GoodRow(row') /\ row' # None
  BY <1>1, StartShape DEF Starts
<1>6. row' = row => \A d : IsOwner(d)' <=> IsOwner(d)
  BY DEF IsOwner
<1>7. child'[c].pc = "confirm-start" => child'[c].start # None
  BY <1>1, AssumptionsHold DEF Assumptions
<1>8. Running(c)' => ContenderOK(c)'
  BY <1>1, <1>2, <1>3, <1>4, <1>5, <1>6, <1>7
  DEF Running, Waiting, ContenderOK, Armed, Sent, Alone, waiting_runner, evidence
<1>9. \A d \in Contender \ {c} : Running(d) => ContenderOK(d)'
  BY <1>2, <1>3, <1>4, <1>5, <1>6 DEF ContenderOK, Alone, waiting_runner, evidence, Armed, Sent
<1>10. \A d \in Contender : d \in tokens' => IsOwner(d)' /\ row'.status # "CLOSED"
  BY <1>2, <1>4, <1>6 DEF RaceOK
<1> QED  BY <1>1, <1>2, <1>4, <1>5, <1>8, <1>9, <1>10 DEF Leaves, World, ClosedOK, RowIs

\* The owner of the start works alone.
LEMMA OwnerLeaves ==
  ASSUME World, RaceOK, ClosedOK, GoodRow(row), NEW c \in Contender, Alone(c),
         \/ confirm_effect_start_call(c) \/ mint(c) \/ precheck(c) \/ hold(c)
         \/ delete_key(c) \/ after(c) \/ finally(c)
  PROVE  Leaves(c)
<1>0. ContenderOK(c) /\ \A d \in Contender \ {c} : Running(d) => ContenderOK(d)
  BY DEF RaceOK, Alone
<1>1. row' = row /\ \A d : IsOwner(d)' <=> IsOwner(d)
  <2>1. CASE confirm_effect_start_call(c) \/ mint(c) \/ precheck(c) \/ hold(c)
    BY <2>1 DEF confirm_effect_start_call, mint, precheck, hold, IsOwner
  <2>2. CASE delete_key(c) \/ finally(c)
    BY <2>2 DEF delete_key, finally, IsOwner
  <2>3. CASE after(c)
    BY <2>3, AfterKeeps DEF IsOwner
  <2> QED  BY <2>1, <2>2, <2>3
<1>2. row # None /\ row' # None
  BY <1>1, StartShape
<1>4. CASE confirm_effect_start_call(c)
  <2>1. /\ Typed'
        /\ \/ child'[c].pc = "ended"
           \/ child'[c].pc = "mint" /\ child'[c].start = child[c].start
    BY <1>4, ConfirmStartTyped DEF World
  <2>2. UNCHANGED <<gate, key, deletes, tokens>> /\ child[c].pc = "confirm-start"
    BY <1>4 DEF confirm_effect_start_call, ChildAt
  <2>3. child'[c].pc = "mint" => row.effect_start_id = child[c].start /\ row.status = "EFFECT_STARTED"
    BY <1>4, <2>1, ChildTyped, EndsTyped
    DEF confirm_effect_start_call, confirm_effect_start, OwnsStart, World
  <2>4. child'[c].pc = "mint" => IsOwner(c) /\ deletes = 0
    BY <1>0, <1>2, <2>2, <2>3 DEF ContenderOK, IsOwner, Sent
  <2>5. Running(c)' => ContenderOK(c)'
    BY <1>0, <1>1, <2>1, <2>2, <2>3, <2>4 DEF Running, Waiting, ContenderOK, Armed, Sent, Alone, waiting_runner, evidence
  <2>6. \A d \in Contender \ {c} : Running(d) => ContenderOK(d)'
    BY <1>0, <1>1, <2>2 DEF ContenderOK, Alone, waiting_runner, evidence
  <2> QED  BY <1>1, <2>1, <2>2, <2>5, <2>6 DEF Leaves, World, RaceOK, ClosedOK, RowIs
<1>5. CASE mint(c) \/ after(c) \/ finally(c)
  <2>1. /\ Typed'
        /\ \/ child'[c].pc = "ended"
           \/ child[c].pc = "mint" /\ child'[c].pc = "precheck" /\ child'[c].start = child[c].start /\ c \in tokens'
           \/ /\ child[c].pc = "after" /\ child'[c].pc \in {"finalize-unknown", "settle"}
              /\ child'[c].start = child[c].start /\ c \notin tokens'
    <3>1. mint(c) => child[c].pc = "mint"
      BY DEF mint, ChildAt
    <3>2. after(c) => child[c].pc = "after"
      BY AfterKeeps
    <3> QED  BY <1>5, <3>1, <3>2, MintTyped, AfterTyped, FinallyTyped DEF World
  <2>2. /\ UNCHANGED <<gate, key, deletes>> /\ child[c].pc \in {"mint", "after", "finally"}
        /\ tokens' \in {tokens, tokens \cup {c}, tokens \ {c}}
        /\ tokens' = tokens \cup {c} => child[c].pc = "mint" \/ c \in tokens
    <3>1. CASE mint(c)
      BY <3>1 DEF mint, ChildAt
    <3>2. CASE after(c)
      BY <3>2, AfterKeeps
    <3>3. CASE finally(c)
      BY <3>3 DEF finally, ChildAt
    <3> QED  BY <1>5, <3>1, <3>2, <3>3
  <2>3. IsOwner(c) /\ row.effect_start_id = child[c].start /\ (child[c].pc = "mint" => row.status # "CLOSED")
    BY <1>0, <2>2 DEF ContenderOK, Armed, Sent
  <2>4. Running(c)' => ContenderOK(c)'
    BY <1>0, <1>1, <2>1, <2>2, <2>3 DEF Running, Waiting, ContenderOK, Armed, Sent, Alone, waiting_runner, evidence
  <2>5. \A d \in Contender \ {c} : d \in tokens' <=> d \in tokens
    BY <2>2
  <2>6. \A d \in Contender \ {c} : Running(d) => ContenderOK(d)'
    BY <1>0, <1>1, <2>2, <2>5 DEF ContenderOK, Alone, waiting_runner, evidence
  <2>7. \A d \in Contender : d \in tokens' => IsOwner(d)' /\ row'.status # "CLOSED"
    BY <1>1, <2>2, <2>3 DEF RaceOK
  <2> QED  BY <1>1, <2>1, <2>2, <2>4, <2>6, <2>7 DEF Leaves, World, ClosedOK, RowIs
<1>6. CASE precheck(c) \/ hold(c)
  <2>1. /\ Typed' /\ child'[c].start = child[c].start
        /\ \/ /\ child[c].pc = "precheck" /\ child'[c].pc = "hold" /\ key = "present"
              /\ gate'.effect = child[c].start /\ gate'.release = gate.release
           \/ child[c].pc = "hold" /\ child'[c].pc = "delete" /\ gate.release /\ gate' = gate
           \/ child'[c].pc = "finally" /\ gate' = gate
    <3>1. [gate EXCEPT !.effect = child[c].start].effect = child[c].start
      BY DEF World, Typed, Gate
    <3>2. [gate EXCEPT !.effect = child[c].start].release = gate.release
      BY DEF World, Typed, Gate
    <3>3. hold(c) => gate' = gate /\ child[c].pc = "hold"
      BY DEF hold, ChildAt
    <3>4. precheck(c) => child[c].pc = "precheck"
      BY DEF precheck, ChildAt
    <3> QED  BY <1>6, <3>1, <3>2, <3>3, <3>4, PrecheckTyped, HoldTyped DEF World
  <2>2. UNCHANGED <<key, deletes, tokens>> /\ child[c].pc \in {"precheck", "hold"}
    BY <1>6 DEF precheck, hold, ChildAt
  <2>3. IsOwner(c) /\ deletes = 0
    BY <1>0, <2>2 DEF ContenderOK, Armed
  <2>4. Running(c)' => ContenderOK(c)'
    BY <1>0, <1>1, <2>1, <2>2, <2>3 DEF ContenderOK, Armed, Sent, Alone, waiting_runner, evidence
  <2>5. \A d \in Contender \ {c} : Running(d) => child[d].pc \notin Armed \cup Sent \cup {"finally"}
    BY <1>0, <2>3, OneOwnerOfStart DEF ContenderOK
  <2>6. \A d \in Contender \ {c} : Running(d) => ContenderOK(d)'
    BY <1>0, <1>1, <2>2, <2>5 DEF ContenderOK, Alone, waiting_runner, evidence, Armed, Sent
  <2> QED  BY <1>1, <2>1, <2>2, <2>4, <2>6 DEF Leaves, World, RaceOK, ClosedOK, RowIs
<1>7. CASE delete_key(c)
  <2>1. Typed' /\ child'[c].pc = "after" /\ child'[c].start = child[c].start
    BY <1>7, DeleteTyped DEF World
  <2>2. UNCHANGED <<gate, tokens>> /\ child[c].pc = "delete" /\ deletes' = deletes + 1
    BY <1>7 DEF delete_key, ChildAt
  <2>3. IsOwner(c) /\ row.effect_start_id = child[c].start /\ row.status = "EFFECT_STARTED" /\ deletes = 0
    BY <1>0, <2>2 DEF ContenderOK, Armed
  <2>4. deletes' = 1 /\ deletes' \in 0..1
    BY <2>2, <2>3
  <2>5. Running(c)' => ContenderOK(c)'
    BY <1>0, <1>1, <2>1, <2>3, <2>4 DEF ContenderOK, Armed, Sent, Alone, waiting_runner, evidence, IsOwner
  <2>6. \A d \in Contender \ {c} : ~IsOwner(d)
    BY <2>3, OneOwnerOfStart
  <2>7. \A d \in Contender \ {c} : Running(d) => ContenderOK(d)'
    BY <1>0, <1>1, <2>2, <2>3, <2>6 DEF ContenderOK, Alone, waiting_runner, evidence, Armed, Sent, IsOwner
  <2> QED  BY <1>1, <2>1, <2>2, <2>3, <2>4, <2>5, <2>7 DEF Leaves, World, RaceOK, RowIs
<1> QED  BY <1>4, <1>5, <1>6, <1>7

\* The DELETE was sent and the token is revoked: the outcome is settled.
LEMMA SettleLeaves ==
  ASSUME World, RaceOK, ClosedOK, GoodRow(row), NEW c \in Contender, Alone(c),
         finalize_unknown(c) \/ settle(c)
  PROVE  Leaves(c)
<1>0. ContenderOK(c) /\ \A d \in Contender \ {c} : Running(d) => ContenderOK(d)
  BY DEF RaceOK, Alone
<1>1. /\ Typed'
      /\ \/ child'[c].pc = "ended"
         \/ child'[c].pc = "settle" /\ child'[c].start = child[c].start
      /\ Settles(row, row', child[c].start)
      /\ RowIs("CLOSED")' => RowIs("CLOSED") \/ key = "gone"
  BY FinalizeUnknownTyped, SettleTyped, StartShape DEF World, RowIs
<1>2. UNCHANGED <<gate, key, deletes, tokens>> /\ child[c].pc \in {"finalize-unknown", "settle"}
  BY DEF finalize_unknown, settle, ChildAt
<1>3. /\ IsOwner(c) /\ row.effect_start_id = child[c].start /\ deletes = 1 /\ c \notin tokens
  BY <1>0, <1>2 DEF ContenderOK, Sent
<1>4. GoodRow(row') /\ row' # None /\ row'.effect_start_id = row.effect_start_id
  BY <1>1, <1>3, StartShape DEF Settles
<1>5. \A d : IsOwner(d)' <=> IsOwner(d)
  BY <1>4, StartShape DEF IsOwner
<1>6. \A d \in Contender \ {c} : ~IsOwner(d)
  BY <1>3, OneOwnerOfStart
<1>7. Running(c)' => ContenderOK(c)'
  BY <1>0, <1>1, <1>2, <1>3, <1>4, <1>5 DEF Running, Waiting, ContenderOK, Armed, Sent, Alone, waiting_runner, evidence
<1>8. \A d \in Contender \ {c} : Running(d) => ContenderOK(d)'
  BY <1>0, <1>2, <1>4, <1>5, <1>6 DEF ContenderOK, Alone, waiting_runner, evidence, Armed, Sent
<1>9. \A d \in Contender : d \notin tokens'
  BY <1>2, <1>3, <1>6 DEF RaceOK
<1> QED  BY <1>1, <1>2, <1>3, <1>4, <1>7, <1>8, <1>9 DEF Leaves, World, ClosedOK

LEMMA Alternatives ==
  ASSUME World, RaceOK, ClosedOK, GoodRow(row), NEW c \in Contender, ContenderStep(c) \/ die(c)
  PROVE  Alone(c) /\ Leaves(c)
<1>1. Alone(c)
  BY ChildAlone DEF World
<1>2. Leaves(c)
  BY <1>1, EarlyLeaves, ClaimLeaves, BeginLeaves, OwnerLeaves, SettleLeaves DEF ContenderStep
<1> QED  BY <1>1, <1>2

\* What a contender leaves keeps the race, the way of the runner, and the evidence.
LEMMA R3Child ==
  ASSUME World, script = "R3", CausalOK, RaceOK, ClosedOK, row # None => GoodRow(row),
         NEW c \in Contender, ContenderStep(c) \/ die(c)
  PROVE  /\ World' /\ CausalOK' /\ RaceOK' /\ ClosedOK'
         /\ GoodRow(row') /\ script' = script /\ run' = run
<1>1. Running(c)
  BY ChildAlone DEF Alone, World
<1>2. /\ row # None /\ run.created /\ run.pc \in Racing \cup Failing \cup Done
      /\ "FINAL" \notin files
  BY <1>1 DEF RaceOK, ContenderOK, NobodyRuns
<1>3. Alone(c) /\ Leaves(c)
  BY <1>2, Alternatives
<1>4. /\ UNCHANGED <<script, run, branch, receipt, files, pushed>>
      /\ row' # None
  BY <1>3, StartShape DEF Alone, Leaves, waiting_runner, evidence
<1>5. World'
  BY <1>3, <1>4 DEF World, Leaves
<1>6. CausalOK'
  <2>1. \A p \in Purpose : p \in tokens' <=> p \in tokens
    BY <1>3, PurposeTokens DEF Leaves
  <2>2. run.pc \notin Unopened \cup Incipient
    BY <1>2 DEF Unopened, Incipient, Racing, Failing, Done, Preparing, Announced, Marked, Triggered, Opening
  <2>3. Published' <=> Published
    BY <1>2, <1>4 DEF Published
  <2>4. TokensHeld' <=> TokensHeld
    BY <1>4, <2>1 DEF TokensHeld, Purpose
  <2> QED  BY <1>2, <1>4, <2>2, <2>3, <2>4 DEF CausalOK
<1>7. RaceOK'
  <2>1. \A d \in Contender : Running(d)' => ContenderOK(d)'
    BY <1>3 DEF Alone, Leaves, Running
  <2>2. run.pc \notin Closing
    BY <1>2 DEF Closing, Retired, Racing, Failing, Done
  <2> QED  BY <1>2, <1>3, <1>4, <2>1, <2>2 DEF RaceOK, Leaves
<1>8. ClosedOK'
  BY <1>2, <1>3, <1>4 DEF ClosedOK, Leaves
<1> QED  BY <1>3, <1>4, <1>5, <1>6, <1>7, <1>8 DEF Leaves

----------------------------------------------------------------------------
(* The invariant, under the steps of a causal run.                          *)

\* A runner that has ended takes no step.
LEMMA R3Alive ==
  ASSUME R3
  PROVE  run.pc \notin Done
<1>1. CASE \/ r3_preflight \/ r3_ingressReachability \/ r3_appReadiness \/ r3_t3nReadiness
           \/ r3_mintInstallationToken \/ r3_revokeAndRefuse \/ r3_verifyBaseline \/ r3_freezeLiveExecutionCheckpoint
           \/ r3_createTarget \/ r3_commitAndPush \/ r3_remotePolicyReadback \/ r3_verifyTarget \/ r3_triggerSecret
           \/ r3_awaitDelivery \/ r3_deliveryHistory \/ r3_raw \/ r3_readContentDigest \/ r3_process
  BY <1>1 DEF r3_preflight, r3_ingressReachability, r3_appReadiness, r3_t3nReadiness,
     r3_mintInstallationToken, r3_revokeAndRefuse, r3_verifyBaseline, r3_freezeLiveExecutionCheckpoint,
     r3_createTarget, r3_commitAndPush, r3_remotePolicyReadback, r3_verifyTarget, r3_triggerSecret,
     r3_awaitDelivery, r3_deliveryHistory, r3_raw, r3_readContentDigest, r3_process,
     Checks, Mints, Revokes, CreatesKey, Publishes, Triggers, RetainsRaw, Processes, At, Done
<1>2. CASE \/ r3_create \/ r3_readbacks \/ r3_reserve
           \/ r3_spawn \/ r3_ready \/ r3_aborting \/ r3_results \/ r3_effect_ready \/ r3_adjudicate
           \/ r3_replay \/ r3_reserve_again \/ r3_closed_replay \/ r3_terminal \/ r3_final \/ r3_passed
           \/ r3_cleanupFreshTarget
  BY <1>2 DEF r3_create, r3_readbacks, r3_reserve, r3_spawn, r3_ready, r3_aborting, r3_results, r3_effect_ready,
     r3_adjudicate, r3_replay, r3_reserve_again, r3_closed_replay, r3_terminal, r3_final, r3_passed,
     r3_cleanupFreshTarget, Creates, Checks, Reserves, Calls, CallsInVain, Spawns, Publishes, Passes, At, Done
<1> QED  BY <1>1, <1>2 DEF R3

LEMMA R1Alive ==
  ASSUME R1
  PROVE  run.pc \notin Done
  BY DEF R1, r1_preflight, r1_stopExistingB0Receiver, r1_ingressReachability, r1_appReadiness, r1_t3nReadiness,
     r1_mintInstallationToken, r1_revokeAndRefuse, r1_verifyBaseline, r1_checkpoint, r1_generateKeyAndStage,
     r1_createTarget, r1_commitAndPush, r1_remotePolicyReadback, r1_verifyTarget, r1_triggerSecret,
     r1_awaitDelivery, r1_deliveryHistory, r1_raw, r1_readContentDigest, r1_process, r1_cleanupFreshTarget,
     Checks, Mints, Revokes, CreatesKey, Publishes, Triggers, RetainsRaw, Processes, At, Done

LEMMA B1Alive ==
  ASSUME B1
  PROVE  run.pc \notin Done
  BY DEF B1, b1_preflight, b1_verifyIngress, b1_appReadback, b1_verifyBaseline, b1_generateKeyAndStage,
     b1_mintInstallationToken, b1_createAndVerifyTarget, b1_revokeAndProbe, b1_commitAndPush,
     b1_remotePolicyReadback, b1_verifyTargetWithPat, b1_secretTrigger, b1_awaitRealDelivery, b1_deliveryHistory,
     b1_readContentDigest, b1_derive, b1_completed, b1_catch,
     Checks, Keeps, Surrenders, CreatesKey, Publishes, Triggers, Passes, At, Done

\* The parts of the invariant.
RowOK == row # None => GoodRow(row)

PassedOK == run.passed => run.pc = "ended" /\ Reported

ScriptOK ==
  /\ script \in Causal => CausalOK
  /\ script = "B1" => RemainingOK
  /\ script = "R3" => RaceOK
  /\ script \in {"R1", "B1"} => NobodyRuns /\ tokens \subseteq Purpose
  /\ script \in {"R3", "R2B"} => ClosedOK
  /\ script = "R2B" => ReplayOK
  /\ script \in {"R4C", "R4D", "R4DR1", "R4E"} => ProofOK
  /\ script \in {"R4C", "R4DR1"} => ClaimRaceOK
  /\ script = "R4D" => StartOK
  /\ script = "R4E" => ProviderOK

Parts == script \in Script /\ World /\ RowOK /\ PassedOK /\ ScriptOK

LEMMA PartsOfInvariant ==
  ASSUME IInv
  PROVE  Parts /\ row \in IncidentAuthority \cup {None}
<1>1. World
  BY DEF IInv, TypeOK, OneTrigger, World, Typed
<1>2. RowOK /\ row \in IncidentAuthority \cup {None}
  BY DEF IInv, TypeOK, RowOK, GoodRow
<1>3. PassedOK /\ ScriptOK /\ script \in Script
  BY DEF IInv, PassedOK, ScriptOK
<1> QED  BY <1>1, <1>2, <1>3 DEF Parts

LEMMA InvariantOfParts ==
  ASSUME Parts'
  PROVE  IInv'
<1>1. script' \in Script /\ World' /\ RowOK' /\ PassedOK' /\ ScriptOK'
  BY DEF Parts
<1>2. TypeOK'
  BY <1>1 DEF TypeOK, World, Typed, RowOK, GoodRow
<1>3. OneTrigger' /\ receipt'["other"] # "ACCEPTED"
  BY <1>1 DEF OneTrigger, World
<1>4. row' # None => valid_shape(row)'
  BY <1>1 DEF RowOK, GoodRow
<1> QED  BY <1>1, <1>2, <1>3, <1>4 DEF IInv, PassedOK, ScriptOK

LEMMA R3Preserves ==
  ASSUME Parts, row \in IncidentAuthority \cup {None}, script = "R3", R3
  PROVE  Parts'
<1>1. World /\ CausalOK /\ RaceOK /\ ClosedOK /\ RowOK
  BY DEF Parts, ScriptOK, Causal
<1>2. RowMoves
  BY <1>1, R3Row DEF RowOK, CausalOK
<1>3. RowOK' /\ (row # None => row' # None)
  BY <1>1, <1>2, StartShape DEF RowOK, RowMoves, Idles
<1>4. World' /\ script' = script /\ (run'.passed = run.passed \/ r3_passed)
  BY <1>1, R3World
<1>5. CausalOK'
  BY <1>1, <1>2, <1>3, R3Way DEF World, ClosedOK
<1>6. RaceOK' /\ ClosedOK'
  BY <1>1, <1>2, R3Race, R3Closed DEF RowOK
<1>7. PassedOK'
  <2>1. ~run.passed
    BY R3Alive DEF Parts, PassedOK, Done
  <2>2. r3_passed => run'.pc = "ended"
    BY <1>1, PassesRun DEF r3_passed, World, Typed
  <2> QED  BY <1>4, <2>1, <2>2 DEF PassedOK, Reported
<1> QED  BY <1>3, <1>4, <1>5, <1>6, <1>7 DEF Parts, ScriptOK

LEMMA R1Preserves ==
  ASSUME Parts, script = "R1", R1
  PROVE  Parts'
<1>1. World /\ CausalOK /\ RowOK /\ NobodyRuns /\ tokens \subseteq Purpose
  BY DEF Parts, ScriptOK, Causal
<1>2. /\ World' /\ script' = script /\ row' = row /\ child' = child
      /\ tokens' \subseteq tokens \cup Purpose /\ run'.passed = run.passed
  BY <1>1, R1World
<1>3. CausalOK'
  BY <1>1, R1Way DEF World
<1>4. PassedOK'
  BY <1>2, R1Alive DEF Parts, PassedOK, Done
<1>5. NobodyRuns' /\ tokens' \subseteq Purpose
  BY <1>1, <1>2 DEF NobodyRuns, Running
<1> QED  BY <1>1, <1>2, <1>3, <1>4, <1>5 DEF Parts, ScriptOK, RowOK

LEMMA B1Preserves ==
  ASSUME Parts, script = "B1", B1
  PROVE  Parts'
<1>1. World /\ CausalOK /\ RemainingOK /\ RowOK /\ NobodyRuns /\ tokens \subseteq Purpose
  BY DEF Parts, ScriptOK, Causal
<1>2. /\ World' /\ script' = script /\ row' = row /\ child' = child
      /\ tokens' \subseteq tokens \cup Purpose /\ (run'.passed = run.passed \/ b1_completed)
  BY <1>1, B1World
<1>3. CausalOK' /\ RemainingOK'
  BY <1>1, B1Way, B1Remains DEF World
<1>4. PassedOK'
  <2>1. ~run.passed
    BY B1Alive DEF Parts, PassedOK, Done
  <2>2. CASE b1_completed
    <3>1. run.pc = "completed" /\ UNCHANGED <<key, deletes, tokens, pushed, branch>>
      BY <2>2 DEF b1_completed, Passes, At, provider, evidence
    <3>2. run'.pc = "ended"
      BY <1>1, <2>2, PassesRun DEF b1_completed, World, Typed
    <3>3. key = "present" /\ "FINAL" \in pushed
      BY <1>1, <3>1 DEF RemainingOK, Triggered
    <3>4. /\ deletes = 0 /\ {"POLICY", "MARKER"} \subseteq pushed
          /\ branch = [head |-> "trigger", issued |-> 1]
      BY <1>1, <3>1 DEF CausalOK, Published, Unopened, Triggered, Preparing, Announced
    <3>5. tokens = {}
      BY <1>1, <3>1 DEF CausalOK, TokensHeld, Unopened, Triggered, Purpose
    <3> QED  BY <1>2, <3>1, <3>2, <3>3, <3>4, <3>5 DEF PassedOK, Reported, RowIs
  <2> QED  BY <1>2, <2>1, <2>2 DEF PassedOK
<1>5. NobodyRuns' /\ tokens' \subseteq Purpose
  BY <1>1, <1>2 DEF NobodyRuns, Running
<1> QED  BY <1>1, <1>2, <1>3, <1>4, <1>5 DEF Parts, ScriptOK, RowOK

LEMMA R3ChildPreserves ==
  ASSUME Parts, script = "R3", NEW c \in Contender, ContenderStep(c) \/ die(c)
  PROVE  Parts'
<1>1. World /\ CausalOK /\ RaceOK /\ ClosedOK /\ (row # None => GoodRow(row))
  BY DEF Parts, ScriptOK, Causal, RowOK
<1>2. /\ World' /\ CausalOK' /\ RaceOK' /\ ClosedOK'
      /\ GoodRow(row') /\ script' = script /\ run' = run
  BY <1>1, R3Child
<1>3. PassedOK'
  BY <1>2 DEF Parts, PassedOK, Reported
<1> QED  BY <1>2, <1>3 DEF Parts, ScriptOK, RowOK

----------------------------------------------------------------------------
(* The invariant, under deliveries, crashes and launches.                   *)

\* A delivery moves the receiver, and a receipt that was not there.
LEMMA DeliversPreserves ==
  ASSUME Parts, script \in Causal, NEW reserves \in BOOLEAN, reserves => script # "R3", Delivers(reserves)
  PROVE  Parts'
<1>1. World'
  BY DeliversWorld DEF Parts
<1>2. /\ run.pc \in {"await", "history", "raw"}
      /\ UNCHANGED <<script, run, key, deletes, tokens, branch, row, files, pushed, gate, child>>
      /\ ~reserves => receipt' = receipt
  <2>1. /\ run.pc \in {"await", "history", "raw"}
        /\ UNCHANGED <<script, run, provider, row, evidence, gate, child>>
    BY Zenon DEF Delivers
  <2>2. \/ UNCHANGED receipt
        \/ \E d \in Delivery :
             receipt' = IF reserves /\ receipt[d] = "none" THEN [receipt EXCEPT ![d] = "RESERVED"] ELSE receipt
    BY Zenon DEF Delivers
  <2>3. ~reserves => receipt' = receipt
    BY Zenon, <2>2
  <2> QED  BY <2>1, <2>3 DEF provider, evidence
<1>3. ~run.passed
  BY <1>2 DEF Parts, PassedOK
<1>4. CausalOK'
  <2>1. CausalOK
    BY DEF Parts, ScriptOK
  <2>2. Published' <=> Published
    BY <1>2 DEF Published
  <2>3. TokensHeld' <=> TokensHeld
    BY <1>2 DEF TokensHeld
  <2> QED  BY <1>2, <2>1, <2>2, <2>3 DEF CausalOK, Opening, Opened, Incipient, Racing, Closing, Retired
<1>5. RemainingOK' <=> RemainingOK
  BY <1>2 DEF RemainingOK
<1>6. RaceOK' <=> RaceOK
  BY <1>2 DEF RaceOK, Running, NobodyRuns, ContenderOK, IsOwner, RowIs
<1>7. script = "R3" => (ClosedOK' <=> ClosedOK)
  BY <1>2 DEF ClosedOK, FinalEvidence, RowIs
<1>8. NobodyRuns' <=> NobodyRuns
  BY <1>2 DEF NobodyRuns, Running
<1> QED  BY <1>1, <1>2, <1>3, <1>4, <1>5, <1>6, <1>7, <1>8 DEF Parts, ScriptOK, Causal, RowOK, PassedOK

\* The replay's receiver moves itself only.
LEMMA ReplayReceiverPreserves ==
  ASSUME Parts, script = "R2B", r2b_createR2BReplayWebhookServer
  PROVE  Parts'
<1>1. /\ run.pc \in {"await", "history"}
      /\ UNCHANGED <<script, run, key, deletes, tokens, branch, row, receipt, files, pushed, gate, child>>
  BY DEF r2b_createR2BReplayWebhookServer, Arrives, Captures, provider, evidence
<1>2. inbox' \in Inbox
  <2>1. inbox \in Inbox /\ "trigger" \in Delivery
    BY DEF Parts, World, Typed, Delivery
  <2>2. CASE Arrives
    <3>1. PICK copy \in Delivery : inbox' = [inbox EXCEPT !.handling = @ \cup {copy}]
      BY <2>2 DEF Arrives
    <3> QED  BY <2>1, <3>1 DEF Inbox
  <2>3. CASE Captures
    <3>1. PICK copy \in inbox.handling :
            inbox' = [inbox EXCEPT !.latest = "trigger", !.capture = "trigger", !.handling = @ \ {copy}]
      BY <2>3 DEF Captures
    <3> QED  BY <2>1, <3>1 DEF Inbox
  <2> QED  BY <2>2, <2>3 DEF r2b_createR2BReplayWebhookServer
<1>3. World'
  BY <1>1, <1>2 DEF Parts, World, Typed
<1>4. ClosedOK' <=> ClosedOK
  BY <1>1 DEF ClosedOK, FinalEvidence, RowIs
<1>5. ReplayOK' <=> ReplayOK
  BY <1>1 DEF ReplayOK, NobodyRuns, Running, RowIs
<1> QED  BY <1>1, <1>3, <1>4, <1>5 DEF Parts, ScriptOK, Causal, RowOK, PassedOK

\* A runner that is killed leaves everything but itself.
LEMMA CrashPreserves ==
  ASSUME Parts, crash
  PROVE  Parts'
<1>1. /\ run.pc \notin Done /\ run' = [run EXCEPT !.pc = "crashed"]
      /\ UNCHANGED <<script, key, deletes, tokens, branch, row, receipt, files, pushed, inbox, gate, child>>
  BY DEF crash, Goto, provider, evidence, others
<1>2. run \in Runner /\ run' \in Runner
  BY GotoTyped, LastSteps DEF crash, Parts, World, Typed
<1>3. /\ run'.pc = "crashed" /\ run'.created = run.created /\ run'.passed = run.passed
  BY <1>1, <1>2 DEF Runner
<1>4. World' /\ RowOK'
  BY <1>1, <1>2 DEF Parts, World, Typed, RowOK
<1>5. ~run.passed
  BY <1>1 DEF Parts, PassedOK, Done
<1>6. CausalOK => CausalOK'
  BY <1>1, <1>3 DEF CausalOK, Published, Preparing, Announced, Marked, Triggered, Opening, Incipient,
     Racing, Retired, Closing, Unopened, Opened, Failing, Done
<1>7. RemainingOK'
  BY <1>3 DEF RemainingOK, Triggered
<1>8. RaceOK => RaceOK'
  <2>1. ASSUME NEW c \in Contender, ContenderOK(c)
        PROVE  ContenderOK(c)'
    BY <1>1, <1>3, <2>1 DEF ContenderOK, IsOwner, Done
  <2> QED  BY <1>1, <1>3, <2>1 DEF RaceOK, Running, NobodyRuns, IsOwner, Closing, Retired, Done
<1>9. ClosedOK => ClosedOK'
  BY <1>1 DEF ClosedOK, FinalEvidence, RowIs
<1>10. NobodyRuns' <=> NobodyRuns
  BY <1>1 DEF NobodyRuns, Running
<1>11. ReplayOK => ReplayOK'
  BY <1>3, <1>10 DEF ReplayOK
<1>12. ProofOK => ProofOK'
  BY <1>1, <1>3 DEF ProofOK, Done
<1>13. ClaimRaceOK => ClaimRaceOK'
  BY <1>1, <1>3 DEF ClaimRaceOK, Running, Done
<1>14. (StartOK => StartOK') /\ (ProviderOK => ProviderOK')
  BY <1>3, <1>10 DEF StartOK, ProviderOK
<1> QED  BY <1>1, <1>3, <1>4, <1>5, <1>6, <1>7, <1>8, <1>9, <1>10, <1>11, <1>12, <1>13, <1>14
         DEF Parts, ScriptOK, PassedOK

\* The next launch finds what the last one left.
LEMMA RelaunchPreserves ==
  ASSUME Parts, relaunch
  PROVE  Parts'
<1>1. /\ run.pc \in Done /\ run' = Fresh("preflight")
      /\ script' = script \/ (script = "R3" /\ script' = "R2B")
      /\ UNCHANGED <<key, deletes, tokens, branch, row, receipt, files, pushed, inbox, gate, child>>
  BY DEF relaunch, Quiet, provider, evidence, others
<1>2. NobodyRuns /\ NobodyRuns'
  BY <1>1 DEF relaunch, Quiet, NobodyRuns, Running, Waiting
<1>3. /\ run' \in Runner /\ run'.pc = "preflight" /\ ~run'.passed /\ ~run'.created
  <2>1. "preflight" \in Step
    BY DEF Step
  <2> QED  BY <1>1, <2>1 DEF Fresh, Runner
<1>4. World' /\ RowOK' /\ script' \in Script
  BY <1>1, <1>3 DEF Parts, World, Typed, RowOK, Script
<1>5. CausalOK => (script' = "R3" \/ script' = script => CausalOK')
  BY <1>1, <1>3 DEF CausalOK, Published, Preparing, Announced, Marked, Triggered, Opening, Incipient,
     Racing, Retired, Closing, Unopened, Opened, Failing, Done
<1>6. RemainingOK'
  BY <1>3 DEF RemainingOK, Triggered
<1>7. RaceOK => RaceOK'
  <2>1. \A c \in Contender : ~Running(c)'
    BY <1>2 DEF NobodyRuns
  <2> QED  BY <1>1, <1>2, <1>3, <2>1 DEF RaceOK, IsOwner, Closing, Retired
<1>8. ClosedOK => ClosedOK'
  BY <1>1 DEF ClosedOK, FinalEvidence, RowIs
<1>9. ReplayOK'
  BY <1>2, <1>3 DEF ReplayOK
<1>10. ProofOK /\ script' = script => ProofOK'
  BY <1>1, <1>3 DEF ProofOK
<1>11. ClaimRaceOK' /\ StartOK' /\ ProviderOK'
  BY <1>2, <1>3 DEF ClaimRaceOK, StartOK, ProviderOK, NobodyRuns
<1> QED  BY <1>1, <1>2, <1>3, <1>4, <1>5, <1>6, <1>7, <1>8, <1>9, <1>10, <1>11
         DEF Parts, ScriptOK, PassedOK, Causal

LEMMA InitParts ==
  ASSUME Init
  PROVE  Parts
<1>1. /\ run \in Runner /\ run.pc = "preflight" /\ ~run.passed /\ ~run.created
  <2>1. "preflight" \in Step
    BY DEF Step
  <2> QED  BY <2>1 DEF Init, Fresh, Runner
<1>2. inbox \in Inbox /\ gate \in Gate /\ child \in [Contender -> ChildState]
  BY OffTyped, EmptiesTyped DEF Init, EmptyInbox, Inbox, ClosedGate, Gate
<1>3. World
  BY <1>1, <1>2 DEF Init, World, Typed, Delivery
<1>4. NobodyRuns
  <2>1. Off.pc = "off"
    BY DEF Off
  <2> QED  BY <2>1 DEF Init, NobodyRuns, Running, Waiting
<1>5. CausalOK
  BY <1>1 DEF Init, CausalOK, Published, Preparing, Announced, Marked, Triggered, Opening, Incipient,
     Racing, Retired, Closing, Unopened, Opened, Failing, Done
<1>6. RaceOK /\ ClosedOK
  BY <1>1, <1>4 DEF Init, RaceOK, NobodyRuns, ClosedOK, RowIs, Closing, Retired
<1>7. RemainingOK /\ ReplayOK /\ ProofOK /\ StartOK /\ ProviderOK /\ ClaimRaceOK
  BY <1>1, <1>4 DEF Init, RemainingOK, Triggered, ReplayOK, ProofOK, StartOK, ProviderOK, ClaimRaceOK, NobodyRuns
<1> QED  BY <1>1, <1>3, <1>4, <1>5, <1>6, <1>7 DEF Init, Parts, ScriptOK, RowOK, PassedOK, Script

----------------------------------------------------------------------------
(* The invariant, under the replay.                                         *)

\* The calls on the closed incident do not move it.
LEMMA ReplayRow ==
  ASSUME ReplayOK, row # None => GoodRow(row), R2B
  PROVE  row' = row
<1>1. CASE r2b_closedIncidentReplay_reserve
  <2>1. GoodRow(row) /\ row.status = "CLOSED"
    BY <1>1 DEF r2b_closedIncidentReplay_reserve, At, ReplayOK, RowIs
  <2>2. PICK now \in U64 : row' \in {row, Stored(reserve(row, Agent, now))}
    BY <1>1 DEF r2b_closedIncidentReplay_reserve, CallsInVain
  <2>3. Idles(row, Stored(reserve(row, Agent, now)))
    BY <2>1, ReserveIdles
  <2> QED  BY <2>1, <2>2, <2>3, StartShape DEF Idles
<1>2. CASE r2b_closedIncidentReplay_broker
  <2>1. GoodRow(row) /\ row.status = "CLOSED"
    BY <1>2 DEF r2b_closedIncidentReplay_broker, At, ReplayOK, RowIs
  <2>2. PICK now \in U64, c \in Contender :
          row' \in {row, Stored(claim_with_nonce(row, Broker, now, row.effect_claim_version, c))}
    BY <1>2 DEF r2b_closedIncidentReplay_broker
  <2>3. Idles(row, Stored(claim_with_nonce(row, Broker, now, row.effect_claim_version, c)))
    BY <2>1, ClaimIdles
  <2> QED  BY <2>1, <2>2, <2>3, StartShape DEF Idles
<1>3. CASE \/ r2b_preflight \/ r2b_findDurableReceipt \/ r2b_readAppConfiguration \/ r2b_listen \/ r2b_tunnelReadiness
           \/ r2b_originalDelivery \/ r2b_redeliver \/ r2b_waitForRedeliveryHistory \/ r2b_capture \/ r2b_replay
           \/ r2b_getIncident \/ r2b_closedIncidentReplay_after \/ r2b_write \/ r2b_finally
  BY <1>3 DEF r2b_preflight, r2b_findDurableReceipt, r2b_readAppConfiguration, r2b_listen, r2b_tunnelReadiness,
     r2b_originalDelivery, r2b_redeliver, r2b_waitForRedeliveryHistory, r2b_capture, r2b_replay,
     r2b_getIncident, r2b_closedIncidentReplay_after, r2b_write, r2b_finally, Checks
<1> QED  BY <1>1, <1>2, <1>3 DEF R2B

\* Nothing but the replay's own memory and receiver moves.
LEMMA ReplayKeeps ==
  ASSUME R2B
  PROVE  UNCHANGED <<script, key, deletes, tokens, branch, receipt, files, pushed, gate, child>>
<1>1. CASE \/ r2b_preflight \/ r2b_findDurableReceipt \/ r2b_readAppConfiguration \/ r2b_listen \/ r2b_tunnelReadiness
           \/ r2b_originalDelivery \/ r2b_redeliver \/ r2b_waitForRedeliveryHistory \/ r2b_capture \/ r2b_replay
           \/ r2b_getIncident \/ r2b_closedIncidentReplay_after \/ r2b_write \/ r2b_finally
  BY <1>1 DEF r2b_preflight, r2b_findDurableReceipt, r2b_readAppConfiguration, r2b_listen, r2b_tunnelReadiness,
     r2b_originalDelivery, r2b_redeliver, r2b_waitForRedeliveryHistory, r2b_capture, r2b_replay,
     r2b_getIncident, r2b_closedIncidentReplay_after, r2b_write, r2b_finally, Checks, provider, evidence, others
<1>2. CASE r2b_closedIncidentReplay_reserve
  BY <1>2 DEF r2b_closedIncidentReplay_reserve, CallsInVain, provider, evidence, others
<1>3. CASE r2b_closedIncidentReplay_broker
  <2>1. UNCHANGED <<script, provider, receipt, evidence, others>>
    BY <1>3, Zenon DEF r2b_closedIncidentReplay_broker
  <2> QED  BY <2>1 DEF provider, evidence, others
<1> QED  BY <1>1, <1>2, <1>3 DEF R2B

LEMMA ReplayTyped ==
  ASSUME Typed, row \in IncidentAuthority \cup {None}, R2B
  PROVE  run' \in Runner /\ inbox' \in Inbox
<1>1. CASE \/ r2b_preflight \/ r2b_findDurableReceipt \/ r2b_readAppConfiguration \/ r2b_tunnelReadiness
           \/ r2b_originalDelivery \/ r2b_redeliver \/ r2b_waitForRedeliveryHistory \/ r2b_capture \/ r2b_replay
           \/ r2b_closedIncidentReplay_after
  <2>1. {"receipt", "configuration", "listen", "original", "redeliver", "await", "history", "replay", "incident",
         "write"} \subseteq Step
    BY DEF Step
  <2>2. Typed'
    BY <1>1, <2>1, ChecksTyped
    DEF r2b_preflight, r2b_findDurableReceipt, r2b_readAppConfiguration, r2b_tunnelReadiness,
     r2b_originalDelivery, r2b_redeliver, r2b_waitForRedeliveryHistory, r2b_capture, r2b_replay,
     r2b_closedIncidentReplay_after
  <2> QED  BY <2>2 DEF Typed
<1>2. CASE r2b_listen
  <2>1. "tunnel" \in Step
    BY DEF Step
  <2> QED  BY <1>2, <2>1, EmptiesTyped, GotoTyped, ThrowsTyped DEF r2b_listen, Typed
<1>3. CASE r2b_getIncident
  <2>1. "reserve" \in Step
    BY DEF Step
  <2>2. [run EXCEPT !.pc = "reserve", !.closed = row] \in Runner
    BY <2>1 DEF Typed, Runner
  <2> QED  BY <1>3, <2>2, ThrowsTyped DEF r2b_getIncident, Typed, others
<1>4. CASE r2b_closedIncidentReplay_reserve
  <2>1. "broker" \in Step
    BY DEF Step
  <2> QED  BY <1>4, <2>1, CallsInVainTyped DEF r2b_closedIncidentReplay_reserve, Typed
<1>5. CASE r2b_closedIncidentReplay_broker
  <2>1. "terminal" \in Step
    BY DEF Step
  <2>2. (Goto("terminal") \/ Throws) /\ UNCHANGED others
    BY <1>5, Zenon DEF r2b_closedIncidentReplay_broker
  <2> QED  BY <2>1, <2>2, GotoTyped, ThrowsTyped DEF Typed, others
<1>6. CASE r2b_write \/ r2b_finally
  <2>1. [run EXCEPT !.pc = "ended", !.passed = TRUE] \in Runner
    BY LastSteps DEF Typed, Runner
  <2> QED  BY <1>6, <2>1, GotoTyped, ThrowsTyped, LastSteps DEF r2b_write, r2b_finally, Typed, others
<1> QED  BY <1>1, <1>2, <1>3, <1>4, <1>5, <1>6 DEF R2B

LEMMA ReplayWay ==
  ASSUME Typed, ReplayOK, row' = row, R2B
  PROVE  ReplayOK'
<1>0. run \in Runner /\ UNCHANGED <<receipt, child>>
  BY ReplayKeeps DEF Typed
<1>1. NobodyRuns'
  BY <1>0 DEF ReplayOK, NobodyRuns, Running
<1> USE DEF At, Goto, Throws
<1>2. CASE r2b_preflight \/ r2b_findDurableReceipt \/ r2b_readAppConfiguration \/ r2b_listen \/ r2b_tunnelReadiness
  BY <1>0, <1>1, <1>2 DEF r2b_preflight, r2b_findDurableReceipt, r2b_readAppConfiguration, r2b_listen,
     r2b_tunnelReadiness, Checks, ReplayOK, Runner
<1>3. CASE r2b_originalDelivery \/ r2b_redeliver \/ r2b_waitForRedeliveryHistory \/ r2b_capture \/ r2b_replay
  BY <1>0, <1>1, <1>3 DEF r2b_originalDelivery, r2b_redeliver, r2b_waitForRedeliveryHistory, r2b_capture, r2b_replay,
     Checks, ReplayOK, Runner
<1>4. CASE r2b_getIncident
  <2>1. (run'.pc = "reserve" /\ RowIs("CLOSED")) \/ run'.pc = "catch"
    BY <1>0, <1>4 DEF r2b_getIncident, IncidentClosed, RowIs, Runner
  <2> QED  BY <1>0, <1>1, <1>4, <2>1 DEF r2b_getIncident, ReplayOK, RowIs
<1>5. CASE r2b_closedIncidentReplay_reserve \/ r2b_closedIncidentReplay_broker
  <2>1. run.pc \in {"reserve", "broker"}
    BY <1>5, Zenon DEF r2b_closedIncidentReplay_reserve, r2b_closedIncidentReplay_broker
  <2> QED  BY <1>0, <1>1, <2>1 DEF ReplayOK, RowIs
<1>6. CASE r2b_closedIncidentReplay_after
  BY <1>0, <1>1, <1>6 DEF r2b_closedIncidentReplay_after, Checks, ReplayOK, Runner, RowIs
<1>7. CASE r2b_write \/ r2b_finally
  BY <1>0, <1>1, <1>7 DEF r2b_write, r2b_finally, ReplayOK, Runner
<1> QED  BY <1>2, <1>3, <1>4, <1>5, <1>6, <1>7 DEF R2B

LEMMA R2BPreserves ==
  ASSUME Parts, row \in IncidentAuthority \cup {None}, script = "R2B", R2B
  PROVE  Parts' /\ row' = row
<1>1. World /\ Typed /\ ReplayOK /\ ClosedOK /\ RowOK
  BY DEF Parts, ScriptOK, World
<1>2. row' = row
  BY <1>1, ReplayRow DEF RowOK
<1>3. UNCHANGED <<script, key, deletes, tokens, branch, receipt, files, pushed, gate, child>>
  BY ReplayKeeps
<1>4. run' \in Runner /\ inbox' \in Inbox
  BY <1>1, ReplayTyped
<1>5. World' /\ RowOK'
  BY <1>1, <1>2, <1>3, <1>4 DEF World, Typed, RowOK
<1>6. ReplayOK'
  BY <1>1, <1>2, ReplayWay
<1>7. ClosedOK'
  BY <1>1, <1>2, <1>3 DEF ClosedOK, FinalEvidence, RowIs
<1>8. PassedOK'
  <2>1. run.pc \notin Done
    BY DEF R2B, r2b_preflight, r2b_findDurableReceipt, r2b_readAppConfiguration, r2b_listen, r2b_tunnelReadiness,
     r2b_originalDelivery, r2b_redeliver, r2b_waitForRedeliveryHistory, r2b_capture, r2b_replay,
     r2b_getIncident, r2b_closedIncidentReplay_reserve, r2b_closedIncidentReplay_broker,
     r2b_closedIncidentReplay_after, r2b_write, r2b_finally, Checks, CallsInVain, At, Done
  <2>2. ~run.passed
    BY <2>1 DEF Parts, PassedOK, Done
  <2>3. run'.passed => r2b_write /\ run'.pc = "ended"
    BY <1>1, <2>2 DEF R2B, r2b_preflight, r2b_findDurableReceipt, r2b_readAppConfiguration, r2b_listen, r2b_tunnelReadiness,
     r2b_originalDelivery, r2b_redeliver, r2b_waitForRedeliveryHistory, r2b_capture, r2b_replay,
     r2b_getIncident, r2b_closedIncidentReplay_reserve, r2b_closedIncidentReplay_broker,
     r2b_closedIncidentReplay_after, r2b_write, r2b_finally, Checks, CallsInVain, Goto, Throws, Typed, Runner
  <2>4. r2b_write => Reported'
    BY <1>1, <1>2, <1>3 DEF r2b_write, At, ReplayOK, ClosedOK, RowIs, Reported
  <2> QED  BY <2>3, <2>4 DEF PassedOK
<1> QED  BY <1>2, <1>3, <1>5, <1>6, <1>7, <1>8 DEF Parts, ScriptOK, Causal

----------------------------------------------------------------------------
(* The contract proofs: what each kind of step leaves.                      *)

\* Whatever a call stores of a valid row is valid.
LEMMA StoredGood ==
  ASSUME GoodRow(row)
  PROVE  /\ \A caller, now : GoodRow(Stored(reserve(row, caller, now)))
         /\ \A caller, now, version, nonce : GoodRow(Stored(claim_with_nonce(row, caller, now, version, nonce)))
         /\ \A caller, id, now : GoodRow(Stored(release_not_attempted(row, caller, id, now)))
         /\ \A caller, id, nonce, now : GoodRow(Stored(begin_effect_with_nonce(row, caller, id, nonce, now)))
         /\ \A caller, id, start, class : GoodRow(Stored(finalize_with_start(row, caller, id, start, class)))
         /\ \A caller, id, start, class : GoodRow(Stored(reconcile_with_start(row, caller, id, start, class)))
<1>1. \A caller, now : GoodRow(Stored(reserve(row, caller, now)))
  BY ReserveIdles DEF Idles
<1>2. \A caller, now, version, nonce : GoodRow(Stored(claim_with_nonce(row, caller, now, version, nonce)))
  BY ClaimIdles DEF Idles
<1>3. \A caller, id, now : GoodRow(Stored(release_not_attempted(row, caller, id, now)))
  BY ReleaseIdles DEF Idles
<1>4. \A caller, id, nonce, now : GoodRow(Stored(begin_effect_with_nonce(row, caller, id, nonce, now)))
  BY BeginStarts DEF Starts
<1>5. \A caller, id, start, class : GoodRow(Stored(finalize_with_start(row, caller, id, start, class)))
  BY SettleSettles DEF Settles
<1>6. \A caller, id, start, class : GoodRow(Stored(reconcile_with_start(row, caller, id, start, class)))
  BY SettleSettles DEF Settles
<1> QED  BY <1>1, <1>2, <1>3, <1>4, <1>5, <1>6

\* A step of the runner that goes on or fails, and may call the contract.
Plain(from, to) ==
  /\ run.pc = from /\ run'.pc \in {to, "catch"} /\ run'.passed = run.passed
  /\ Typed'
  /\ UNCHANGED <<script, key, deletes, branch, receipt, child>>
  /\ row' = row \/ GoodRow(row')

LEMMA GotoPlain ==
  ASSUME Typed, NEW to, Goto(to)
  PROVE  /\ run'.pc = to /\ run'.passed = run.passed
         /\ run'.claim = run.claim /\ run'.start = run.start
  BY DEF Typed, Goto, Runner

LEMMA ChecksPlain ==
  ASSUME Typed, NEW from, NEW to \in Step, NEW required, Checks(from, to, required)
  PROVE  /\ Plain(from, to) /\ row' = row
         /\ run'.claim = run.claim /\ run'.start = run.start
         /\ run'.pc = "catch" \/ required
<1>1. Typed'
  BY ChecksTyped
<1> QED  BY <1>1, GotoPlain DEF Checks, Plain, Throws, At, provider, others

LEMMA MintsPlain ==
  ASSUME Typed, NEW from, NEW to \in Step, NEW p \in Purpose, Mints(from, to, p)
  PROVE  Plain(from, to) /\ row' = row
<1>1. Typed'
  BY MintsTyped
<1> QED  BY <1>1, GotoPlain DEF Mints, Plain, Throws, At, others

LEMMA CallsPlain ==
  ASSUME Typed, NEW from, NEW to \in Step, NEW o, NEW affirmative, NEW after_call,
         o.decision = affirmative => after_call \in Runner /\ after_call.passed = run.passed,
         GoodRow(Stored(o)),
         Calls(from, to, o, affirmative, after_call)
  PROVE  Plain(from, to)
<1>1. Typed'
  BY CallsTyped
<1>2. o.decision = affirmative => /\ [after_call EXCEPT !.pc = to].pc = to
                                  /\ [after_call EXCEPT !.pc = to].passed = run.passed
  BY DEF Runner
<1> QED  BY <1>1, <1>2, GotoPlain DEF Calls, Plain, Throws, At, provider, others

LEMMA CallsInVainPlain ==
  ASSUME Typed, NEW from, NEW to \in Step, NEW o, NEW affirmative, GoodRow(Stored(o)),
         CallsInVain(from, to, o, affirmative)
  PROVE  Plain(from, to)
<1>1. Typed'
  BY CallsInVainTyped
<1> QED  BY <1>1, GotoPlain DEF CallsInVain, Plain, Throws, At, provider, others

LEMMA AttemptsPlain ==
  ASSUME Typed, NEW from, NEW to \in Step, NEW o, NEW affirmative, GoodRow(Stored(o)),
         Attempts(from, to, o, affirmative)
  PROVE  Plain(from, to)
<1>1. Typed'
  BY AttemptsTyped
<1> QED  BY <1>1, GotoPlain DEF Attempts, Plain, Throws, At, provider, others

LEMMA CreatesPlain ==
  ASSUME Typed, NEW to \in Step, Creates("create", to)
  PROVE  Plain("create", to) /\ (run'.pc = "catch" \/ row' # None)
<1>1. Typed'
  BY CreatesTyped
<1>2. RowMoves /\ (run' = [run EXCEPT !.pc = "catch"] \/ row' # None)
  BY CreatesRow
<1>3. row' = row \/ GoodRow(row')
  BY <1>2 DEF RowMoves, Idles
<1>4. \/ run' = [run EXCEPT !.pc = to, !.created = TRUE]
      \/ run' = [run EXCEPT !.pc = "catch"]
  BY DEF Creates, Throws, Goto
<1>5. run'.pc \in {to, "catch"} /\ run'.passed = run.passed /\ (run'.pc = "catch" \/ row' # None)
  BY <1>2, <1>4 DEF Typed, Runner
<1> QED  BY <1>1, <1>3, <1>5 DEF Creates, Plain, At, provider, others

LEMMA ReservesPlain ==
  ASSUME Typed, GoodRow(row), NEW from, NEW to \in Step, Reserves(from, to)
  PROVE  Plain(from, to)
<1>1. PICK now \in U64 : Calls(from, to, reserve(row, Agent, now), "Won", run)
  BY DEF Reserves
<1>2. run \in Runner
  BY DEF Typed
<1> QED  BY <1>1, <1>2, StoredGood, CallsPlain

LEMMA ClaimsPlain ==
  ASSUME Typed, GoodRow(row), NEW from, NEW to \in Step, Claims(from, to)
  PROVE  Plain(from, to)
<1>1. PICK now \in U64, n \in Nonce :
        LET o == claim_with_nonce(row, Broker, now, 0, n)
        IN  Calls(from, to, o, "Proposed", [run EXCEPT !.claim = o.authority.effect_claim_id])
  BY DEF Claims
<1> DEFINE o == claim_with_nonce(row, Broker, now, 0, n)
<1>2. o.decision = "Proposed" => o.authority.effect_claim_id \in StateId
  BY ClaimIdles
<1>3. GoodRow(Stored(o))
  BY StoredGood
<1> HIDE DEF o
<1>4. o.decision = "Proposed" => /\ [run EXCEPT !.claim = o.authority.effect_claim_id] \in Runner
                                 /\ [run EXCEPT !.claim = o.authority.effect_claim_id].passed = run.passed
  BY <1>2 DEF Typed, Runner
<1>5. Calls(from, to, o, "Proposed", [run EXCEPT !.claim = o.authority.effect_claim_id])
  BY <1>1 DEF o
<1> QED  BY <1>3, <1>4, <1>5, CallsPlain

LEMMA BeginsPlain ==
  ASSUME Typed, GoodRow(row), NEW from, NEW to \in Step, Begins(from, to)
  PROVE  Plain(from, to)
<1>1. PICK now \in U64, n \in Nonce :
        LET o == begin_effect_with_nonce(row, Broker, run.claim, n, now)
        IN  Calls(from, to, o, "Won", [run EXCEPT !.start = o.authority.effect_start_id])
  BY DEF Begins
<1> DEFINE o == begin_effect_with_nonce(row, Broker, run.claim, n, now)
<1>2. o.decision = "Won" => o.authority.effect_start_id \in StateId
  BY BeginStarts
<1>3. GoodRow(Stored(o))
  BY StoredGood
<1> HIDE DEF o
<1>4. o.decision = "Won" => /\ [run EXCEPT !.start = o.authority.effect_start_id] \in Runner
                            /\ [run EXCEPT !.start = o.authority.effect_start_id].passed = run.passed
  BY <1>2 DEF Typed, Runner
<1>5. Calls(from, to, o, "Won", [run EXCEPT !.start = o.authority.effect_start_id])
  BY <1>1 DEF o
<1> QED  BY <1>3, <1>4, <1>5, CallsPlain

LEMMA ReleasesPlain ==
  ASSUME Typed, NEW from, NEW to \in Step, Releases(from, to)
  PROVE  Plain(from, to) /\ row' = row
<1>1. [gate EXCEPT !.barrier = "release"] \in Gate
  BY DEF Typed, Gate
<1>2. Typed'
  BY <1>1, GotoTyped, ThrowsTyped DEF Releases, Typed, provider, evidence
<1> QED  BY <1>2, GotoPlain DEF Releases, Plain, Throws, At, provider

LEMMA CollectsPlain ==
  ASSUME Typed, NEW from, NEW to \in Step, Collects(from, to)
  PROVE  /\ Plain(from, to) /\ row' = row
         /\ run'.pc = "catch" \/ NobodyRuns
<1>1. Typed'
  BY GotoTyped, ThrowsTyped DEF Collects, Typed, provider, evidence, others
<1>2. Exited => NobodyRuns
  BY DEF Exited, NobodyRuns, Running, Waiting
<1> QED  BY <1>1, <1>2, GotoPlain DEF Collects, Plain, Throws, At, provider, others

LEMMA StopsPlain ==
  ASSUME Typed, Stops
  PROVE  Plain("catch", "ended") /\ row' = row
<1>1. Typed'
  BY GotoTyped, LastSteps DEF Stops, Typed, provider, evidence, others
<1> QED  BY <1>1, GotoPlain DEF Stops, Plain, At, provider, others

\* The start of a launch, before which nothing is known of the incident.
Early == {"preflight", "mint", "target", "readiness", "create", "catch"}

Proofs == {"R4C", "R4D", "R4DR1", "R4E"}

\* What a plain step leaves of the parts.
LEMMA PlainKeeps ==
  ASSUME World, RowOK, ProofOK, PassedOK, NEW from, NEW to, Plain(from, to), from \notin Done,
         to \in Early \cup Done \/ from \notin Early \/ run'.pc = "catch" \/ row' # None
  PROVE  /\ World' /\ RowOK' /\ ProofOK' /\ PassedOK'
         /\ script' = script /\ (NobodyRuns' <=> NobodyRuns)
<1>1. World' /\ RowOK' /\ script' = script
  BY DEF World, RowOK, Plain
<1>2. ~run'.passed
  BY DEF PassedOK, Plain, Done
<1>3. ProofOK'
  <2>1. from \notin Early => row' # None
    BY StartShape DEF ProofOK, Plain, RowOK, Early
  <2> QED  BY <2>1 DEF ProofOK, Plain, Early
<1>4. NobodyRuns' <=> NobodyRuns
  BY DEF NobodyRuns, Running, Plain
<1> QED  BY <1>1, <1>2, <1>3, <1>4 DEF PassedOK

\* The launch starts over: another incident, no token, no DELETE, no contender.
LEMMA LaunchKeeps ==
  ASSUME World, PassedOK, NEW to \in Step \cap Early, NEW target, Launches(to, target)
  PROVE  /\ World' /\ RowOK' /\ ProofOK' /\ PassedOK' /\ NobodyRuns'
         /\ run'.pc \in {to, "catch"} /\ script' = script /\ row' = None /\ deletes' = 0
<1>1. /\ run' \in Runner /\ run'.pc \in {to, "catch"} /\ run'.passed = run.passed
  BY GotoTyped, ThrowsTyped, GotoPlain DEF Launches, Throws, World
<1>2. child' \in [Contender -> ChildState] /\ \A c \in Contender : child'[c].pc = "off"
  <2>1. Off.pc = "off"
    BY DEF Off
  <2> QED  BY <2>1, OffTyped DEF Launches
<1>3. World'
  BY <1>1, <1>2 DEF Launches, World, Typed, evidence
<1>4. NobodyRuns'
  BY <1>2 DEF NobodyRuns, Running, Waiting
<1>5. PassedOK'
  BY <1>1 DEF PassedOK, Launches, At
<1>6. row' = None /\ deletes' = 0 /\ script' = script
  BY DEF Launches
<1> QED  BY <1>1, <1>3, <1>4, <1>5, <1>6 DEF RowOK, ProofOK, Early

LEMMA IncidentKnown ==
  ASSUME RowOK, ProofOK, run.pc \notin Early \cup Done
  PROVE  GoodRow(row) /\ row # None
  BY DEF RowOK, ProofOK, Early

LEMMA PassesKeeps ==
  ASSUME World, RowOK, ProofOK, Passes("evidence")
  PROVE  /\ World' /\ RowOK' /\ ProofOK'
         /\ run.pc = "evidence" /\ run'.pc = "ended"
         /\ run'.claim = run.claim /\ run'.start = run.start
         /\ UNCHANGED <<script, key, deletes, row, child>>
<1>1. /\ run.pc = "evidence" /\ run' = [run EXCEPT !.pc = "ended", !.passed = TRUE]
      /\ UNCHANGED <<script, key, deletes, tokens, branch, row, receipt, files, pushed, inbox, gate, child>>
  BY DEF Passes, At, provider, evidence, others
<1>2. run' \in Runner /\ run'.pc = "ended" /\ run'.claim = run.claim /\ run'.start = run.start
  BY <1>1, LastSteps DEF World, Typed, Runner
<1>3. World'
  BY <1>1, <1>2 DEF World, Typed
<1> QED  BY <1>1, <1>2, <1>3 DEF RowOK, ProofOK, Done

\* A step of a contract proof that is plain: it does not leave the contenders behind, and
\* writes its evidence when it is certain of the row.
Awaiting == {"ready", "results", "catch"}

ProofStep(certain) ==
  /\ run.pc \notin Done
  /\ Plain(run.pc, run'.pc)
  /\ run'.pc \in Early \cup Done \/ run.pc \notin Early \/ row' # None
  /\ run.pc \in Awaiting => run'.pc \in Awaiting \cup Done \/ NobodyRuns
  /\ run'.pc = "evidence" => certain /\ row' = row /\ run'.claim = run.claim /\ run'.start = run.start

LEMMA HoldsStill ==
  ASSUME NEW status, NEW attempts, Holds(status, attempts),
         row' = row, run'.claim = run.claim, run'.start = run.start
  PROVE  Holds(status, attempts)'
  BY DEF Holds, RowIs

LEMMA ProofStepKeeps ==
  ASSUME World, RowOK, ProofOK, PassedOK, NEW certain, ProofStep(certain)
  PROVE  /\ World' /\ RowOK' /\ ProofOK' /\ PassedOK'
         /\ script' = script /\ (NobodyRuns' <=> NobodyRuns)
<1>1. /\ Plain(run.pc, run'.pc) /\ run.pc \notin Done
      /\ run'.pc \in Early \cup Done \/ run.pc \notin Early \/ run'.pc = "catch" \/ row' # None
  BY DEF ProofStep
<1> QED  BY <1>1, PlainKeeps

\* The contenders of a race are waited for, or the race has failed.
LEMMA RaceKept ==
  ASSUME RowOK, PassedOK, ClaimRaceOK, NEW certain, ProofStep(certain)
  PROVE  \A c \in Contender :
           Running(c)' => /\ child'[c].pc \in {"connect", "barrier", "claim", "begin"}
                          /\ row' # None /\ ~run'.passed
                          /\ run'.pc \in {"ready", "results", "catch"} \cup Done
<1> SUFFICES ASSUME NEW c \in Contender, Running(c)'
             PROVE  /\ child'[c].pc \in {"connect", "barrier", "claim", "begin"}
                    /\ row' # None /\ ~run'.passed
                    /\ run'.pc \in {"ready", "results", "catch"} \cup Done
  OBVIOUS
<1>1. child' = child /\ run'.passed = run.passed /\ (row' = row \/ row' # None)
  BY StartShape DEF ProofStep, Plain
<1>2. Running(c) /\ ~NobodyRuns
  BY <1>1 DEF Running, NobodyRuns
<1>3. /\ child[c].pc \in {"connect", "barrier", "claim", "begin"}
      /\ row # None /\ ~run.passed /\ run.pc \in Awaiting
  BY <1>2 DEF ClaimRaceOK, ProofStep, Awaiting
<1>4. run'.pc \in Awaiting \cup Done
  BY <1>2, <1>3 DEF ProofStep
<1> QED  BY <1>1, <1>3, <1>4 DEF Awaiting

LEMMA SpawnsKeeps ==
  ASSUME World, RowOK, ProofOK, PassedOK, NEW from, from \notin Early \cup Done,
         NEW state \in ChildState, state.pc = "connect", Spawns(from, "ready", state)
  PROVE  World' /\ RowOK' /\ ProofOK' /\ PassedOK' /\ ClaimRaceOK' /\ script' = script
<1>1. run.pc = from /\ Goto("ready") /\ child' = [c \in Contender |-> state]
      /\ UNCHANGED <<script, deletes, branch, row, receipt>>
  BY DEF Spawns, At, provider
<1>2. run'.pc = "ready" /\ run'.passed = run.passed
  BY <1>1, GotoPlain DEF World
<1>3. World'
  <2>1. "ready" \in Step
    BY DEF Step
  <2>2. Typed'
    BY <2>1, SpawnsTyped DEF World
  <2> QED  BY <1>1, <2>2, QuietWorld
<1>4. ~run'.passed /\ row # None
  BY <1>1, <1>2, IncidentKnown DEF PassedOK, Done
<1>5. ClaimRaceOK'
  BY <1>1, <1>2, <1>4 DEF ClaimRaceOK
<1>6. RowOK' /\ ProofOK' /\ PassedOK'
  BY <1>1, <1>2, <1>4 DEF RowOK, ProofOK, PassedOK
<1> QED  BY <1>1, <1>3, <1>5, <1>6

----------------------------------------------------------------------------
(* R4C: who owns the claim.                                                 *)

LEMMA ClaimSteps ==
  {"create", "reserve", "spawn", "ready", "results", "confirm", "stable", "stale", "final", "evidence",
   "ended", "catch"} \subseteq Step
  BY DEF Step

LEMMA R4CStep ==
  ASSUME World, RowOK, ProofOK, script = "R4C", R4C,
         ~Launches("create", TRUE), ~r4c_contenders, ~r4c_evidence
  PROVE  ProofStep(Holds("EFFECT_CLAIMED", 0))
<1> USE DEF ProofStep, Early, Done, Awaiting
<1>1. Typed
  BY DEF World
<1>2. CASE Creates("create", "reserve")
  BY <1>1, <1>2, ClaimSteps, CreatesPlain DEF Plain
<1>3. CASE Reserves("reserve", "spawn")
  <2>1. GoodRow(row)
    BY <1>3, IncidentKnown DEF Reserves, Calls, At
  <2> QED  BY <1>1, <1>3, <2>1, ClaimSteps, ReservesPlain DEF Plain
<1>4. CASE r4c_release
  BY <1>1, <1>4, ClaimSteps, ReleasesPlain DEF r4c_release, Plain
<1>5. CASE r4c_results
  BY <1>1, <1>5, ClaimSteps, CollectsPlain DEF r4c_results, Plain
<1>6. CASE r4c_confirm
  <2>1. \A c \in Contender : ContenderClaim(c) \in StateId
    BY AssumptionsHold DEF Assumptions, ContenderClaim, StateId, U64, Contender
  <2>2. /\ run.pc = "confirm"
        /\ UNCHANGED <<script, key, deletes, tokens, branch, row, receipt, files, pushed, inbox, gate, child>>
    <3>1. run.pc = "confirm" /\ UNCHANGED <<script, provider, row, receipt, evidence, others>>
      BY <1>6, Zenon DEF r4c_confirm, At
    <3> QED  BY <3>1 DEF provider, evidence, others
  <2>3. /\ run' \in Runner /\ run'.pc \in {"stable", "catch"} /\ run'.passed = run.passed
    <3>1. CASE Throws
      BY <1>1, <3>1, ThrowsTyped, GotoPlain DEF Throws
    <3>2. CASE \E c \in ClaimOwners : run' = [run EXCEPT !.pc = "stable", !.claim = ContenderClaim(c)]
      <4>1. PICK c \in Contender : run' = [run EXCEPT !.pc = "stable", !.claim = ContenderClaim(c)]
        BY <3>2, Zenon DEF ClaimOwners
      <4>2. ContenderClaim(c) \in StateId /\ "stable" \in Step
        BY <2>1, ClaimSteps
      <4> QED  BY <1>1, <4>1, <4>2 DEF Typed, Runner
    <3> QED  BY <1>6, <3>1, <3>2, Zenon DEF r4c_confirm
  <2>4. Typed'
    BY <1>1, <2>2, <2>3 DEF Typed
  <2> QED  BY <2>2, <2>3, <2>4 DEF Plain
<1>7. CASE r4c_stable
  <2>1. CASE ConfirmsClaim("stable", "stale")
    BY <1>1, <2>1, ClaimSteps, ChecksPlain DEF ConfirmsClaim, Plain
  <2>2. CASE \E now \in U64, n \in Nonce :
               LET o == claim_with_nonce(row, Broker, now, 0, n)
               IN  At("stale") /\ o.decision = "Lost" /\ CallsInVain("stale", "final", o, "Proposed")
    <3>1. PICK now \in U64, n \in Nonce :
            CallsInVain("stale", "final", claim_with_nonce(row, Broker, now, 0, n), "Proposed")
      BY <2>2
    <3>2. GoodRow(Stored(claim_with_nonce(row, Broker, now, 0, n)))
      BY <3>1, IncidentKnown, StoredGood DEF CallsInVain, At
    <3> QED  BY <1>1, <3>1, <3>2, ClaimSteps, CallsInVainPlain DEF Plain
  <2>3. CASE At("stale") /\ Throws /\ UNCHANGED <<script, provider, row, receipt, evidence, others>>
    <3>1. Checks("stale", "final", FALSE)
      BY <2>3 DEF Checks
    <3>2. Plain("stale", "final")
      BY <1>1, <3>1, ClaimSteps, ChecksPlain
    <3> QED  BY <3>2 DEF Plain
  <2>4. CASE Checks("final", "evidence", Holds("EFFECT_CLAIMED", 0) /\ row.effect_claim_version = 1)
    <3>1. /\ Plain("final", "evidence") /\ row' = row
          /\ run'.claim = run.claim /\ run'.start = run.start
          /\ run'.pc = "catch" \/ (Holds("EFFECT_CLAIMED", 0) /\ row.effect_claim_version = 1)
      BY <1>1, <2>4, ClaimSteps, ChecksPlain
    <3> QED  BY <3>1 DEF Plain
  <2> QED  BY <1>7, <2>1, <2>2, <2>3, <2>4 DEF r4c_stable
<1>8. CASE Stops
  BY <1>1, <1>8, StopsPlain DEF Plain
<1> QED  BY <1>2, <1>3, <1>4, <1>5, <1>6, <1>7, <1>8 DEF R4C, r4c_incident

LEMMA R4CPreserves ==
  ASSUME Parts, script = "R4C", R4C
  PROVE  Parts'
<1>1. World /\ RowOK /\ ProofOK /\ PassedOK /\ ClaimRaceOK
  BY DEF Parts, ScriptOK
<1>2. World' /\ RowOK' /\ ProofOK' /\ PassedOK' /\ ClaimRaceOK' /\ script' = "R4C"
  <2>1. CASE Launches("create", TRUE)
    <3>1. "create" \in Step \cap Early
      BY DEF Step, Early
    <3>2. /\ World' /\ RowOK' /\ ProofOK' /\ PassedOK' /\ NobodyRuns' /\ script' = script
          /\ run'.pc \in {"create", "catch"}
      BY <1>1, <2>1, <3>1, LaunchKeeps
    <3> QED  BY <3>2 DEF ClaimRaceOK, NobodyRuns
  <2>2. CASE r4c_contenders
    <3> DEFINE state == [Off EXCEPT !.pc = "connect"]
    <3>1. state \in ChildState /\ state.pc = "connect"
      BY OffTyped, WaitingSteps DEF ChildState
    <3>2. Spawns("spawn", "ready", state) /\ "spawn" \notin Early \cup Done
      BY <2>2 DEF r4c_contenders, Early, Done
    <3> HIDE DEF state
    <3> QED  BY <1>1, <3>1, <3>2, SpawnsKeeps
  <2>3. CASE r4c_evidence
    <3>1. /\ World' /\ RowOK' /\ ProofOK'
          /\ run.pc = "evidence" /\ run'.pc = "ended"
          /\ run'.claim = run.claim /\ run'.start = run.start
          /\ UNCHANGED <<script, key, deletes, row, child>>
      BY <1>1, <2>3, PassesKeeps DEF r4c_evidence
    <3>2. Holds("EFFECT_CLAIMED", 0)'
      BY <1>1, <3>1, HoldsStill DEF ClaimRaceOK
    <3>3. Reported'
      BY <3>1, <3>2 DEF Reported, Holds, RowIs
    <3>4. NobodyRuns'
      BY <1>1, <3>1 DEF ClaimRaceOK, NobodyRuns, Running, Done
    <3> QED  BY <3>1, <3>2, <3>3, <3>4 DEF PassedOK, ClaimRaceOK, NobodyRuns
  <2>4. CASE ProofStep(Holds("EFFECT_CLAIMED", 0))
    <3>1. World' /\ RowOK' /\ ProofOK' /\ PassedOK' /\ script' = script
      BY <1>1, <2>4, ProofStepKeeps
    <3>2. run'.pc = "evidence" => Holds("EFFECT_CLAIMED", 0)'
      BY <2>4, HoldsStill DEF ProofStep
    <3> QED  BY <1>1, <2>4, <3>1, <3>2, RaceKept DEF ClaimRaceOK
  <2> QED  BY <1>1, <2>1, <2>2, <2>3, <2>4, R4CStep
<1> QED  BY <1>2 DEF Parts, ScriptOK, Script, Causal
----------------------------------------------------------------------------
(* R4D: one start, and everything that must not start.                      *)

\* A check that the row is the one held, before the evidence.
LEMMA CertainStep ==
  ASSUME Typed, NEW from, from \notin Early \cup Awaiting \cup Done, NEW certain,
         "evidence" \in Step, Checks(from, "evidence", certain)
  PROVE  ProofStep(certain)
<1>1. /\ Plain(from, "evidence") /\ row' = row
      /\ run'.claim = run.claim /\ run'.start = run.start
      /\ run'.pc = "catch" \/ certain
  BY ChecksPlain
<1> QED  BY <1>1 DEF ProofStep, Plain, Early

\* Any other plain step of one that is not waiting for contenders.
LEMMA OtherStep ==
  ASSUME NEW from, from \notin Awaiting \cup Done, NEW to, to # "evidence", Plain(from, to),
         from \notin Early \/ to \in Early \/ row' # None \/ run'.pc = "catch", NEW certain
  PROVE  ProofStep(certain)
  BY DEF ProofStep, Plain, Early, Awaiting

LEMMA StartSteps ==
  {"create", "active", "reserve", "reserved", "claim", "confirm", "pre-begin", "negative-agent", "negative-broker",
   "after-negative", "begin", "post-begin", "confirm-start", "wrong-confirm", "stable", "duplicate", "release",
   "stale", "final", "independent", "evidence", "readiness", "claim-read", "spawn", "ready", "results",
   "started-read", "new-begin", "fresh-claim", "reserve-after", "role", "bundle", "ended", "catch"} \subseteq Step
  BY DEF Step

LEMMA R4DStep ==
  ASSUME World, RowOK, ProofOK, R4D, ~Launches("create", TRUE), ~Passes("evidence")
  PROVE  ProofStep(Holds("EFFECT_STARTED", 1))
<1>1. Typed
  BY DEF World
<1>2. CASE r4d_incident
  <2>1. CASE Creates("create", "reserve")
    BY <1>1, <2>1, StartSteps, CreatesPlain, OtherStep DEF Awaiting, Done
  <2>2. CASE Reserves("reserve", "claim")
    <3>1. GoodRow(row)
      BY <2>2, IncidentKnown DEF Reserves, Calls, At, Early, Done
    <3>2. Plain("reserve", "claim")
      BY <1>1, <2>2, <3>1, StartSteps, ReservesPlain
    <3> QED  BY <3>2, OtherStep DEF Awaiting, Done, Early
  <2>3. CASE Claims("claim", "confirm")
    <3>1. run.pc = "claim"
      BY <2>3, Zenon DEF Claims, Calls, At
    <3>2. GoodRow(row)
      BY <3>1, IncidentKnown DEF Early, Done
    <3>3. Plain("claim", "confirm")
      BY <1>1, <2>3, <3>2, StartSteps, ClaimsPlain
    <3> QED  BY <3>3, OtherStep DEF Awaiting, Done, Early
  <2>4. CASE ConfirmsClaim("confirm", "pre-begin")
    <3>1. Plain("confirm", "pre-begin")
      BY <1>1, <2>4, StartSteps, ChecksPlain DEF ConfirmsClaim
    <3> QED  BY <3>1, OtherStep DEF Awaiting, Done, Early
  <2>5. CASE Checks("pre-begin", "negative-agent", Holds("EFFECT_CLAIMED", 0))
    <3>1. Plain("pre-begin", "negative-agent")
      BY <1>1, <2>5, StartSteps, ChecksPlain
    <3> QED  BY <3>1, OtherStep DEF Awaiting, Done, Early
  <2> QED  BY <1>2, <2>1, <2>2, <2>3, <2>4, <2>5 DEF r4d_incident
<1>3. CASE r4d_negative
  <2>1. CASE \E now \in U64, n \in Nonce :
               Attempts("negative-agent", "negative-broker", begin_effect_with_nonce(row, Agent, run.claim, n, now), "Won")
    <3>1. PICK now \in U64, n \in Nonce :
            Attempts("negative-agent", "negative-broker", begin_effect_with_nonce(row, Agent, run.claim, n, now), "Won")
      BY <2>1
    <3>2. GoodRow(Stored(begin_effect_with_nonce(row, Agent, run.claim, n, now)))
      BY <3>1, IncidentKnown, StoredGood DEF Attempts, At, Early, Done
    <3>3. Plain("negative-agent", "negative-broker")
      BY <1>1, <3>1, <3>2, StartSteps, AttemptsPlain
    <3> QED  BY <3>3, OtherStep DEF Awaiting, Done, Early
  <2>2. CASE \E now \in U64, n \in Nonce, id \in StateId \ {run.claim} :
               Attempts("negative-broker", "after-negative", begin_effect_with_nonce(row, Broker, id, n, now), "Won")
    <3>1. PICK now \in U64, n \in Nonce, id \in StateId :
            Attempts("negative-broker", "after-negative", begin_effect_with_nonce(row, Broker, id, n, now), "Won")
      BY <2>2
    <3>2. GoodRow(Stored(begin_effect_with_nonce(row, Broker, id, n, now)))
      BY <3>1, IncidentKnown, StoredGood DEF Attempts, At, Early, Done
    <3>3. Plain("negative-broker", "after-negative")
      BY <1>1, <3>1, <3>2, StartSteps, AttemptsPlain
    <3> QED  BY <3>3, OtherStep DEF Awaiting, Done, Early
  <2>3. CASE Checks("after-negative", "begin", Holds("EFFECT_CLAIMED", 0))
    <3>1. Plain("after-negative", "begin")
      BY <1>1, <2>3, StartSteps, ChecksPlain
    <3> QED  BY <3>1, OtherStep DEF Awaiting, Done, Early
  <2> QED  BY <1>3, <2>1, <2>2, <2>3 DEF r4d_negative
<1>4. CASE r4d_begin
  <2>1. CASE Begins("begin", "post-begin")
    <3>1. run.pc = "begin"
      BY <2>1, Zenon DEF Begins, Calls, At
    <3>2. GoodRow(row)
      BY <3>1, IncidentKnown DEF Early, Done
    <3>3. Plain("begin", "post-begin")
      BY <1>1, <2>1, <3>2, StartSteps, BeginsPlain
    <3> QED  BY <3>3, OtherStep DEF Awaiting, Done, Early
  <2>2. CASE Checks("post-begin", "confirm-start", Holds("EFFECT_STARTED", 1))
    <3>1. Plain("post-begin", "confirm-start")
      BY <1>1, <2>2, StartSteps, ChecksPlain
    <3> QED  BY <3>1, OtherStep DEF Awaiting, Done, Early
  <2>3. CASE ConfirmsStart("confirm-start", "wrong-confirm")
    <3>1. Plain("confirm-start", "wrong-confirm")
      BY <1>1, <2>3, StartSteps, ChecksPlain DEF ConfirmsStart
    <3> QED  BY <3>1, OtherStep DEF Awaiting, Done, Early
  <2> QED  BY <1>4, <2>1, <2>2, <2>3 DEF r4d_begin
<1>5. CASE r4d_confirmations
  <2>1. (\E required : Checks("wrong-confirm", "stable", required)) \/ ConfirmsStart("stable", "duplicate")
    BY <1>5, Zenon DEF r4d_confirmations
  <2>2. Plain("wrong-confirm", "stable") \/ Plain("stable", "duplicate")
    BY <1>1, <2>1, StartSteps, ChecksPlain DEF ConfirmsStart
  <2> QED  BY <2>2, OtherStep DEF Awaiting, Done, Early
<1>6. CASE r4d_rejections
  <2>1. CASE \E now \in U64, n \in Nonce :
               Attempts("duplicate", "release", begin_effect_with_nonce(row, Broker, run.claim, n, now), "Won")
    <3>1. PICK now \in U64, n \in Nonce :
            Attempts("duplicate", "release", begin_effect_with_nonce(row, Broker, run.claim, n, now), "Won")
      BY <2>1
    <3>2. GoodRow(Stored(begin_effect_with_nonce(row, Broker, run.claim, n, now)))
      BY <3>1, IncidentKnown, StoredGood DEF Attempts, At, Early, Done
    <3>3. Plain("duplicate", "release")
      BY <1>1, <3>1, <3>2, StartSteps, AttemptsPlain
    <3> QED  BY <3>3, OtherStep DEF Awaiting, Done, Early
  <2>2. CASE \E now \in U64 : Attempts("release", "stale", release_not_attempted(row, Broker, run.claim, now), "Won")
    <3>1. PICK now \in U64 : Attempts("release", "stale", release_not_attempted(row, Broker, run.claim, now), "Won")
      BY <2>2
    <3>2. GoodRow(Stored(release_not_attempted(row, Broker, run.claim, now)))
      BY <3>1, IncidentKnown, StoredGood DEF Attempts, At, Early, Done
    <3>3. Plain("release", "stale")
      BY <1>1, <3>1, <3>2, StartSteps, AttemptsPlain
    <3> QED  BY <3>3, OtherStep DEF Awaiting, Done, Early
  <2>3. CASE \E now \in U64, n \in Nonce : Attempts("stale", "final", claim_with_nonce(row, Broker, now, 0, n), "Won")
    <3>1. PICK now \in U64, n \in Nonce : Attempts("stale", "final", claim_with_nonce(row, Broker, now, 0, n), "Won")
      BY <2>3
    <3>2. GoodRow(Stored(claim_with_nonce(row, Broker, now, 0, n)))
      BY <3>1, IncidentKnown, StoredGood DEF Attempts, At, Early, Done
    <3>3. Plain("stale", "final")
      BY <1>1, <3>1, <3>2, StartSteps, AttemptsPlain
    <3> QED  BY <3>3, OtherStep DEF Awaiting, Done, Early
  <2> QED  BY <1>6, <2>1, <2>2, <2>3 DEF r4d_rejections
<1>7. CASE r4d_final
  <2>1. CASE Checks("final", "independent", Holds("EFFECT_STARTED", 1))
    <3>1. Plain("final", "independent")
      BY <1>1, <2>1, StartSteps, ChecksPlain
    <3> QED  BY <3>1, OtherStep DEF Awaiting, Done, Early
  <2>2. CASE Checks("independent", "evidence", Holds("EFFECT_STARTED", 1))
    BY <1>1, <2>2, StartSteps, CertainStep DEF Early, Awaiting, Done
  <2> QED  BY <1>7, <2>1, <2>2 DEF r4d_final
<1>8. CASE Stops
  BY <1>1, <1>8, StopsPlain DEF ProofStep, Plain, Early, Awaiting, Done
<1> QED  BY <1>2, <1>3, <1>4, <1>5, <1>6, <1>7, <1>8 DEF R4D

LEMMA R4DPreserves ==
  ASSUME Parts, script = "R4D", R4D
  PROVE  Parts'
<1>1. World /\ RowOK /\ ProofOK /\ PassedOK /\ StartOK
  BY DEF Parts, ScriptOK
<1>2. World' /\ RowOK' /\ ProofOK' /\ PassedOK' /\ StartOK' /\ script' = "R4D"
  <2>1. CASE Launches("create", TRUE)
    <3>1. "create" \in Step \cap Early
      BY DEF Step, Early
    <3>2. /\ World' /\ RowOK' /\ ProofOK' /\ PassedOK' /\ NobodyRuns' /\ script' = script
          /\ run'.pc \in {"create", "catch"}
      BY <1>1, <2>1, <3>1, LaunchKeeps
    <3> QED  BY <3>2 DEF StartOK
  <2>2. CASE Passes("evidence")
    <3>1. /\ World' /\ RowOK' /\ ProofOK'
          /\ run.pc = "evidence" /\ run'.pc = "ended"
          /\ run'.claim = run.claim /\ run'.start = run.start
          /\ UNCHANGED <<script, key, deletes, row, child>>
      BY <1>1, <2>2, PassesKeeps
    <3>2. Holds("EFFECT_STARTED", 1)'
      BY <1>1, <3>1, HoldsStill DEF StartOK
    <3>3. Reported'
      BY <1>1, <3>1, <3>2 DEF Reported, Holds, RowIs, ProofOK
    <3>4. NobodyRuns'
      BY <1>1, <3>1 DEF StartOK, NobodyRuns, Running
    <3> QED  BY <3>1, <3>2, <3>3, <3>4 DEF PassedOK, StartOK
  <2>3. CASE ProofStep(Holds("EFFECT_STARTED", 1))
    <3>1. World' /\ RowOK' /\ ProofOK' /\ PassedOK' /\ script' = script /\ (NobodyRuns' <=> NobodyRuns)
      BY <1>1, <2>3, ProofStepKeeps
    <3>2. run'.pc = "evidence" => Holds("EFFECT_STARTED", 1)'
      BY <2>3, HoldsStill DEF ProofStep
    <3> QED  BY <1>1, <3>1, <3>2 DEF StartOK
  <2> QED  BY <1>1, <2>1, <2>2, <2>3, R4DStep
<1> QED  BY <1>2 DEF Parts, ScriptOK, Script, Causal
----------------------------------------------------------------------------
(* R4D-R1: who owns the start.                                              *)

LEMMA R4DR1Step ==
  ASSUME World, RowOK, ProofOK, R4DR1, ~Launches("readiness", TRUE),
         ~Spawns("spawn", "ready", [Off EXCEPT !.pc = "connect", !.claim = run.claim]), ~Passes("evidence")
  PROVE  ProofStep(Holds("EFFECT_STARTED", 1))
<1>1. Typed
  BY DEF World
<1>2. CASE captureReadinessProbe
  <2>1. Plain("readiness", "create")
    BY <1>1, <1>2, StartSteps, ChecksPlain DEF captureReadinessProbe
  <2> QED  BY <2>1, OtherStep DEF Awaiting, Done, Early
<1>3. CASE r4dr1_incident
  <2>1. CASE Creates("create", "active")
    BY <1>1, <2>1, StartSteps, CreatesPlain, OtherStep DEF Awaiting, Done
  <2>2. CASE Checks("active", "reserve", RowIs("ACTIVE"))
    <3>1. Plain("active", "reserve")
      BY <1>1, <2>2, StartSteps, ChecksPlain
    <3> QED  BY <3>1, OtherStep DEF Awaiting, Done, Early
  <2>3. CASE Reserves("reserve", "reserved")
    <3>1. GoodRow(row)
      BY <2>3, IncidentKnown DEF Reserves, Calls, At, Early, Done
    <3>2. Plain("reserve", "reserved")
      BY <1>1, <2>3, <3>1, StartSteps, ReservesPlain
    <3> QED  BY <3>2, OtherStep DEF Awaiting, Done, Early
  <2>4. CASE Checks("reserved", "claim", RowIs("RESERVED"))
    <3>1. Plain("reserved", "claim")
      BY <1>1, <2>4, StartSteps, ChecksPlain
    <3> QED  BY <3>1, OtherStep DEF Awaiting, Done, Early
  <2> QED  BY <1>3, <2>1, <2>2, <2>3, <2>4 DEF r4dr1_incident
<1>4. CASE r4dr1_claim
  <2>1. CASE Claims("claim", "confirm")
    <3>1. run.pc = "claim"
      BY <2>1, Zenon DEF Claims, Calls, At
    <3>2. GoodRow(row)
      BY <3>1, IncidentKnown DEF Early, Done
    <3>3. Plain("claim", "confirm")
      BY <1>1, <2>1, <3>2, StartSteps, ClaimsPlain
    <3> QED  BY <3>3, OtherStep DEF Awaiting, Done, Early
  <2>2. CASE ConfirmsClaim("confirm", "claim-read")
    <3>1. Plain("confirm", "claim-read")
      BY <1>1, <2>2, StartSteps, ChecksPlain DEF ConfirmsClaim
    <3> QED  BY <3>1, OtherStep DEF Awaiting, Done, Early
  <2>3. CASE Checks("claim-read", "spawn", Holds("EFFECT_CLAIMED", 0))
    <3>1. Plain("claim-read", "spawn")
      BY <1>1, <2>3, StartSteps, ChecksPlain
    <3> QED  BY <3>1, OtherStep DEF Awaiting, Done, Early
  <2> QED  BY <1>4, <2>1, <2>2, <2>3 DEF r4dr1_claim
<1>5. CASE Releases("ready", "results")
  BY <1>1, <1>5, StartSteps, ReleasesPlain DEF ProofStep, Plain, Early, Awaiting, Done
<1>6. CASE Collects("results", "confirm-start")
  BY <1>1, <1>6, StartSteps, CollectsPlain DEF ProofStep, Plain, Early, Awaiting, Done
<1>7. CASE r4dr1_confirm
  <2>1. CASE Checks("started-read", "release", Holds("EFFECT_STARTED", 1))
    <3>1. Plain("started-read", "release")
      BY <1>1, <2>1, StartSteps, ChecksPlain
    <3> QED  BY <3>1, OtherStep DEF Awaiting, Done, Early
  <2>2. CASE ~Checks("started-read", "release", Holds("EFFECT_STARTED", 1))
    <3>1. run.pc = "confirm-start" /\ UNCHANGED <<script, provider, row, receipt, evidence, others>>
      BY <1>7, <2>2, Zenon DEF r4dr1_confirm, At
    <3>2. UNCHANGED <<script, key, deletes, tokens, branch, row, receipt, files, pushed, inbox, gate, child>>
      BY <3>1 DEF provider, evidence, others
    <3>3. run' \in Runner /\ run'.pc \in {"started-read", "catch"} /\ run'.passed = run.passed
      <4>1. CASE Throws
        BY <1>1, <4>1, ThrowsTyped, GotoPlain DEF Throws
      <4>2. CASE \E c \in StartOwners : run' = [run EXCEPT !.pc = "started-read", !.start = ContenderStart(c)]
        <5>1. PICK c \in Contender : run' = [run EXCEPT !.pc = "started-read", !.start = ContenderStart(c)]
          BY <4>2, Zenon DEF StartOwners
        <5>2. ContenderStart(c) \in StateId /\ "started-read" \in Step
          BY AssumptionsHold, StartSteps DEF Assumptions, ContenderStart, StateId, U64, Contender
        <5> QED  BY <1>1, <5>1, <5>2 DEF Typed, Runner
      <4> QED  BY <1>7, <2>2, <4>1, <4>2, Zenon DEF r4dr1_confirm
    <3>4. Typed'
      BY <1>1, <3>2, <3>3 DEF Typed
    <3>5. Plain("confirm-start", "started-read")
      BY <3>1, <3>2, <3>3, <3>4 DEF Plain
    <3> QED  BY <3>5, OtherStep DEF Awaiting, Done, Early
  <2> QED  BY <2>1, <2>2
<1>8. CASE r4dr1_nonreopen
  <2>1. CASE \E now \in U64 : Attempts("release", "new-begin", release_not_attempted(row, Broker, run.claim, now), "Won")
    <3>1. PICK now \in U64 : Attempts("release", "new-begin", release_not_attempted(row, Broker, run.claim, now), "Won")
      BY <2>1
    <3>2. GoodRow(Stored(release_not_attempted(row, Broker, run.claim, now)))
      BY <3>1, IncidentKnown, StoredGood DEF Attempts, At, Early, Done
    <3>3. Plain("release", "new-begin")
      BY <1>1, <3>1, <3>2, StartSteps, AttemptsPlain
    <3> QED  BY <3>3, OtherStep DEF Awaiting, Done, Early
  <2>2. CASE \E now \in U64, n \in Nonce :
               Attempts("new-begin", "fresh-claim", begin_effect_with_nonce(row, Broker, run.claim, n, now), "Won")
    <3>1. PICK now \in U64, n \in Nonce :
            Attempts("new-begin", "fresh-claim", begin_effect_with_nonce(row, Broker, run.claim, n, now), "Won")
      BY <2>2
    <3>2. GoodRow(Stored(begin_effect_with_nonce(row, Broker, run.claim, n, now)))
      BY <3>1, IncidentKnown, StoredGood DEF Attempts, At, Early, Done
    <3>3. Plain("new-begin", "fresh-claim")
      BY <1>1, <3>1, <3>2, StartSteps, AttemptsPlain
    <3> QED  BY <3>3, OtherStep DEF Awaiting, Done, Early
  <2>3. CASE \E now \in U64, n \in Nonce :
               Attempts("fresh-claim", "reserve-after", claim_with_nonce(row, Broker, now, 1, n), "Proposed")
    <3>1. PICK now \in U64, n \in Nonce :
            Attempts("fresh-claim", "reserve-after", claim_with_nonce(row, Broker, now, 1, n), "Proposed")
      BY <2>3
    <3>2. GoodRow(Stored(claim_with_nonce(row, Broker, now, 1, n)))
      BY <3>1, IncidentKnown, StoredGood DEF Attempts, At, Early, Done
    <3>3. Plain("fresh-claim", "reserve-after")
      BY <1>1, <3>1, <3>2, StartSteps, AttemptsPlain
    <3> QED  BY <3>3, OtherStep DEF Awaiting, Done, Early
  <2>4. CASE \E now \in U64 : Attempts("reserve-after", "final", reserve(row, Agent, now), "Won")
    <3>1. PICK now \in U64 : Attempts("reserve-after", "final", reserve(row, Agent, now), "Won")
      BY <2>4
    <3>2. GoodRow(Stored(reserve(row, Agent, now)))
      BY <3>1, IncidentKnown, StoredGood DEF Attempts, At, Early, Done
    <3>3. Plain("reserve-after", "final")
      BY <1>1, <3>1, <3>2, StartSteps, AttemptsPlain
    <3> QED  BY <3>3, OtherStep DEF Awaiting, Done, Early
  <2>5. CASE Checks("final", "role", Holds("EFFECT_STARTED", 1))
    <3>1. Plain("final", "role")
      BY <1>1, <2>5, StartSteps, ChecksPlain
    <3> QED  BY <3>1, OtherStep DEF Awaiting, Done, Early
  <2> QED  BY <1>8, <2>1, <2>2, <2>3, <2>4, <2>5 DEF r4dr1_nonreopen
<1>9. CASE r4dr1_role
  <2>1. Plain("role", "bundle")
    BY <1>1, <1>9, StartSteps, ChecksPlain DEF r4dr1_role
  <2> QED  BY <2>1, OtherStep DEF Awaiting, Done, Early
<1>10. CASE Checks("bundle", "evidence", Holds("EFFECT_STARTED", 1))
  BY <1>1, <1>10, StartSteps, CertainStep DEF Early, Awaiting, Done
<1>11. CASE Stops
  BY <1>1, <1>11, StopsPlain DEF ProofStep, Plain, Early, Awaiting, Done
<1> QED  BY <1>2, <1>3, <1>4, <1>5, <1>6, <1>7, <1>8, <1>9, <1>10, <1>11
         DEF R4DR1, readGrant, r4dr1_contenders, r4dr1_bundle

LEMMA R4DR1Preserves ==
  ASSUME Parts, script = "R4DR1", R4DR1
  PROVE  Parts'
<1>1. World /\ RowOK /\ ProofOK /\ PassedOK /\ ClaimRaceOK
  BY DEF Parts, ScriptOK
<1>2. World' /\ RowOK' /\ ProofOK' /\ PassedOK' /\ ClaimRaceOK' /\ script' = "R4DR1"
  <2>1. CASE Launches("readiness", TRUE)
    <3>1. "readiness" \in Step \cap Early
      BY DEF Step, Early
    <3>2. /\ World' /\ RowOK' /\ ProofOK' /\ PassedOK' /\ NobodyRuns' /\ script' = script
          /\ run'.pc \in {"readiness", "catch"}
      BY <1>1, <2>1, <3>1, LaunchKeeps
    <3> QED  BY <3>2 DEF ClaimRaceOK, NobodyRuns
  <2>2. CASE Spawns("spawn", "ready", [Off EXCEPT !.pc = "connect", !.claim = run.claim])
    <3> DEFINE state == [Off EXCEPT !.pc = "connect", !.claim = run.claim]
    <3>0. run.claim \in StateId \cup {None}
      BY <1>1 DEF World, Typed, Runner
    <3>1. state \in ChildState /\ state.pc = "connect"
      BY <3>0, OffTyped, WaitingSteps DEF ChildState
    <3>2. Spawns("spawn", "ready", state) /\ "spawn" \notin Early \cup Done
      BY <2>2 DEF Early, Done
    <3> HIDE DEF state
    <3> QED  BY <1>1, <3>1, <3>2, SpawnsKeeps
  <2>3. CASE Passes("evidence")
    <3>1. /\ World' /\ RowOK' /\ ProofOK'
          /\ run.pc = "evidence" /\ run'.pc = "ended"
          /\ run'.claim = run.claim /\ run'.start = run.start
          /\ UNCHANGED <<script, key, deletes, row, child>>
      BY <1>1, <2>3, PassesKeeps
    <3>2. Holds("EFFECT_STARTED", 1)'
      BY <1>1, <3>1, HoldsStill DEF ClaimRaceOK
    <3>3. Reported'
      BY <1>1, <3>1, <3>2 DEF Reported, Holds, RowIs, ProofOK
    <3>4. NobodyRuns'
      BY <1>1, <3>1 DEF ClaimRaceOK, NobodyRuns, Running, Done
    <3> QED  BY <3>1, <3>2, <3>3, <3>4 DEF PassedOK, ClaimRaceOK, NobodyRuns
  <2>4. CASE ProofStep(Holds("EFFECT_STARTED", 1))
    <3>1. World' /\ RowOK' /\ ProofOK' /\ PassedOK' /\ script' = script
      BY <1>1, <2>4, ProofStepKeeps
    <3>2. run'.pc = "evidence" => Holds("EFFECT_STARTED", 1)'
      BY <2>4, HoldsStill DEF ProofStep
    <3> QED  BY <1>1, <2>4, <3>1, <3>2, RaceKept DEF ClaimRaceOK
  <2> QED  BY <1>1, <2>1, <2>2, <2>3, <2>4, R4DR1Step
<1> QED  BY <1>2 DEF Parts, ScriptOK, Script, Causal

----------------------------------------------------------------------------
(* The contenders of the two races.                                         *)

LEMMA ClaimRaceChild ==
  ASSUME Parts, script \in {"R4C", "R4DR1"}, NEW c \in Contender, Running(c),
         child' \in [Contender -> ChildState], child'[c].pc \in {"ended", "barrier", "claim", "begin"},
         \A d \in Contender \ {c} : child'[d] = child[d],
         gate' \in Gate, row' = row \/ GoodRow(row'),
         UNCHANGED <<script, run, key, deletes, tokens, branch, receipt, files, pushed, inbox>>
  PROVE  Parts'
<1>1. World /\ RowOK /\ ProofOK /\ PassedOK /\ ClaimRaceOK
  BY DEF Parts, ScriptOK
<1>2. row # None /\ ~run.passed /\ run.pc \in {"ready", "results", "catch"} \cup Done
  BY <1>1 DEF ClaimRaceOK
<1>3. World' /\ RowOK' /\ row' # None
  BY <1>1, <1>2, StartShape DEF World, Typed, RowOK
<1>4. ClaimRaceOK'
  <2>1. \A d \in Contender : Running(d)' => child'[d].pc \in {"connect", "barrier", "claim", "begin"}
    BY <1>1 DEF ClaimRaceOK, Running, Waiting
  <2> QED  BY <1>2, <1>3, <2>1 DEF ClaimRaceOK, Done
<1>5. ProofOK' /\ PassedOK'
  BY <1>1, <1>2, <1>3 DEF ProofOK, PassedOK
<1> QED  BY <1>1, <1>3, <1>4, <1>5 DEF Parts, ScriptOK, Causal

LEMMA OthersStay ==
  ASSUME Typed, NEW c \in Contender, NEW s, Becomes(c, s)
  PROVE  \A d \in Contender \ {c} : child'[d] = child[d]
  BY DEF Becomes, Typed

LEMMA RaceEnds ==
  ASSUME Typed, NEW c \in Contender,
         Ends(c, NoResult) \/ ChildThrows(c) \/ \E pc \in {"barrier", "claim", "begin"} : ChildGoto(c, pc)
  PROVE  /\ child' \in [Contender -> ChildState] /\ child'[c].pc \in {"ended", "barrier", "claim", "begin"}
         /\ \A d \in Contender \ {c} : child'[d] = child[d]
<1>1. child' \in [Contender -> ChildState] /\ child'[c].pc \in {"ended", "barrier", "claim", "begin"}
  BY NoResultTyped, EndsTyped, ChildThrowsTyped, ChildGotoTyped, WaitingSteps
<1>2. \E s : Becomes(c, s)
  BY Zenon DEF Ends, ChildThrows, ChildGoto
<1> QED  BY <1>1, <1>2, OthersStay

LEMMA ClaimContenderPreserves ==
  ASSUME Parts, script = "R4C", NEW c \in Contender, claim_contender(c)
  PROVE  Parts'
<1>1. Typed /\ RowOK /\ ClaimRaceOK
  BY DEF Parts, World, ScriptOK
<1>2. /\ Running(c)
      /\ Ends(c, NoResult) \/ ChildThrows(c) \/ \E pc \in {"barrier", "claim", "begin"} : ChildGoto(c, pc)
  BY WaitingSteps DEF claim_contender, ChildAt, Running
<1>3. UNCHANGED <<script, run, key, deletes, tokens, branch, receipt, files, pushed, inbox>>
  BY DEF claim_contender, waiting_runner, evidence
<1>4. gate' \in Gate
  BY <1>1, GateTyped DEF claim_contender
<1>5. GoodRow(row)
  BY <1>1, <1>2 DEF RowOK, ClaimRaceOK
<1>6. row' = row \/ GoodRow(row')
  <2>1. row' = row \/ \E now \in U64 : row' \in {row, Stored(claim_with_nonce(row, Broker, now, 0, c))}
    BY Zenon DEF claim_contender
  <2> QED  BY <1>5, <2>1, StoredGood
<1> QED  BY <1>1, <1>2, <1>3, <1>4, <1>6, RaceEnds, ClaimRaceChild

LEMMA StartContenderPreserves ==
  ASSUME Parts, script = "R4DR1", NEW c \in Contender, start_contender(c)
  PROVE  Parts'
<1>1. Typed /\ RowOK /\ ClaimRaceOK
  BY DEF Parts, World, ScriptOK
<1>2. /\ Running(c)
      /\ Ends(c, NoResult) \/ ChildThrows(c) \/ \E pc \in {"barrier", "claim", "begin"} : ChildGoto(c, pc)
  BY WaitingSteps DEF start_contender, ChildAt, Running
<1>3. UNCHANGED <<script, run, key, deletes, tokens, branch, receipt, files, pushed, inbox>>
  BY DEF start_contender, waiting_runner, evidence
<1>4. gate' \in Gate
  BY <1>1, GateTyped DEF start_contender
<1>5. GoodRow(row)
  BY <1>1, <1>2 DEF RowOK, ClaimRaceOK
<1>6. row' = row \/ GoodRow(row')
  <2>1. row' = row \/ \E now \in U64 :
                        row' \in {row, Stored(begin_effect_with_nonce(row, Broker, child[c].claim, c, now))}
    BY Zenon DEF start_contender
  <2> QED  BY <1>5, <2>1, StoredGood
<1> QED  BY <1>1, <1>2, <1>3, <1>4, <1>6, RaceEnds, ClaimRaceChild

\* A contender of a race dies; where nobody runs, nobody can.
LEMMA DiesPreserves ==
  ASSUME Parts, script # "R3", NEW c \in Contender, die(c)
  PROVE  Parts'
<1>1. Running(c) /\ Typed
  BY DEF die, Running, Parts, World
<1>2. script \in {"R4C", "R4DR1"}
  BY <1>1 DEF Parts, ScriptOK, Script, NobodyRuns, ReplayOK, StartOK, ProviderOK
<1>3. /\ UNCHANGED <<script, run, key, deletes, tokens, branch, row, receipt, files, pushed, inbox, gate>>
      /\ Becomes(c, [Off EXCEPT !.pc = "ended", !.code = 1, !.file = child[c].file])
  BY DEF die, waiting_runner, evidence
<1>4. Typed' /\ child'[c].pc = "ended"
  BY <1>1, DiesTyped
<1>5. child' \in [Contender -> ChildState] /\ gate' \in Gate
  BY <1>4 DEF Typed
<1>6. \A d \in Contender \ {c} : child'[d] = child[d]
  BY <1>1, <1>3, OthersStay
<1> QED  BY <1>1, <1>2, <1>3, <1>4, <1>5, <1>6, ClaimRaceChild
----------------------------------------------------------------------------
(* R4E: the script is the broker and sends the DELETE.                      *)

LEMMA EffectSteps ==
  {"mint", "target", "create", "reserve", "claim", "confirm", "recheck", "begin", "confirm-start", "pre-delete",
   "delete", "after", "finalize", "closed", "barriers", "terminal", "evidence", "ended", "catch"} \subseteq Step
  BY DEF Step

\* The way of R4E up to the DELETE, and from its answer on.
LEMMA EffectPlain ==
  ASSUME ProviderOK, NEW from, NEW to, Plain(from, to),
         \/ run'.pc = "catch"
         \/ /\ from \in {"create", "reserve", "claim", "confirm", "recheck", "begin", "confirm-start"}
            /\ to \in {"reserve", "claim", "confirm", "recheck", "begin", "confirm-start", "pre-delete"}
         \/ <<from, to>> \in {<<"mint", "target">>, <<"finalize", "closed">>, <<"closed", "barriers">>,
                              <<"barriers", "terminal">>, <<"catch", "ended">>}
         \/ from = "target" /\ to = "create" /\ key = "present"
         \/ from = "after" /\ to = "finalize" /\ key = "gone"
  PROVE  ProviderOK'
<1>1. /\ run.pc = from /\ run'.pc \in {to, "catch"} /\ UNCHANGED <<key, deletes, child>>
  BY DEF Plain
<1>2. NobodyRuns'
  BY <1>1 DEF ProviderOK, NobodyRuns, Running
<1>3. CASE run'.pc \in {"catch", "ended"}
  BY <1>2, <1>3 DEF ProviderOK
<1>4. CASE run'.pc \notin {"catch", "ended"}
  BY <1>1, <1>2, <1>4 DEF ProviderOK
<1> QED  BY <1>3, <1>4

LEMMA R4EPlain ==
  ASSUME World, RowOK, ProofOK, ProviderOK, R4E,
         ~Launches("mint", TRUE), ~r4e_delete, ~Passes("evidence")
  PROVE  ProofStep(Holds("CLOSED", 1)) /\ ProviderOK'
<1>1. Typed
  BY DEF World
<1>2. CASE r4e_preflight
  <2>1. CASE Mints("mint", "target", "setup")
    <3>1. Plain("mint", "target")
      BY <1>1, <2>1, EffectSteps, MintsPlain DEF Purpose
    <3> QED  BY <3>1, EffectPlain, OtherStep DEF Awaiting, Done, Early
  <2>2. CASE Checks("target", "create", key = "present")
    <3>1. Plain("target", "create") /\ (run'.pc = "catch" \/ key = "present")
      BY <1>1, <2>2, EffectSteps, ChecksPlain
    <3> QED  BY <3>1, EffectPlain, OtherStep DEF Awaiting, Done, Early
  <2> QED  BY <1>2, <2>1, <2>2 DEF r4e_preflight
<1>3. CASE r4e_incident
  <2>1. CASE Creates("create", "reserve")
    <3>1. Plain("create", "reserve") /\ (run'.pc = "catch" \/ row' # None)
      BY <1>1, <2>1, EffectSteps, CreatesPlain
    <3> QED  BY <3>1, EffectPlain, OtherStep DEF Awaiting, Done
  <2>2. CASE Reserves("reserve", "claim")
    <3>1. GoodRow(row)
      BY <2>2, IncidentKnown DEF Reserves, Calls, At, Early, Done
    <3>2. Plain("reserve", "claim")
      BY <1>1, <2>2, <3>1, EffectSteps, ReservesPlain
    <3> QED  BY <3>2, EffectPlain, OtherStep DEF Awaiting, Done, Early
  <2>3. CASE Claims("claim", "confirm")
    <3>1. run.pc = "claim"
      BY <2>3, Zenon DEF Claims, Calls, At
    <3>2. GoodRow(row)
      BY <3>1, IncidentKnown DEF Early, Done
    <3>3. Plain("claim", "confirm")
      BY <1>1, <2>3, <3>2, EffectSteps, ClaimsPlain
    <3> QED  BY <3>3, EffectPlain, OtherStep DEF Awaiting, Done, Early
  <2>4. CASE ConfirmsClaim("confirm", "recheck")
    <3>1. Plain("confirm", "recheck")
      BY <1>1, <2>4, EffectSteps, ChecksPlain DEF ConfirmsClaim
    <3> QED  BY <3>1, EffectPlain, OtherStep DEF Awaiting, Done, Early
  <2> QED  BY <1>3, <2>1, <2>2, <2>3, <2>4 DEF r4e_incident
<1>4. CASE r4e_start
  <2>1. CASE Checks("recheck", "begin", key = "present")
    <3>1. Plain("recheck", "begin")
      BY <1>1, <2>1, EffectSteps, ChecksPlain
    <3> QED  BY <3>1, EffectPlain, OtherStep DEF Awaiting, Done, Early
  <2>2. CASE Begins("begin", "confirm-start")
    <3>1. run.pc = "begin"
      BY <2>2, Zenon DEF Begins, Calls, At
    <3>2. GoodRow(row)
      BY <3>1, IncidentKnown DEF Early, Done
    <3>3. Plain("begin", "confirm-start")
      BY <1>1, <2>2, <3>2, EffectSteps, BeginsPlain
    <3> QED  BY <3>3, EffectPlain, OtherStep DEF Awaiting, Done, Early
  <2>3. CASE ConfirmsStart("confirm-start", "pre-delete")
    <3>1. Plain("confirm-start", "pre-delete")
      BY <1>1, <2>3, EffectSteps, ChecksPlain DEF ConfirmsStart
    <3> QED  BY <3>1, EffectPlain, OtherStep DEF Awaiting, Done, Early
  <2> QED  BY <1>4, <2>1, <2>2, <2>3 DEF r4e_start
<1>5. CASE r4e_pre_delete
  <2>1. /\ Plain("pre-delete", "delete") /\ row' = row
        /\ run'.claim = run.claim /\ run'.start = run.start
        /\ run'.pc = "catch" \/ StartCommitted
    BY <1>1, <1>5, EffectSteps, ChecksPlain DEF r4e_pre_delete
  <2>2. ProviderOK'
    <3>1. CASE run'.pc = "catch"
      BY <2>1, <3>1, EffectPlain
    <3>2. CASE run'.pc = "delete" /\ StartCommitted
      <4>1. StartCommitted'
        BY <2>1, <3>2, HoldsStill DEF StartCommitted
      <4>2. NobodyRuns' /\ deletes' = 0 /\ key' = "present"
        BY <2>1 DEF Plain, ProviderOK, NobodyRuns, Running
      <4> QED  BY <3>2, <4>1, <4>2 DEF ProviderOK
    <3> QED  BY <2>1, <3>1, <3>2 DEF Plain
  <2> QED  BY <2>1, <2>2, OtherStep DEF Awaiting, Done, Early
<1>6. CASE r4e_after
  <2>1. Plain("after", "finalize") /\ (run'.pc = "catch" \/ key = "gone")
    BY <1>1, <1>6, EffectSteps, ChecksPlain DEF r4e_after
  <2> QED  BY <2>1, EffectPlain, OtherStep DEF Awaiting, Done, Early
<1>7. CASE r4e_finalize
  <2>1. CASE Calls("finalize", "closed", finalize_with_start(row, Broker, run.claim, run.start, "VERIFIED_ABSENT"), "Won", run)
    <3>1. GoodRow(Stored(finalize_with_start(row, Broker, run.claim, run.start, "VERIFIED_ABSENT")))
      BY <2>1, IncidentKnown, StoredGood DEF Calls, At, Early, Done
    <3>2. run \in Runner
      BY <1>1 DEF Typed
    <3>3. Plain("finalize", "closed")
      BY <1>1, <2>1, <3>1, <3>2, EffectSteps, CallsPlain
    <3> QED  BY <3>3, EffectPlain, OtherStep DEF Awaiting, Done, Early
  <2>2. CASE Checks("closed", "barriers", Holds("CLOSED", 1) /\ key = "gone")
    <3>1. Plain("closed", "barriers")
      BY <1>1, <2>2, EffectSteps, ChecksPlain
    <3> QED  BY <3>1, EffectPlain, OtherStep DEF Awaiting, Done, Early
  <2> QED  BY <1>7, <2>1, <2>2 DEF r4e_finalize
<1>8. CASE r4e_barriers
  <2>1. CASE Checks("terminal", "evidence", Holds("CLOSED", 1))
    <3>1. ProofStep(Holds("CLOSED", 1))
      BY <1>1, <2>1, EffectSteps, CertainStep DEF Early, Awaiting, Done
    <3>2. Plain("terminal", "evidence") /\ (run'.pc = "catch" \/ Holds("CLOSED", 1))
      BY <1>1, <2>1, EffectSteps, ChecksPlain
    <3>3. ProviderOK'
      <4>1. CASE run'.pc = "catch"
        BY <3>2, <4>1, EffectPlain
      <4>2. CASE run'.pc = "evidence"
        <5>1. Holds("CLOSED", 1)'
          BY <3>1, <4>2, HoldsStill DEF ProofStep
        <5>2. NobodyRuns' /\ deletes' = 1 /\ key' = "gone"
          BY <3>2 DEF Plain, ProviderOK, NobodyRuns, Running
        <5> QED  BY <4>2, <5>1, <5>2 DEF ProviderOK
      <4> QED  BY <3>2, <4>1, <4>2 DEF Plain
    <3> QED  BY <3>1, <3>3
  <2>2. CASE \E now \in U64, n \in Nonce :
               /\ row' \in {row} \cup {Stored(o) : o \in BarrierCalls(now, n)}
               /\ At("barriers") /\ (Goto("terminal") \/ Throws)
               /\ UNCHANGED <<script, provider, receipt, evidence, others>>
    <3>1. PICK now \in U64, n \in Nonce :
            /\ row' \in {row} \cup {Stored(o) : o \in BarrierCalls(now, n)}
            /\ At("barriers") /\ (Goto("terminal") \/ Throws)
            /\ UNCHANGED <<script, provider, receipt, evidence, others>>
      BY <2>2
    <3>2. GoodRow(row)
      BY <3>1, IncidentKnown DEF At, Early, Done
    <3>3. \A o \in BarrierCalls(now, n) : GoodRow(Stored(o))
      BY <3>2, StoredGood DEF BarrierCalls
    <3>4. row' = row \/ GoodRow(row')
      BY <3>1, <3>3
    <3>5. UNCHANGED <<script, key, deletes, tokens, branch, receipt, files, pushed, inbox, gate, child>>
      BY <3>1 DEF provider, evidence, others
    <3>6. run' \in Runner /\ run'.pc \in {"terminal", "catch"} /\ run'.passed = run.passed
      BY <1>1, <3>1, EffectSteps, GotoTyped, ThrowsTyped, GotoPlain DEF Throws
    <3>7. Plain("barriers", "terminal")
      BY <1>1, <3>1, <3>4, <3>5, <3>6 DEF Plain, Typed, At
    <3> QED  BY <3>7, EffectPlain, OtherStep DEF Awaiting, Done, Early
  <2> QED  BY <1>8, <2>1, <2>2, Zenon DEF r4e_barriers
<1>9. CASE Stops
  <2>1. Plain("catch", "ended")
    BY <1>1, <1>9, StopsPlain
  <2> QED  BY <2>1, EffectPlain DEF ProofStep, Plain, Early, Awaiting, Done
<1> QED  BY <1>2, <1>3, <1>4, <1>5, <1>6, <1>7, <1>8, <1>9 DEF R4E

LEMMA R4EPreserves ==
  ASSUME Parts, script = "R4E", R4E
  PROVE  Parts'
<1>1. World /\ RowOK /\ ProofOK /\ PassedOK /\ ProviderOK
  BY DEF Parts, ScriptOK
<1>2. World' /\ RowOK' /\ ProofOK' /\ PassedOK' /\ ProviderOK' /\ script' = "R4E"
  <2>1. CASE Launches("mint", TRUE)
    <3>1. "mint" \in Step \cap Early
      BY DEF Step, Early
    <3>2. /\ World' /\ RowOK' /\ ProofOK' /\ PassedOK' /\ NobodyRuns' /\ script' = script
          /\ run'.pc \in {"mint", "catch"} /\ deletes' = 0
      BY <1>1, <2>1, <3>1, LaunchKeeps
    <3> QED  BY <3>2 DEF ProviderOK
  <2>2. CASE r4e_delete
    <3>1. /\ run.pc = "delete" /\ deletes' = deletes + 1 /\ (Goto("after") \/ Throws)
          /\ key' \in {key, "gone"}
          /\ UNCHANGED <<script, tokens, branch, row, receipt, evidence, others>>
      BY <2>2, Zenon DEF r4e_delete, At
    <3>2. UNCHANGED <<script, tokens, branch, row, receipt, files, pushed, inbox, gate, child>>
      BY <3>1 DEF evidence, others
    <3>3. run' \in Runner /\ run'.pc \in {"after", "catch"} /\ run'.passed = run.passed
      BY <1>1, <3>1, EffectSteps, GotoTyped, ThrowsTyped, GotoPlain DEF Throws, World
    <3>4. deletes' = 1
      BY <1>1, <3>1 DEF ProviderOK
    <3>5. World' /\ RowOK'
      BY <1>1, <3>1, <3>2, <3>3, <3>4 DEF World, Typed, RowOK
    <3>6. ProofOK' /\ PassedOK'
      BY <1>1, <3>1, <3>2, <3>3 DEF ProofOK, PassedOK, Done
    <3>7. ProviderOK'
      BY <1>1, <3>2, <3>3, <3>4 DEF ProviderOK, NobodyRuns, Running
    <3> QED  BY <3>2, <3>5, <3>6, <3>7
  <2>3. CASE Passes("evidence")
    <3>1. /\ World' /\ RowOK' /\ ProofOK'
          /\ run.pc = "evidence" /\ run'.pc = "ended"
          /\ run'.claim = run.claim /\ run'.start = run.start
          /\ UNCHANGED <<script, key, deletes, row, child>>
      BY <1>1, <2>3, PassesKeeps
    <3>2. Holds("CLOSED", 1)' /\ key' = "gone" /\ deletes' = 1
      BY <1>1, <3>1, HoldsStill DEF ProviderOK
    <3>3. Reported'
      BY <3>1, <3>2 DEF Reported, Holds, RowIs
    <3>4. NobodyRuns'
      BY <1>1, <3>1 DEF ProviderOK, NobodyRuns, Running
    <3> QED  BY <3>1, <3>3, <3>4 DEF PassedOK, ProviderOK
  <2>4. CASE ProofStep(Holds("CLOSED", 1)) /\ ProviderOK'
    BY <1>1, <2>4, ProofStepKeeps
  <2> QED  BY <1>1, <2>1, <2>2, <2>3, <2>4, R4EPlain
<1> QED  BY <1>2 DEF Parts, ScriptOK, Script, Causal
----------------------------------------------------------------------------
(* The invariant is inductive.                                              *)

\* Whoever is not waiting for anything takes no step.
LEMMA OnlyRunningStep ==
  ASSUME NEW c \in Contender, ContenderStep(c)
  PROVE  Running(c) /\ run' = run
<1>1. \/ ChildAt(c, "connect") \/ ChildAt(c, "barrier") \/ ChildAt(c, "claim") \/ ChildAt(c, "proposals")
      \/ ChildAt(c, "confirm") \/ ChildAt(c, "begin") \/ ChildAt(c, "confirm-start") \/ ChildAt(c, "mint")
      \/ ChildAt(c, "precheck") \/ ChildAt(c, "hold") \/ ChildAt(c, "delete") \/ ChildAt(c, "after")
      \/ ChildAt(c, "finalize-unknown") \/ ChildAt(c, "settle") \/ ChildAt(c, "finally")
  BY Zenon DEF ContenderStep, connect, await_barrier, claim_effect, await_proposals, confirm_claim_call,
     begin_effect, confirm_effect_start_call, mint, precheck, hold, delete_key, after, finalize_unknown, settle, finally
<1>2. UNCHANGED waiting_runner
  BY Zenon DEF ContenderStep, connect, await_barrier, claim_effect, await_proposals, confirm_claim_call,
     begin_effect, confirm_effect_start_call, mint, precheck, hold, delete_key, after, finalize_unknown, settle, finally
<1>3. child[c].pc \in Waiting
  BY <1>1, WaitingSteps DEF ChildAt
<1> QED  BY <1>2, <1>3 DEF Running, waiting_runner

LEMMA NextPreserves ==
  ASSUME IInv, Next
  PROVE  IInv'
<1>1. Parts /\ row \in IncidentAuthority \cup {None}
  BY PartsOfInvariant
<1>2. CASE RunnerStep
  BY <1>1, <1>2, R3Preserves, R1Preserves, B1Preserves, R2BPreserves, R4CPreserves, R4DPreserves, R4DR1Preserves,
     R4EPreserves, InvariantOfParts DEF RunnerStep
<1>3. CASE Receives
  <2>1. CASE script = "R2B"
    BY <1>1, <1>3, <2>1, ReplayReceiverPreserves, InvariantOfParts DEF Receives
  <2>2. CASE script # "R2B"
    <3>1. /\ script \in Causal
          /\ \E reserves \in BOOLEAN : (reserves => script # "R3") /\ Delivers(reserves)
      BY <1>3, <2>2 DEF Receives, Causal, r3_startE2EReceiver, r1_startE2EReceiver, b1_startC2LiveWebhookServer
    <3> QED  BY <1>1, <3>1, DeliversPreserves, InvariantOfParts
  <2> QED  BY <2>1, <2>2
<1>4. CASE \E c \in Contender : ChildStep(c) \/ die(c)
  <2>1. PICK c \in Contender : ChildStep(c) \/ die(c)
    BY <1>4
  <2>2. CASE die(c)
    BY <1>1, <2>2, R3ChildPreserves, DiesPreserves, InvariantOfParts
  <2>3. CASE script = "R3" /\ ContenderStep(c)
    BY <1>1, <2>3, R3ChildPreserves, InvariantOfParts
  <2>4. CASE script = "R2B" /\ ContenderStep(c)
    <3>1. NobodyRuns
      BY <1>1, <2>4 DEF Parts, ScriptOK, ReplayOK
    <3> QED  BY <2>4, <3>1, OnlyRunningStep DEF NobodyRuns
  <2>5. CASE script = "R4C" /\ claim_contender(c)
    BY <1>1, <2>5, ClaimContenderPreserves, InvariantOfParts
  <2>6. CASE script = "R4DR1" /\ start_contender(c)
    BY <1>1, <2>6, StartContenderPreserves, InvariantOfParts
  <2> QED  BY <2>1, <2>2, <2>3, <2>4, <2>5, <2>6 DEF ChildStep
<1>5. CASE crash
  BY <1>1, <1>5, CrashPreserves, InvariantOfParts
<1>6. CASE relaunch
  BY <1>1, <1>6, RelaunchPreserves, InvariantOfParts
<1> QED  BY <1>2, <1>3, <1>4, <1>5, <1>6 DEF Next

\* A step that changes nothing keeps every part.
LEMMA StutterPreserves ==
  ASSUME IInv, UNCHANGED vars
  PROVE  IInv'
<1>1. UNCHANGED <<script, run, key, deletes, tokens, branch, row, receipt, files, pushed, inbox, gate, child>>
  BY DEF vars
<1>2. /\ TypeOK' /\ OneTrigger' /\ (row' # None => valid_shape(row)')
      /\ script' \in Script /\ receipt'["other"] # "ACCEPTED"
  BY <1>1 DEF IInv, TypeOK, OneTrigger
<1>3. (Reported' <=> Reported) /\ (NobodyRuns' <=> NobodyRuns)
  BY <1>1 DEF Reported, RowIs, NobodyRuns, Running
<1>4. CausalOK' <=> CausalOK
  BY <1>1 DEF CausalOK, Published, TokensHeld
<1>5. RaceOK' <=> RaceOK
  BY <1>1 DEF RaceOK, ContenderOK, IsOwner, Running, NobodyRuns, RowIs
<1>6. (ClosedOK' <=> ClosedOK) /\ (RemainingOK' <=> RemainingOK) /\ (ReplayOK' <=> ReplayOK)
  BY <1>1, <1>3 DEF ClosedOK, FinalEvidence, RowIs, RemainingOK, ReplayOK
<1>7. (ProofOK' <=> ProofOK) /\ (ClaimRaceOK' <=> ClaimRaceOK) /\ (StartOK' <=> StartOK) /\ (ProviderOK' <=> ProviderOK)
  BY <1>1, <1>3 DEF ProofOK, ClaimRaceOK, StartOK, ProviderOK, Holds, RowIs, StartCommitted, Running
<1> QED  BY <1>1, <1>2, <1>3, <1>4, <1>5, <1>6, <1>7 DEF IInv

LEMMA InitInvariant ==
  ASSUME Init
  PROVE  IInv
<1>1. script \in Script /\ World /\ RowOK /\ PassedOK /\ ScriptOK
  BY InitParts DEF Parts
<1>2. TypeOK
  BY <1>1 DEF TypeOK, World, Typed, RowOK, GoodRow
<1> QED  BY <1>1, <1>2 DEF IInv, PassedOK, ScriptOK, OneTrigger, World, RowOK, GoodRow

\* What a runner has done at each step, what a contender holds and what a later launch
\* keeps is so after any interleaving of runner, receiver, contenders, crashes and launches.
THEOREM Invariance == Spec => []IInv
<1>1. Init => IInv
  BY InitInvariant
<1>2. IInv /\ [Next]_vars => IInv'
  BY NextPreserves, StutterPreserves
<1> QED  BY <1>1, <1>2, PTL DEF Spec

\* The state keeps its shape; evidence on the remote was in the working tree first, and the
\* key of a launch is sent at most one DELETE, whoever sends it.
THEOREM TypeCorrect == Spec => []TypeOK
<1>1. IInv => TypeOK
  BY DEF IInv
<1> QED  BY <1>1, Invariance, PTL

\* However often the scripts are killed and launched again, the sandbox branch sees at most
\* one secret push (the refusals of a second run before the first policy commit).
THEOREM SecretPushedOnce == Spec => []OneTrigger
<1>1. IInv => OneTrigger
  BY DEF IInv
<1> QED  BY <1>1, Invariance, PTL

\* A FINAL record or a success report is true of GitHub, C1, the receipts and the branch when
\* it is there, and stays true through every later launch (the last writeJson of each script).
THEOREM EvidenceIsTrue == Spec => []PassIsTrue
<1>1. IInv => PassIsTrue
  BY DEF IInv, ClosedOK, PassIsTrue
<1> QED  BY <1>1, Invariance, PTL

LEMMA InvariantAuthorises ==
  ASSUME IInv
  PROVE  AuthorisedDelete
<1>1. ASSUME NEW c \in Contender, child[c].pc = "delete"
      PROVE  /\ gate.release /\ gate.effect = child[c].start
             /\ row.status = "EFFECT_STARTED" /\ row.effect_start_id = child[c].start
             /\ tokens \cap Contender = {c}
             /\ {"POLICY", "MARKER"} \subseteq pushed
             /\ key = "present" /\ deletes = 0
  <2>1. Running(c)
    BY <1>1, WaitingSteps DEF Running
  <2>2. script = "R3"
    <3>1. script \notin {"R4C", "R4DR1"}
      BY <1>1, <2>1 DEF IInv, ClaimRaceOK
    <3>2. script \notin {"R1", "B1", "R2B", "R4D", "R4E"}
      BY <2>1 DEF IInv, NobodyRuns, ReplayOK, StartOK, ProviderOK
    <3> QED  BY <3>1, <3>2 DEF IInv, Script
  <2>3. RaceOK /\ ContenderOK(c)
    BY <2>1, <2>2 DEF IInv, RaceOK
  <2>4. /\ gate.release /\ gate.effect = child[c].start
        /\ row.status = "EFFECT_STARTED" /\ row.effect_start_id = child[c].start
        /\ {"POLICY", "MARKER"} \subseteq pushed
        /\ key = "present" /\ deletes = 0 /\ c \in tokens /\ IsOwner(c)
    BY <1>1, <2>3 DEF ContenderOK, Armed
  <2>5. \A d \in tokens \cap Contender : d = c
    BY <2>3, <2>4, OneOwnerOfStart DEF RaceOK
  <2> QED  BY <2>4, <2>5
<1>2. script = "R4E" /\ run.pc = "delete" => /\ RowIs("EFFECT_STARTED") /\ row.effect_start_id = run.start
                                             /\ key = "present" /\ deletes = 0
  BY DEF IInv, ProviderOK, StartCommitted, Holds
<1> QED  BY <1>1, <1>2 DEF AuthorisedDelete

\* A DELETE on C1's authority is about to be sent only under the start C1 holds, after the
\* operator has seen and released that very start, by the only contender with a token, with
\* policy and marker public and the key not yet deleted (R3's barriers, R4E's readback).
THEOREM DeletesAreAuthorised == Spec => []AuthorisedDelete
  BY Invariance, InvariantAuthorises, PTL

LEMMA ReplayStep ==
  ASSUME IInv, [Next]_vars, script = "R2B", run' # run
  PROVE  UNCHANGED <<row, receipt, key, deletes, tokens, branch, files, pushed>>
<1>1. Parts /\ row \in IncidentAuthority \cup {None}
  BY PartsOfInvariant
<1>2. CASE RunnerStep
  <2>1. R2B
    BY <1>2 DEF RunnerStep
  <2> QED  BY <1>1, <2>1, R2BPreserves, ReplayKeeps
<1>3. CASE Receives
  <2>1. r2b_createR2BReplayWebhookServer
    BY <1>3 DEF Receives
  <2>2. run' = run
    BY <2>1, Zenon DEF r2b_createR2BReplayWebhookServer, Arrives, Captures
  <2> QED  BY <2>2
<1>4. CASE \E c \in Contender : ChildStep(c) \/ die(c)
  <2>1. PICK c \in Contender : ContenderStep(c) \/ die(c)
    BY <1>4 DEF ChildStep
  <2>2. run' = run
    BY <2>1, OnlyRunningStep DEF die, waiting_runner
  <2> QED  BY <2>2
<1>5. CASE crash
  BY <1>5 DEF crash, provider, evidence
<1>6. CASE relaunch
  BY <1>6 DEF relaunch, provider, evidence
<1>7. CASE UNCHANGED vars
  BY <1>7 DEF vars
<1> QED  BY <1>2, <1>3, <1>4, <1>5, <1>6, <1>7 DEF Next

\* The replay of a closed incident reserves and claims for real and changes nothing: not the
\* row, the receipts, the key, the tokens, the branch or the evidence of the run it replays.
THEOREM ReplaysAreHarmless == Spec => ReplayChangesNothing
<1> DEFINE Harmless ==
      script = "R2B" /\ run' # run => UNCHANGED <<row, receipt, key, deletes, tokens, branch, files, pushed>>
<1>1. IInv /\ [Next]_vars => [Harmless]_vars
  BY ReplayStep
<1> HIDE DEF Harmless
<1>2. Spec => [][Harmless]_vars
  BY <1>1, Invariance, PTL DEF Spec
<1> QED  BY <1>2 DEF Harmless, ReplayChangesNothing
=============================================================================
