------------------------- MODULE EffectBrokerProofs -------------------------
(***************************************************************************)
(* Theorems about EffectBroker, for every number of children, crashes,     *)
(* handoffs and claim generations: at most one DELETE, write authority     *)
(* only under the committed start, closure only when the key is gone, true *)
(* result files, and the refinement of OneShotEffect.                      *)
(***************************************************************************)
EXTENDS EffectBroker, C1ModelLemmas

\* What every C1 call keeps of the row: its validity, a committed start, closure.
RowKept(a, b) ==
  /\ GoodRow(b)
  /\ a.effect_start_id # None => b.effect_start_id = a.effect_start_id
  /\ a.status = "CLOSED" => b.status = "CLOSED"

\* ... and what every call keeps that does not report VERIFIED_ABSENT.
Quiet(a, b) == RowKept(a, b) /\ (b.status = "CLOSED" => a.status = "CLOSED")

\* A call that stores nothing keeps everything.
LEMMA SameRow == ASSUME NEW a, GoodRow(a) PROVE Quiet(a, a)
  BY DEF Quiet, RowKept

\* Expiry keeps everything: a row it touches has no start and is not closed.
LEMMA ExpireQuiet ==
  ASSUME NEW a, GoodRow(a)
  PROVE  Quiet(a, Expire(a)) /\ Expire(a).effect_start_id = a.effect_start_id
  <1>1. CASE a.status \in {"ACTIVE", "RESERVED", "READY_RETRY"}
    BY <1>1, ExpireGood DEF Quiet, RowKept, GoodRow, IncidentAuthority
  <1>2. CASE a.status \notin {"ACTIVE", "RESERVED", "READY_RETRY"}
    BY <1>2, SameRow DEF Expire
  <1> QED
    BY <1>1, <1>2

\* A row without a start: whatever it becomes keeps it, short of closing.
LEMMA UnstartedKept ==
  ASSUME NEW a, NEW b, GoodRow(a), GoodRow(b),
         a.status \in {"RESERVED", "READY_RETRY", "EFFECT_CLAIMED"},
         b.status \in {"READY_RETRY", "EFFECT_CLAIMED", "EFFECT_STARTED"}
  PROVE  Quiet(a, b)
  BY DEF Quiet, RowKept, GoodRow, valid_shape, StatusShape, NoEffect

\* claim-effect, whatever its fate, leaves the start alone, and a proposal names
\* a claim.
LEMMA ClaimRow ==
  ASSUME GoodRow(row), NEW t, NEW version, NEW nonce, NEW o,
         o = claim_with_nonce(row, Broker, t, version, nonce), NEW f \in FatesOrDoubled(o)
  PROVE  /\ Quiet(row, f.row)
         /\ f.row.effect_start_id = row.effect_start_id
         /\ o.decision = "Proposed" => o.authority.effect_claim_id \in StateId
  <1>1. CASE o.decision = "Proposed"
    <2>1. /\ o.authority = Claimed(row, nonce) /\ GoodRow(Claimed(row, nonce))
          /\ row.status \in {"RESERVED", "READY_RETRY"}
      BY <1>1, ClaimOutcome
    <2>2. /\ Claimed(row, nonce).status = "EFFECT_CLAIMED"
          /\ Claimed(row, nonce).effect_start_id = row.effect_start_id
          /\ Claimed(row, nonce).effect_claim_id # None
      BY <2>1, AssumptionsHold
      DEF Claimed, GoodRow, IncidentAuthority, Assumptions, valid_shape, StatusShape
    <2>3. Claimed(row, nonce).effect_claim_id \in StateId
      BY <2>1, <2>2 DEF GoodRow, IncidentAuthority
    <2>4. Quiet(row, Claimed(row, nonce))
      BY <2>1, <2>2, UnstartedKept
    <2>5. f.row \in {row, Claimed(row, nonce)}
      BY <2>1 DEF FatesOrDoubled, Fates, Stored
    <2> QED
      BY <2>1, <2>2, <2>3, <2>4, <2>5, SameRow
  <1>2. CASE o.decision # "Proposed"
    <2>1. o.authority \in {row, Expire(row)}
      BY <1>2, ClaimOutcome
    <2>2. f.row \in {row, Expire(row)}
      BY <2>1 DEF FatesOrDoubled, Fates, Stored
    <2> QED
      BY <1>2, <2>2, ExpireQuiet, SameRow
  <1> QED
    BY <1>1, <1>2

\* begin-effect, whatever its fate, replaces no start, and a win names the
\* child's own.
LEMMA BeginRow ==
  ASSUME GoodRow(row), NEW claim, NEW t, NEW nonce, NEW o,
         o = begin_effect_with_nonce(row, Broker, claim, nonce, t), NEW f \in FatesOrDoubled(o)
  PROVE  /\ Quiet(row, f.row)
         /\ o.decision = "Won" =>
             /\ row.effect_start_id = None
             /\ o.authority.effect_start_id \in StateId /\ o.authority.effect_start_id.nonce = nonce
  <1>1. CASE o.decision = "Won"
    <2> DEFINE b == Begun(row, StartOf(row, nonce))
    <2>1. o.authority = b /\ GoodRow(b) /\ row.status = "EFFECT_CLAIMED" /\ StartOf(row, nonce) \in StateId
      BY <1>1, BeginOutcome DEF OwnsClaim
    <2>2. b.status = "EFFECT_STARTED" /\ b.effect_start_id = StartOf(row, nonce)
      BY DEF Begun, GoodRow, IncidentAuthority
    <2>3. Quiet(row, b)
      BY <2>1, <2>2, UnstartedKept
    <2>4. f.row \in {row, b}
      BY <2>1 DEF FatesOrDoubled, Fates, Stored
    <2>5. StartOf(row, nonce).nonce = nonce /\ row.effect_start_id = None
      BY <2>1 DEF StartOf, GoodRow, valid_shape, StatusShape, NoEffect
    <2> QED
      BY <2>1, <2>2, <2>3, <2>4, <2>5, SameRow
  <1>2. CASE o.decision # "Won"
    <2>1. o.authority = row
      BY <1>2 DEF begin_effect_with_nonce, Outcome
    <2>2. f.row = row
      BY <2>1 DEF FatesOrDoubled, Fates, Stored
    <2> QED
      BY <1>2, <2>2, SameRow
  <1> QED
    BY <1>1, <1>2

\* finalize and reconcile, whatever their fate, keep the start; they close only
\* on VERIFIED_ABSENT, and an answered win with it means closed.
LEMMA SettleRow ==
  ASSUME GoodRow(row), NEW claim, NEW start, NEW class, NEW o,
         \/ o = finalize_with_start(row, Broker, claim, start, class)
         \/ o = reconcile_with_start(row, Broker, claim, start, class),
         NEW f \in Fates(o)
  PROVE  /\ RowKept(row, f.row)
         /\ f.row.effect_start_id = row.effect_start_id
         /\ class # "VERIFIED_ABSENT" => Quiet(row, f.row)
         /\ (class = "VERIFIED_ABSENT" /\ f.reply /\ o.decision = "Won") => f.row.status = "CLOSED"
  <1>1. CASE o.decision = "Won"
    <2>1. PICK status \in {"CLOSED", "RECONCILE_REQUIRED", "FAILED"} :
            /\ o.authority = Settled(row, status, class)
            /\ row.status \in {"EFFECT_STARTED", "RECONCILE_REQUIRED", "FAILED"}
            /\ GoodRow(Settled(row, status, class))
      BY <1>1, SettleOutcome
    <2> DEFINE b == Settled(row, status, class)
    <2>2. /\ b.status = status /\ b.final_result_classification = class
          /\ b.effect_start_id = row.effect_start_id
      BY DEF Settled, GoodRow, IncidentAuthority
    <2>3. status = "CLOSED" <=> class = "VERIFIED_ABSENT"
      BY <2>1, <2>2 DEF GoodRow, valid_shape, StatusShape
    <2>4. RowKept(row, b) /\ (class # "VERIFIED_ABSENT" => Quiet(row, b))
      BY <2>1, <2>2, <2>3 DEF RowKept, Quiet
    <2>5. f.row \in {row, b} /\ (f.reply => f.row = b)
      BY <1>1, <2>1 DEF Fates, Stored, Writes
    <2> QED
      BY <2>2, <2>3, <2>4, <2>5, SameRow DEF Quiet
  <1>2. CASE o.decision # "Won"
    <2>1. o.authority = row
      BY <1>2 DEF finalize_with_start, reconcile_with_start, Outcome
    <2>2. f.row = row
      BY <2>1 DEF Fates, Stored
    <2> QED
      BY <1>2, <2>2, SameRow DEF Quiet
  <1> QED
    BY <1>1, <1>2

----------------------------------------------------------------------------
(* Steps of one child that leave the result file and the DELETE count alone,*)
(* and steps of nobody's child.                                             *)

\* Such a step keeps the invariant when the child's new state agrees with the
\* new row, key and tokens.
LEMMA ChildKeeps ==
  ASSUME IInv, NEW c \in Child, NEW s \in ChildState, Becomes(c, s),
         child[c].pc # "ended",
         child[c].pc \in PastDelete => s.pc \in PastDelete,
         RowKept(row, row'), row'.status = "CLOSED" => ~key',
         key' = key, inflight' = inflight, deletes' = deletes,
         tokens' \subseteq tokens \cup {c},
         Consistent(c, s, row', key', tokens'),
         UNCHANGED runtime
  PROVE  IInv'
  <1>1. child' \in [Child -> ChildState] /\ child'[c] = s /\ \A d \in Child \ {c} : child'[d] = child[d]
    BY DEF IInv, TypeOK, Becomes
  <1>2. TypeOK'
    BY <1>1 DEF IInv, TypeOK, RowKept, GoodRow, runtime
  <1>3. ASSUME NEW d \in Child PROVE Consistent(d, child'[d], row', key', tokens')
    <2>1. CASE d = c
      BY <1>1, <2>1
    <2>2. CASE d # c
      <3>1. d \in tokens' => d \in tokens
        BY <2>2
      <3>2. child'[d] = child[d] /\ Consistent(d, child[d], row, key, tokens)
        BY <1>1, <2>2 DEF IInv
      <3> QED
        BY <3>1, <3>2 DEF Consistent, RowKept
    <2> QED
      BY <2>1, <2>2
  <1>4. DeleteSpent'
    <2>1. deletes # 0 => row'.effect_start_id = row.effect_start_id
      BY DEF IInv, DeleteSpent, RowKept
    <2>2. deletes # 0 => child'[row.effect_start_id.nonce].pc \in PastDelete
      <3>1. deletes # 0 => row.effect_start_id.nonce \in Child
        BY DEF IInv, DeleteSpent, TypeOK, IncidentAuthority, StateId, Child
      <3> QED
        BY <1>1, <3>1 DEF IInv, DeleteSpent
    <2> QED
      BY <2>1, <2>2 DEF IInv, DeleteSpent
  <1>5. ResultHolds'
    <2>1. result # None => result.by \in Child
      BY DEF IInv, TypeOK, Result
    <2>2. result # None /\ result.closed =>
            result.by # c /\ result.by \notin tokens' /\ child'[result.by].pc = "ended"
      BY <1>1, <2>1 DEF IInv, ResultHolds, At
    <2> QED
      BY <2>2 DEF IInv, ResultHolds, RowKept, runtime, At
  <1> QED
    BY <1>2, <1>3, <1>4, <1>5 DEF IInv, RowKept, GoodRow, runtime

\* A step that moves no child keeps the invariant when it closes nothing with
\* the key present.
LEMMA OutsideKeeps ==
  ASSUME IInv, UNCHANGED child, UNCHANGED deletes, UNCHANGED result,
         RowKept(row, row'), row'.status = "CLOSED" => ~key',
         key' \in {key, FALSE}, inflight' \subseteq Child, tokens' \subseteq tokens,
         job' \in Job, worker' \in Worker,
         worker'.pc = "reconcile" /\ worker'.class = "VERIFIED_ABSENT" => ~key'
  PROVE  IInv'
  <1>1. TypeOK'
    BY DEF IInv, TypeOK, RowKept, GoodRow
  <1>2. ASSUME NEW d \in Child PROVE Consistent(d, child'[d], row', key', tokens')
    <2>1. Consistent(d, child[d], row, key, tokens) /\ key \in BOOLEAN
      BY DEF IInv, TypeOK
    <2>2. d \in tokens' => d \in tokens
      OBVIOUS
    <2>3. ~key => ~key'
      BY <2>1
    <2> QED
      BY <2>1, <2>2, <2>3 DEF Consistent, RowKept
  <1>3. DeleteSpent'
    BY DEF IInv, DeleteSpent, RowKept
  <1>4. ResultHolds'
    BY DEF IInv, ResultHolds, RowKept, At
  <1> QED
    BY <1>1, <1>2, <1>3, <1>4 DEF IInv, RowKept, GoodRow

\* Nothing moves, nothing changes.
LEMMA StutterKeeps == ASSUME IInv, UNCHANGED vars PROVE IInv'
  <1>1. RowKept(row, row) /\ GoodRow(row)
    BY SameRow DEF Quiet, RowKept, IInv, TypeOK, GoodRow
  <1>2. worker \in Worker /\ job \in Job /\ inflight \subseteq Child /\ UNCHANGED <<row, key, tokens>>
    BY DEF IInv, TypeOK, vars
  <1>3. row'.status = "CLOSED" => ~key'
    BY <1>2 DEF IInv
  <1>4. worker'.pc = "reconcile" /\ worker'.class = "VERIFIED_ABSENT" => ~key'
    BY <1>2 DEF IInv, vars
  <1> QED
    BY <1>1, <1>2, <1>3, <1>4, OutsideKeeps DEF vars

\* The facts of IInv every step of a child c uses.
LEMMA Facts ==
  ASSUME IInv, NEW c \in Child
  PROVE  /\ GoodRow(row) /\ Quiet(row, row)
         /\ child[c] \in ChildState
         /\ Consistent(c, child[c], row, key, tokens)
         /\ row.status = "CLOSED" => ~key
         /\ key \in BOOLEAN /\ tokens \subseteq Child /\ inflight \subseteq Child /\ deletes \in Nat
         /\ job \in Job /\ worker \in Worker
  BY SameRow DEF IInv, TypeOK, GoodRow

\* Moving on without learning anything is always consistent, short of a step
\* that stands for something.
LEMMA MoveConsistent ==
  ASSUME NEW c \in Child, NEW s \in ChildState, NEW r, NEW k, NEW live, Consistent(c, s, r, k, live),
         NEW pc \in Running, ~s.closed,
         pc \in PastConfirmation => s.confirmed,
         pc # "confirm-effect-start",
         pc \in {"finalize-unknown", "verify", "settle"} => c \notin live,
         pc = "settle" => ~k,
         pc = "finalize-unknown" => s.class = "ATTEMPTED_OUTCOME_UNKNOWN"
  PROVE  [s EXCEPT !.pc = pc] \in ChildState /\ Consistent(c, [s EXCEPT !.pc = pc], r, k, live)
  <1>1. [s EXCEPT !.pc = pc] \in ChildState
    BY DEF ChildState
  <1>2. /\ [s EXCEPT !.pc = pc].pc = pc /\ [s EXCEPT !.pc = pc].start = s.start
        /\ [s EXCEPT !.pc = pc].confirmed = s.confirmed /\ [s EXCEPT !.pc = pc].closed = s.closed
        /\ [s EXCEPT !.pc = pc].class = s.class
    BY DEF ChildState
  <1> QED
    BY <1>1, <1>2 DEF Consistent

\* What a row that keeps its start and its closure keeps of a child's state.
LEMMA RowConsistent ==
  ASSUME NEW c \in Child, NEW s, NEW r, NEW b, NEW k, NEW live, Consistent(c, s, r, k, live), RowKept(r, b)
  PROVE  Consistent(c, s, b, k, live)
  BY DEF Consistent, RowKept

\* The steps of a child that only move on, over a row that is quietly kept.
LEMMA QuietMove ==
  ASSUME IInv, NEW c \in Child, NEW pc \in Running, Goto(c, pc),
         child[c].pc \in Running \ {"persist"},
         child[c].pc \in PastDelete => pc \in PastDelete,
         pc \in PastConfirmation => child[c].pc \in PastConfirmation,
         pc # "confirm-effect-start",
         pc \in {"finalize-unknown", "verify", "settle"} => c \notin tokens',
         pc = "settle" => ~key,
         pc = "finalize-unknown" => child[c].class = "ATTEMPTED_OUTCOME_UNKNOWN",
         Quiet(row, row'), key' = key, inflight' = inflight, deletes' = deletes,
         tokens' \subseteq tokens, UNCHANGED runtime
  PROVE  IInv'
  <1> DEFINE s == [child[c] EXCEPT !.pc = pc]
  <1>1. ~child[c].closed /\ (pc \in PastConfirmation => child[c].confirmed)
    BY Facts DEF Consistent
  <1>2. Consistent(c, child[c], row', key', tokens')
    <2>1. Consistent(c, child[c], row, key, tokens')
      BY Facts DEF Consistent
    <2> QED
      BY <2>1, RowConsistent DEF Quiet
  <1>3. s \in ChildState /\ Consistent(c, s, row', key', tokens')
    BY <1>1, <1>2, Facts, MoveConsistent
  <1>4. s.pc = pc
    BY Facts DEF ChildState
  <1>5. row'.status = "CLOSED" => ~key'
    BY Facts DEF Quiet
  <1>6. child[c].pc # "ended"
    BY DEF Running
  <1> QED
    BY <1>3, <1>4, <1>5, <1>6, ChildKeeps DEF Goto, Quiet

\* claim-effect: a proposal is remembered, anything else ends the child.
LEMMA ClaimStep == ASSUME IInv, NEW c \in Child, claim_effect(c) PROVE IInv'
  <1>1. PICK t \in U64 :
          LET o == claim_with_nonce(row, Broker, t, child[c].expected, c)
          IN  \E f \in FatesOrDoubled(o) :
                /\ row' = f.row
                /\ IF f.reply /\ o.decision = "Proposed"
                   THEN Becomes(c, [child[c] EXCEPT !.pc = "persist-proposal",
                                                    !.claim = o.authority.effect_claim_id])
                   ELSE Goto(c, "persist")
    BY DEF claim_effect
  <1> DEFINE o == claim_with_nonce(row, Broker, t, child[c].expected, c)
             s == [child[c] EXCEPT !.pc = "persist-proposal", !.claim = o.authority.effect_claim_id]
  <1>2. /\ Quiet(row, row')
        /\ \/ o.authority.effect_claim_id \in StateId /\ Becomes(c, s)
           \/ Goto(c, "persist")
    BY <1>1, Facts, ClaimRow
  <1>3. UNCHANGED <<key, inflight, tokens, deletes>> /\ UNCHANGED runtime /\ child[c].pc = "claim-effect"
    BY DEF claim_effect, provider, At
  <1>4. CASE Goto(c, "persist")
    BY <1>2, <1>3, <1>4, QuietMove DEF Running, PastDelete, PastConfirmation
  <1>5. CASE o.authority.effect_claim_id \in StateId /\ Becomes(c, s)
    <2>1. /\ s \in ChildState
          /\ s.pc = "persist-proposal" /\ s.start = child[c].start
          /\ s.confirmed = child[c].confirmed /\ s.closed = child[c].closed
      BY <1>5, Facts DEF ChildState, Running
    <2>2. Consistent(c, child[c], row', key', tokens')
      BY <1>2, <1>3, Facts, RowConsistent DEF Quiet
    <2>3. Consistent(c, s, row', key', tokens')
      BY <2>1, <2>2, <1>3 DEF Consistent, PastConfirmation
    <2>4. row'.status = "CLOSED" => ~key'
      BY <1>2, <1>3, Facts DEF Quiet
    <2> QED
      BY <1>2, <1>3, <1>5, <2>1, <2>3, <2>4, ChildKeeps DEF Quiet, PastDelete
  <1> QED
    BY <1>2, <1>4, <1>5

WithStart(s, x) == [s EXCEPT !.pc = "confirm-effect-start", !.start = x]

\* A child that remembers its start changes nothing else.
LEMMA StartRemembered ==
  ASSUME NEW s \in ChildState, NEW x \in StateId
  PROVE  /\ WithStart(s, x) \in ChildState
         /\ WithStart(s, x).pc = "confirm-effect-start" /\ WithStart(s, x).start = x
         /\ WithStart(s, x).confirmed = s.confirmed /\ WithStart(s, x).closed = s.closed
  BY DEF ChildState, Running, WithStart

\* begin-effect: a win is remembered under the child's own nonce.
LEMMA BeginStep == ASSUME IInv, NEW c \in Child, begin_effect(c) PROVE IInv'
  <1>1. UNCHANGED <<key, inflight, tokens, deletes>> /\ UNCHANGED runtime /\ child[c].pc = "begin-effect"
    BY DEF begin_effect, provider, At
  <1>2. CASE Goto(c, "persist") /\ UNCHANGED row
    BY <1>1, <1>2, Facts, QuietMove DEF Running, PastDelete, PastConfirmation
  <1>3. ASSUME NEW t \in U64, NEW o, o = begin_effect_with_nonce(row, Broker, child[c].claim, c, t),
               NEW f \in FatesOrDoubled(o), row' = f.row,
               IF f.reply /\ o.decision = "Won"
               THEN Becomes(c, [child[c] EXCEPT !.pc = "confirm-effect-start",
                                                !.start = o.authority.effect_start_id])
               ELSE Goto(c, "persist")
        PROVE IInv'
    <2>1. /\ Quiet(row, row')
          /\ o.decision = "Won" =>
               /\ row.effect_start_id = None
               /\ o.authority.effect_start_id \in StateId
               /\ o.authority.effect_start_id.nonce = c
      BY <1>3, Facts, BeginRow
    <2>2. CASE Goto(c, "persist")
      BY <1>1, <2>1, <2>2, QuietMove DEF Running, PastDelete, PastConfirmation
    <2>3. CASE ~Goto(c, "persist")
      <3> DEFINE s == WithStart(child[c], o.authority.effect_start_id)
      <3>1. /\ Becomes(c, s) /\ row.effect_start_id = None
            /\ o.authority.effect_start_id \in StateId /\ o.authority.effect_start_id.nonce = c
        BY <1>3, <2>1, <2>3 DEF WithStart
      <3>2. /\ s \in ChildState
            /\ s.pc = "confirm-effect-start" /\ s.start = o.authority.effect_start_id
            /\ s.confirmed = child[c].confirmed /\ s.closed = child[c].closed
        BY <3>1, Facts, StartRemembered
      <3>3. Consistent(c, child[c], row', key', tokens')
        BY <1>1, <2>1, Facts, RowConsistent DEF Quiet
      <3>4. o.authority.effect_start_id # None
        BY <3>1, AssumptionsHold DEF Assumptions
      <3>5. ~child[c].confirmed
        BY <3>1, Facts DEF Consistent
      <3>6. Consistent(c, s, row', key', tokens')
        BY <1>1, <3>1, <3>2, <3>3, <3>4, <3>5 DEF Consistent, PastConfirmation
      <3>7. row'.status = "CLOSED" => ~key'
        BY <1>1, <2>1, Facts DEF Quiet
      <3> QED
        BY <1>1, <2>1, <3>1, <3>2, <3>6, <3>7, ChildKeeps DEF Quiet, PastDelete
    <2> QED
      BY <2>2, <2>3
  <1> QED
    BY <1>2, <1>3 DEF begin_effect

\* The proposal is persisted: not a result that claims anything closed.
LEMMA PersistProposalStep == ASSUME IInv, NEW c \in Child, persist_proposal(c) PROVE IInv'
  <1> DEFINE s == [child[c] EXCEPT !.pc = "confirm-claim"]
  <1>1. /\ child[c].pc = "persist-proposal" /\ Becomes(c, s) /\ result' = ResultOf(c)
        /\ UNCHANGED <<row, key, inflight, tokens, deletes, job, worker>>
    BY DEF persist_proposal, provider, At, Goto
  <1>2. ~child[c].closed
    BY <1>1, Facts DEF Consistent
  <1>3. s \in ChildState /\ Consistent(c, s, row, key, tokens) /\ s.pc = "confirm-claim"
    <2>1. s \in ChildState /\ Consistent(c, s, row, key, tokens)
      BY <1>2, Facts, MoveConsistent DEF Running, PastConfirmation
    <2>2. s.pc = "confirm-claim"
      BY Facts DEF ChildState
    <2> QED
      BY <2>1, <2>2
  <1>4. /\ child' \in [Child -> ChildState] /\ child'[c] = s
        /\ \A d \in Child \ {c} : child'[d] = child[d]
    BY <1>1, <1>3 DEF IInv, TypeOK, Becomes
  <1>5. /\ ResultOf(c) \in Result /\ ResultOf(c).closed = FALSE
        /\ ResultOf(c).confirmed = child[c].confirmed /\ ResultOf(c).start = child[c].start
    BY <1>2, Facts DEF ResultOf, Result, ChildState
  <1>6. TypeOK'
    BY <1>1, <1>4, <1>5 DEF IInv, TypeOK
  <1>7. \A d \in Child : Consistent(d, child'[d], row', key', tokens')
    BY <1>1, <1>3, <1>4 DEF IInv
  <1>8. DeleteSpent'
    <2>1. deletes # 0 => row.effect_start_id.nonce \in Child
      BY DEF IInv, DeleteSpent, TypeOK, IncidentAuthority, StateId, Child
    <2>2. deletes # 0 => row.effect_start_id.nonce # c
      BY <1>1 DEF IInv, DeleteSpent, PastDelete
    <2> QED
      BY <1>1, <1>4, <2>1, <2>2 DEF IInv, DeleteSpent
  <1>9. ResultHolds'
    BY <1>1, <1>5, Facts DEF ResultHolds, Consistent
  <1> QED
    BY <1>1, <1>6, <1>7, <1>8, <1>9 DEF IInv

\* confirm-claim decides only whether the child goes on.
LEMMA ConfirmClaimStep == ASSUME IInv, NEW c \in Child, confirm_claim_call(c) PROVE IInv'
  <1>1. /\ child[c].pc = "confirm-claim" /\ UNCHANGED <<row, key, inflight, tokens, deletes>>
        /\ UNCHANGED runtime
        /\ Goto(c, "begin-effect") \/ Goto(c, "persist")
    BY DEF confirm_claim_call, provider, At
  <1>2. Quiet(row, row')
    BY <1>1, Facts
  <1> QED
    BY <1>1, <1>2, QuietMove DEF Running, PastDelete, PastConfirmation

\* confirm-effect-start: only the child whose start is the row's goes on.
LEMMA ConfirmStartStep == ASSUME IInv, NEW c \in Child, confirm_effect_start_call(c) PROVE IInv'
  <1> DEFINE s == [child[c] EXCEPT !.pc = "mint", !.confirmed = TRUE]
  <1>1. /\ child[c].pc = "confirm-effect-start" /\ UNCHANGED <<row, key, inflight, tokens, deletes>>
        /\ UNCHANGED runtime /\ Quiet(row, row')
    BY Facts DEF confirm_effect_start_call, provider, At
  <1>2. CASE Goto(c, "persist")
    BY <1>1, <1>2, QuietMove DEF Running, PastDelete, PastConfirmation
  <1>3. CASE StartConfirmed(c) /\ Becomes(c, s)
    <2>1. row.effect_start_id = child[c].start /\ child[c].start # None
      BY <1>1, <1>3, Facts DEF StartConfirmed, confirm_effect_start, OwnsStart, Consistent
    <2>2. /\ s \in ChildState /\ s.pc = "mint" /\ s.start = child[c].start
          /\ s.confirmed = TRUE /\ s.closed = child[c].closed
      BY Facts DEF ChildState, Running
    <2>3. Consistent(c, s, row, key, tokens)
      BY <1>1, <2>1, <2>2, Facts DEF Consistent
    <2> QED
      BY <1>1, <1>3, <2>2, <2>3, Facts, ChildKeeps DEF Quiet, PastDelete
  <1> QED
    BY <1>2, <1>3 DEF confirm_effect_start_call

\* mint: the only step that creates write authority, for the committed start.
LEMMA MintStep == ASSUME IInv, NEW c \in Child, mint(c) PROVE IInv'
  <1>1. PICK pc \in {"precheck", "persist"} : Goto(c, pc)
    BY DEF mint
  <1> DEFINE s == [child[c] EXCEPT !.pc = pc]
  <1>2. /\ child[c].pc = "mint" /\ UNCHANGED <<row, key, inflight, deletes>>
        /\ UNCHANGED runtime /\ Quiet(row, row')
        /\ tokens' \subseteq tokens \cup {c}
    BY Facts DEF mint, At
  <1>3. /\ child[c].confirmed /\ child[c].start # None /\ child[c].start = row.effect_start_id
        /\ child[c].start.nonce = c /\ ~child[c].closed
    BY <1>2, Facts DEF Consistent, PastConfirmation
  <1>4. /\ s \in ChildState /\ s.pc = pc /\ s.start = child[c].start
        /\ s.confirmed = child[c].confirmed /\ s.closed = child[c].closed
    BY Facts DEF ChildState, Running
  <1>5. Consistent(c, s, row, key, tokens')
    BY <1>3, <1>4 DEF Consistent
  <1> QED
    BY <1>1, <1>2, <1>4, <1>5, Facts, ChildKeeps DEF Quiet, PastDelete, Goto

\* precheck decides only whether the child deletes.
LEMMA PrecheckStep == ASSUME IInv, NEW c \in Child, precheck(c) PROVE IInv'
  <1>1. /\ child[c].pc = "precheck" /\ UNCHANGED <<row, key, inflight, tokens, deletes>>
        /\ UNCHANGED runtime /\ Quiet(row, row')
        /\ Goto(c, "delete") \/ Goto(c, "finally")
    BY Facts DEF precheck, provider, At
  <1> QED
    BY <1>1, QuietMove DEF Running, PastDelete, PastConfirmation

\* The DELETE: its child is the committed start's and was not past sending one,
\* so nobody had sent one.
LEMMA DeleteStep == ASSUME IInv, NEW c \in Child, delete_key(c) PROVE IInv'
  <1>1. PICK outcome \in {"204", "error", "unknown"} : Deleted(c, outcome)
    BY DEF delete_key
  <1> DEFINE s == [child[c] EXCEPT !.pc = "after", !.delete = outcome]
  <1>2. /\ child[c].pc = "delete" /\ UNCHANGED <<row, tokens>> /\ UNCHANGED runtime
        /\ deletes' = deletes + 1
        /\ key' \in {key, FALSE} /\ inflight' \subseteq inflight \cup {c}
    BY DEF delete_key, At
  <1>3. /\ child[c].confirmed /\ child[c].start # None /\ child[c].start = row.effect_start_id
        /\ child[c].start.nonce = c /\ ~child[c].closed
    BY <1>2, Facts DEF Consistent, PastConfirmation
  <1>4. deletes = 0
    BY <1>2, <1>3, Facts DEF IInv, DeleteSpent, PastDelete
  <1>5. /\ s \in ChildState /\ s.pc = "after" /\ s.start = child[c].start
        /\ s.confirmed = child[c].confirmed /\ s.closed = child[c].closed
    BY Facts DEF ChildState, Running
  <1>6. /\ child' \in [Child -> ChildState] /\ child'[c] = s
        /\ \A d \in Child \ {c} : child'[d] = child[d]
    BY <1>1, <1>5 DEF IInv, TypeOK, Becomes, Deleted, AfterDelete
  <1> HIDE DEF s
  <1>7. TypeOK'
    <2>1. key' \in BOOLEAN /\ inflight' \subseteq Child /\ deletes' \in Nat
      <3>1. key' \in BOOLEAN
        BY <1>2, Facts
      <3>2. inflight' \subseteq Child
        BY <1>2, Facts
      <3> QED
        BY <1>2, <3>1, <3>2, Facts
    <2> QED
      BY <1>2, <1>6, <2>1 DEF IInv, TypeOK, runtime
  <1>8. ASSUME NEW d \in Child PROVE Consistent(d, child'[d], row', key', tokens')
    <2>1. CASE d = c
      <3>1. Consistent(c, child[c], row', key', tokens')
        <4>1. row' = row /\ tokens' = tokens /\ Consistent(c, child[c], row, key, tokens)
          BY <1>2, Facts
        <4>2. child[c].pc = "delete"
          BY <1>2
        <4> QED
          BY <4>1, <4>2 DEF Consistent
      <3> QED
        BY <1>3, <1>5, <1>6, <2>1, <3>1 DEF Consistent
    <2>2. CASE d # c
      <3>1. Consistent(d, child[d], row, key, tokens) /\ child'[d] = child[d]
        BY <1>6, <2>2 DEF IInv
      <3>2. ~key => ~key'
        BY <1>2, Facts
      <3> QED
        BY <1>2, <3>1, <3>2 DEF Consistent
    <2> QED
      BY <2>1, <2>2
  <1>9. DeleteSpent'
    BY <1>2, <1>3, <1>4, <1>5, <1>6 DEF DeleteSpent, PastDelete
  <1>10. ResultHolds'
    <2>1. result # None => result.by \in Child
      BY DEF IInv, TypeOK, Result
    <2>2. result # None /\ result.closed => child'[result.by].pc = "ended"
      BY <1>2, <1>6, <2>1 DEF IInv, ResultHolds, At
    <2> QED
      BY <1>2, <2>2 DEF IInv, ResultHolds, runtime, At
  <1>11. (row.status = "CLOSED" => ~key) /\ (~key => ~key')
    <2>1. row.status = "CLOSED" => ~key
      BY Facts
    <2>2. ~key => ~key'
      BY <1>2, Facts
    <2> QED
      BY <2>1, <2>2
  <1>12. valid_shape(row') /\ (row'.status = "CLOSED" => ~key')
    BY <1>2, <1>11 DEF IInv
  <1>13. worker'.pc = "reconcile" /\ worker'.class = "VERIFIED_ABSENT" => ~key'
    <2>1. worker' = worker
      BY <1>2 DEF runtime
    <2> QED
      BY <1>11, <2>1 DEF IInv
  <1> QED
    BY <1>7, <1>8, <1>9, <1>10, <1>12, <1>13 DEF IInv

\* The reads after the DELETE only classify it.
LEMMA AfterStep == ASSUME IInv, NEW c \in Child, after(c) PROVE IInv'
  <1>1. PICK exact \in ExactReads, list \in ListReads :
          Becomes(c, [child[c] EXCEPT !.pc = "cleanup", !.class = Classify(child[c].delete, exact, list)])
    BY DEF after
  <1> DEFINE class == Classify(child[c].delete, exact, list)
             s == [child[c] EXCEPT !.pc = "cleanup", !.class = class]
  <1>2. class \in Classification
    BY DEF Classify, Classification
  <1>3. /\ s \in ChildState /\ s.pc = "cleanup" /\ s.start = child[c].start
        /\ s.confirmed = child[c].confirmed /\ s.closed = child[c].closed
    <2> HIDE DEF class
    <2> QED
      BY <1>2, Facts DEF ChildState, Running
  <1>4. /\ child[c].pc = "after" /\ UNCHANGED <<row, key, inflight, tokens, deletes>>
        /\ UNCHANGED runtime /\ Quiet(row, row')
    BY Facts DEF after, provider, At
  <1>5. Consistent(c, s, row, key, tokens)
    <2> HIDE DEF s
    <2> QED
      BY <1>3, <1>4, Facts DEF Consistent, PastConfirmation
  <1>6. Becomes(c, s) /\ (row'.status = "CLOSED" => ~key')
    BY <1>1, <1>4, Facts
  <1> HIDE DEF s
  <1> QED
    BY <1>3, <1>4, <1>5, <1>6, ChildKeeps DEF Quiet, PastDelete

\* Only a revoked and refused token lets the child go on to settle.
LEMMA CleanupStep == ASSUME IInv, NEW c \in Child, cleanup(c) PROVE IInv'
  <1>1. /\ child[c].pc = "cleanup" /\ UNCHANGED <<row, key, inflight, deletes>>
        /\ UNCHANGED runtime /\ Quiet(row, row') /\ tokens' \subseteq tokens
    BY Facts DEF cleanup, At
  <1>2. \/ Goto(c, "persist") \/ Goto(c, "finally")
        \/ c \notin tokens' /\ Goto(c, "verify")
        \/ c \notin tokens' /\ Goto(c, "finalize-unknown") /\ child[c].class = "ATTEMPTED_OUTCOME_UNKNOWN"
    BY DEF cleanup, CleanupGate, Settlement
  <1> QED
    BY <1>1, <1>2, QuietMove DEF Running, PastDelete, PastConfirmation

\* The finally block at most revokes.
LEMMA FinallyStep == ASSUME IInv, NEW c \in Child, finally(c) PROVE IInv'
  <1>1. /\ child[c].pc = "finally" /\ UNCHANGED <<row, key, inflight, deletes>>
        /\ UNCHANGED runtime /\ Quiet(row, row') /\ tokens' \subseteq tokens /\ Goto(c, "persist")
    BY Facts DEF finally, At
  <1> QED
    BY <1>1, QuietMove DEF Running, PastDelete, PastConfirmation

\* finalize as unknown keeps the start and closes nothing.
LEMMA FinalizeUnknownStep == ASSUME IInv, NEW c \in Child, finalize_unknown(c) PROVE IInv'
  <1>1. PICK f \in Fates(finalize_with_start(row, Broker, child[c].claim, child[c].start,
                                             "ATTEMPTED_OUTCOME_UNKNOWN")) :
          row' = f.row /\ Goto(c, IF f.reply THEN "verify" ELSE "persist")
    BY DEF finalize_unknown
  <1>2. Quiet(row, row')
    BY <1>1, Facts, SettleRow
  <1>3. /\ child[c].pc = "finalize-unknown" /\ UNCHANGED <<key, inflight, tokens, deletes>>
        /\ UNCHANGED runtime /\ c \notin tokens
        /\ Goto(c, "verify") \/ Goto(c, "persist")
    BY <1>1, Facts DEF finalize_unknown, At, provider, Consistent
  <1> QED
    BY <1>2, <1>3, QuietMove DEF Running, PastDelete, PastConfirmation

\* verify: the child settles only when it saw the key gone.
LEMMA VerifyStep == ASSUME IInv, NEW c \in Child, verify(c) PROVE IInv'
  <1>1. /\ child[c].pc = "verify" /\ UNCHANGED <<row, key, inflight, tokens, deletes>>
        /\ UNCHANGED runtime /\ Quiet(row, row') /\ c \notin tokens
    BY Facts DEF verify, At, provider, Consistent
  <1>2. \/ ~key /\ Goto(c, "settle")
        \/ Goto(c, "persist")
    BY Facts DEF verify, ExactReads, ListReads, TargetAbsent
  <1> QED
    BY <1>1, <1>2, QuietMove DEF Running, PastDelete, PastConfirmation

\* settle: closes with the key gone and the token dead, or not at all.
LEMMA SettleStep == ASSUME IInv, NEW c \in Child, settle(c) PROVE IInv'
  <1>1. /\ child[c].pc = "settle" /\ UNCHANGED <<key, inflight, tokens, deletes>>
        /\ UNCHANGED runtime /\ c \notin tokens /\ ~key
    BY Facts DEF settle, At, provider, Consistent
  <1>2. PICK won \in BOOLEAN :
          /\ RowKept(row, row')
          /\ won => row'.status = "CLOSED"
          /\ Becomes(c, [child[c] EXCEPT !.pc = "persist", !.closed = won])
    <2>1. ASSUME NEW o,
                 \/ o = finalize_with_start(row, Broker, child[c].claim, child[c].start, "VERIFIED_ABSENT")
                 \/ o = reconcile_with_start(row, Broker, child[c].claim, child[c].start, "VERIFIED_ABSENT"),
                 NEW f \in Fates(o), row' = f.row,
                 Becomes(c, [child[c] EXCEPT !.pc = "persist", !.closed = f.reply /\ o.decision = "Won"])
          PROVE \E won \in BOOLEAN :
                  /\ RowKept(row, row')
                  /\ won => row'.status = "CLOSED"
                  /\ Becomes(c, [child[c] EXCEPT !.pc = "persist", !.closed = won])
      <3>1. RowKept(row, row') /\ (f.reply /\ o.decision = "Won" => row'.status = "CLOSED")
        BY <2>1, Facts, SettleRow
      <3>2. (f.reply /\ o.decision = "Won") \in BOOLEAN
        OBVIOUS
      <3> WITNESS (f.reply /\ o.decision = "Won") \in BOOLEAN
      <3> QED
        BY <2>1, <3>1
    <2> QED
      BY <2>1 DEF settle
  <1> DEFINE s == [child[c] EXCEPT !.pc = "persist", !.closed = won]
  <1>3. /\ s \in ChildState /\ s.pc = "persist" /\ s.start = child[c].start
        /\ s.confirmed = child[c].confirmed /\ s.closed = won
    BY Facts DEF ChildState, Running
  <1>4. Consistent(c, child[c], row', key', tokens')
    BY <1>1, <1>2, Facts, RowConsistent
  <1>5. Consistent(c, s, row', key', tokens')
    BY <1>1, <1>2, <1>3, <1>4 DEF Consistent, PastConfirmation
  <1>6. Becomes(c, s)
    BY <1>2
  <1> HIDE DEF s
  <1> QED
    BY <1>1, <1>2, <1>3, <1>5, <1>6, ChildKeeps DEF PastDelete
\* A child that ends, with or without writing its result, keeps the invariant.
LEMMA EndKeeps ==
  ASSUME IInv, NEW c \in Child, Becomes(c, Ended), child[c].pc \in Running,
         UNCHANGED <<row, key, inflight, tokens, deletes, job, worker>>,
         \/ result' = result
         \/ result' = ResultOf(c)
  PROVE  IInv'
  <1>1. /\ Ended \in ChildState /\ Ended.pc = "ended" /\ Ended.start = None
        /\ Ended.confirmed = FALSE /\ Ended.closed = FALSE
    <2>1. 0 \in U64
      BY AssumptionsHold DEF Assumptions, U64
    <2> QED
      BY <2>1 DEF Ended, Off, ChildState
  <1>2. child' \in [Child -> ChildState] /\ child'[c] = Ended /\ \A d \in Child \ {c} : child'[d] = child[d]
    BY <1>1 DEF IInv, TypeOK, Becomes
  <1>3. /\ ResultOf(c) \in Result /\ ResultOf(c).by = c
        /\ ResultOf(c).confirmed = child[c].confirmed /\ ResultOf(c).start = child[c].start
        /\ ResultOf(c).closed = child[c].closed
    BY Facts DEF ResultOf, Result, ChildState
  <1>4. TypeOK'
    BY <1>2, <1>3 DEF IInv, TypeOK
  <1>5. ASSUME NEW d \in Child PROVE Consistent(d, child'[d], row', key', tokens')
    <2>1. CASE d = c
      BY <1>1, <1>2, <2>1, Facts DEF Consistent, PastConfirmation
    <2>2. CASE d # c
      BY <1>2, <2>2 DEF IInv
    <2> QED
      BY <2>1, <2>2
  <1>6. DeleteSpent'
    <2>1. deletes # 0 => row.effect_start_id.nonce \in Child
      BY DEF IInv, DeleteSpent, TypeOK, IncidentAuthority, StateId, Child
    <2> QED
      BY <1>1, <1>2, <2>1 DEF IInv, DeleteSpent, PastDelete
  <1>7. ResultHolds'
    <2>1. CASE result' = result
      <3>1. result # None => result.by \in Child
        BY DEF IInv, TypeOK, Result
      <3>2. result # None /\ result.closed => child'[result.by].pc = "ended"
        BY <1>1, <1>2, <3>1 DEF IInv, ResultHolds, At
      <3> QED
        BY <2>1, <3>2 DEF IInv, ResultHolds, At
    <2>2. CASE result' = ResultOf(c)
      <3>1. /\ child[c].confirmed => child[c].start = row.effect_start_id /\ child[c].start # None
            /\ child[c].closed => row.status = "CLOSED" /\ c \notin tokens
        BY Facts DEF Consistent
      <3> QED
        BY <1>1, <1>2, <1>3, <2>2, <3>1 DEF ResultHolds, At
    <2> QED
      BY <2>1, <2>2
  <1> QED
    BY <1>4, <1>5, <1>6, <1>7 DEF IInv

\* The final result: what the child knows is true when it writes it.
LEMMA PersistStep == ASSUME IInv, NEW c \in Child, persist(c) PROVE IInv'
  BY EndKeeps DEF persist, provider, At, Running

\* A child that dies takes what it knows with it.
LEMMA CrashStep == ASSUME IInv, NEW c \in Child, crash(c) PROVE IInv'
  BY EndKeeps DEF crash, provider, runtime

\* What a child is spawned with.
Spawned(pc, version, claim) == [Off EXCEPT !.pc = pc, !.expected = version, !.claim = claim]

\* A spawned child has no start yet.
LEMMA SpawnedState ==
  ASSUME NEW pc \in Running, NEW version \in U64, NEW claim \in StateId \cup {None}
  PROVE  /\ Spawned(pc, version, claim) \in ChildState /\ Spawned(pc, version, claim).pc = pc
         /\ Spawned(pc, version, claim).start = None
         /\ Spawned(pc, version, claim).confirmed = FALSE /\ Spawned(pc, version, claim).closed = FALSE
  BY DEF Spawned, Off, ChildState, Running

\* spawn: the old result is unlinked, and the new child knows no start.
LEMMA SpawnStep == ASSUME IInv, NEW c \in Child, spawn(c) PROVE IInv'
  <1> DEFINE pc == IF ExistingClaim THEN "confirm-claim" ELSE "claim-effect"
             claim == IF ExistingClaim THEN job.claim_id ELSE None
             s == Spawned(pc, job.claim_version, claim)
  <1>1. /\ child[c].pc = "off" /\ Becomes(c, s) /\ result' = None
        /\ UNCHANGED <<row, key, inflight, tokens, deletes>>
        /\ job' = [job EXCEPT !.fresh = FALSE]
        /\ worker' = [IdleWorker EXCEPT !.pc = "waiting", !.child = c]
    BY DEF spawn, Spawned, provider, At
  <1>2. /\ pc \in {"confirm-claim", "claim-effect"}
        /\ job.claim_version \in U64 /\ claim \in StateId \cup {None}
    BY Facts DEF Job
  <1>3. s \in ChildState /\ s.pc = pc /\ s.start = None /\ s.confirmed = FALSE /\ s.closed = FALSE
    <2> HIDE DEF pc, claim
    <2>1. pc \in Running
      BY <1>2 DEF Running
    <2> QED
      BY <1>2, <2>1, SpawnedState
  <1>4. job' \in Job
    BY <1>1, Facts DEF Job
  <1>5. worker' \in Worker /\ worker'.pc = "waiting"
    BY <1>1 DEF IdleWorker, Worker
  <1> HIDE DEF s, pc, claim
  <1>6. child' \in [Child -> ChildState] /\ child'[c] = s /\ \A d \in Child \ {c} : child'[d] = child[d]
    BY <1>1, <1>3 DEF IInv, TypeOK, Becomes
  <1>7. TypeOK'
    BY <1>1, <1>4, <1>5, <1>6 DEF IInv, TypeOK
  <1>8. ASSUME NEW d \in Child PROVE Consistent(d, child'[d], row', key', tokens')
    <2>1. CASE d = c
      <3>1. c \in tokens => row.effect_start_id # None /\ row.effect_start_id.nonce = c
        BY Facts DEF Consistent
      <3> QED
        BY <1>1, <1>2, <1>3, <1>6, <2>1, <3>1 DEF Consistent, PastConfirmation
    <2>2. CASE d # c
      BY <1>1, <1>6, <2>2 DEF IInv
    <2> QED
      BY <2>1, <2>2
  <1>9. DeleteSpent'
    <2>1. deletes # 0 => row.effect_start_id.nonce \in Child
      BY DEF IInv, DeleteSpent, TypeOK, IncidentAuthority, StateId, Child
    <2>2. deletes # 0 => row.effect_start_id.nonce # c
      BY <1>1 DEF IInv, DeleteSpent, PastDelete
    <2> QED
      BY <1>1, <1>6, <2>1, <2>2 DEF IInv, DeleteSpent
  <1>10. ResultHolds'
    BY <1>1 DEF ResultHolds
  <1> QED
    BY <1>1, <1>5, <1>7, <1>8, <1>9, <1>10 DEF IInv

\* A step that moves no child and keeps the row only has to keep the worker
\* honest about what it verified.
LEMMA RuntimeKeeps ==
  ASSUME IInv, UNCHANGED <<row, key, inflight, tokens, deletes, child, result>>,
         job' \in Job, worker' \in Worker,
         worker'.pc = "reconcile" /\ worker'.class = "VERIFIED_ABSENT" => ~key
  PROVE  IInv'
  <1>1. RowKept(row, row') /\ (row'.status = "CLOSED" => ~key')
    BY Facts, SameRow DEF Quiet, IInv, TypeOK, GoodRow
  <1> QED
    BY <1>1, OutsideKeeps DEF IInv, TypeOK

\* The coordinator's readback: whatever the row is, the handoff is well formed.
LEMMA ObserveStep == ASSUME IInv, observe PROVE IInv'
  <1>1. Handoff(row) \in Job
    BY DEF IInv, TypeOK, IncidentAuthority, Handoff, Job
  <1>2. worker' \in Worker /\ (worker'.pc = "reconcile" /\ worker'.class = "VERIFIED_ABSENT" => ~key)
    BY DEF observe, IInv, TypeOK
  <1> QED
    BY <1>1, <1>2, RuntimeKeeps DEF observe, provider

\* An idle worker is a worker, and reconciles nothing.
LEMMA Idle == IdleWorker \in Worker /\ IdleWorker.pc = "idle"
  BY DEF IdleWorker, Worker

\* collect: the result's ids are ids.
LEMMA CollectStep == ASSUME IInv, collect PROVE IInv'
  <1>1. job' \in Job
    <2>1. CASE result = None
      BY <2>1 DEF collect, IInv, TypeOK
    <2>2. CASE result # None
      <3> DEFINE claim == Or(result.claim, job.claim_id)
                 version == IF result.claim # None THEN result.claim.version ELSE job.claim_version
                 start == Or(result.start, job.effect_start_id)
      <3>1. /\ claim \in StateId \cup {None} /\ version \in U64
            /\ start \in StateId \cup {None}
        BY <2>2 DEF IInv, TypeOK, Result, Job, Or, StateId
      <3>2. job' = [job EXCEPT !.claim_id = claim, !.claim_version = version, !.effect_start_id = start]
        BY <2>2 DEF collect
      <3>3. job \in Job
        BY DEF IInv, TypeOK
      <3> HIDE DEF claim, version, start
      <3> QED
        BY <3>1, <3>2, <3>3 DEF Job
    <2> QED
      BY <2>1, <2>2
  <1> QED
    BY <1>1, Idle, RuntimeKeeps DEF collect, provider

\* reconcile_begin: nothing is verified yet.
LEMMA ReconcileBeginStep == ASSUME IInv, reconcile_begin PROVE IInv'
  <1>1. job \in Job
    BY DEF IInv, TypeOK
  <1>2. job' \in Job
    BY <1>1 DEF reconcile_begin, Job
  <1>3. worker' \in Worker /\ worker'.pc = "verify"
    BY <1>1 DEF reconcile_begin, IdleWorker, Worker, Job
  <1> QED
    BY <1>2, <1>3, RuntimeKeeps DEF reconcile_begin, provider

\* reconcile_verify: VERIFIED_ABSENT is what the reads saw.
LEMMA ReconcileVerifyStep == ASSUME IInv, reconcile_verify PROVE IInv'
  <1>1. worker \in Worker /\ job' \in Job
    BY DEF reconcile_verify, IInv, TypeOK
  <1>2. CASE worker' = IdleWorker
    BY <1>1, <1>2, Idle, RuntimeKeeps DEF reconcile_verify, provider
  <1>3. CASE \E exact \in ExactReads, list \in ListReads :
               worker' = [worker EXCEPT !.pc = "reconcile",
                                        !.class = IF TargetAbsent(exact, list)
                                                  THEN "VERIFIED_ABSENT" ELSE "VERIFIED_PRESENT"]
    <2>1. PICK class \in {"VERIFIED_ABSENT", "VERIFIED_PRESENT"} :
            /\ class = "VERIFIED_ABSENT" => ~key
            /\ worker' = [worker EXCEPT !.pc = "reconcile", !.class = class]
      BY <1>3, Facts DEF ExactReads, ListReads, TargetAbsent
    <2>2. worker' \in Worker /\ worker'.class = class
      BY <1>1, <2>1 DEF Worker, Classification
    <2> QED
      BY <1>1, <2>1, <2>2, RuntimeKeeps DEF reconcile_verify, provider
  <1> QED
    BY <1>2, <1>3 DEF reconcile_verify

\* SettleRow for a reconciliation.
LEMMA ReconcileRow ==
  ASSUME GoodRow(row), NEW claim, NEW start, NEW class,
         NEW f \in Fates(reconcile_with_start(row, Broker, claim, start, class))
  PROVE  /\ RowKept(row, f.row)
         /\ f.row.effect_start_id = row.effect_start_id
         /\ class # "VERIFIED_ABSENT" => Quiet(row, f.row)
  <1> DEFINE o == reconcile_with_start(row, Broker, claim, start, class)
  <1>1. /\ f \in Fates(o)
        /\ \/ o = finalize_with_start(row, Broker, claim, start, class)
           \/ o = reconcile_with_start(row, Broker, claim, start, class)
    OBVIOUS
  <1> HIDE DEF o
  <1> QED
    BY <1>1, SettleRow

\* reconcile_call: closes only what was verified absent, and a key stays absent.
LEMMA ReconcileCallStep == ASSUME IInv, reconcile_call PROVE IInv'
  <1>1. PICK f \in Fates(reconcile_with_start(row, Broker, worker.claim_id, worker.start_id, worker.class)) :
          /\ row' = f.row
          /\ job' = IF f.reply THEN [job EXCEPT !.remote_state = f.row.status] ELSE job
    BY DEF reconcile_call
  <1>2. /\ GoodRow(row) /\ job \in Job /\ worker.pc = "reconcile"
        /\ UNCHANGED <<key, inflight, tokens, deletes, child, result>> /\ worker' = IdleWorker
    BY DEF reconcile_call, provider, IInv, TypeOK, GoodRow
  <1>3. RowKept(row, row') /\ (worker.class # "VERIFIED_ABSENT" => Quiet(row, row'))
    BY <1>1, <1>2, ReconcileRow
  <1>4. job' \in Job
    <2>1. row'.status \in Status
      BY <1>3 DEF RowKept, GoodRow, IncidentAuthority
    <2> QED
      BY <1>1, <1>2, <2>1 DEF Job
  <1>5. row'.status = "CLOSED" => ~key'
    BY <1>2, <1>3 DEF IInv, Quiet
  <1> QED
    BY <1>2, <1>3, <1>4, <1>5, Idle, OutsideKeeps DEF IInv, TypeOK

\* A worker that dies forgets what it verified.
LEMMA WorkerCrashStep == ASSUME IInv, worker_crash PROVE IInv'
  BY Idle, RuntimeKeeps DEF worker_crash, provider, IInv, TypeOK

\* release: a row without a start goes back to READY_RETRY.
LEMMA ReleaseQuiet == ASSUME IInv, release PROVE Quiet(row, row')
  <1>1. PICK now \in U64 :
          /\ release_not_attempted(row, Broker, row.effect_claim_id, now).decision = "Won"
          /\ row' = release_not_attempted(row, Broker, row.effect_claim_id, now).authority
    BY DEF release
  <1>2. GoodRow(row) /\ (row.status = "CLOSED" => ~key)
    BY DEF IInv, TypeOK, GoodRow
  <1>3. /\ row' = Released(row) /\ GoodRow(row') /\ row.status = "EFFECT_CLAIMED"
    BY <1>1, <1>2, ReleaseOutcome DEF OwnsClaim
  <1>4. Released(row).status = "READY_RETRY"
    BY <1>3 DEF Released, GoodRow, IncidentAuthority
  <1> QED
    BY <1>2, <1>3, <1>4, UnstartedKept

\* release keeps the invariant.
LEMMA ReleaseStep == ASSUME IInv, release PROVE IInv'
  <1>1. Quiet(row, row') /\ (row.status = "CLOSED" => ~key)
    BY ReleaseQuiet DEF IInv
  <1> QED
    BY <1>1, OutsideKeeps DEF release, provider, runtime, IInv, TypeOK, Quiet

\* The world only ever removes keys, DELETEs in flight and tokens.
LEMMA WorldStep ==
  ASSUME IInv, key_removed \/ \E c \in Child : delete_lands(c) \/ token_expires(c)
  PROVE  IInv'
  <1>1. /\ UNCHANGED <<row, deletes, child, job, worker, result>>
        /\ key' \in {key, FALSE} /\ inflight' \subseteq inflight /\ tokens' \subseteq tokens
    BY DEF key_removed, delete_lands, token_expires, runtime
  <1>2. /\ key \in BOOLEAN /\ inflight \subseteq Child /\ job \in Job /\ worker \in Worker
        /\ row.status = "CLOSED" => ~key
        /\ worker.pc = "reconcile" /\ worker.class = "VERIFIED_ABSENT" => ~key
        /\ GoodRow(row)
    BY DEF IInv, TypeOK, GoodRow
  <1>3. RowKept(row, row')
    BY <1>1, <1>2, SameRow DEF Quiet
  <1>4. ~key => ~key'
    BY <1>1, <1>2
  <1> QED
    BY <1>1, <1>2, <1>3, <1>4, OutsideKeeps
----------------------------------------------------------------------------
(* The invariant.                                                           *)

\* Every step of a child keeps the invariant.
LEMMA ChildStepKeeps == ASSUME IInv, NEW c \in Child, ChildStep(c) PROVE IInv'
  <1>1. CASE claim_effect(c)
    BY <1>1, ClaimStep
  <1>2. CASE persist_proposal(c)
    BY <1>2, PersistProposalStep
  <1>3. CASE confirm_claim_call(c)
    BY <1>3, ConfirmClaimStep
  <1>4. CASE begin_effect(c)
    BY <1>4, BeginStep
  <1>5. CASE confirm_effect_start_call(c)
    BY <1>5, ConfirmStartStep
  <1>6. CASE mint(c)
    BY <1>6, MintStep
  <1>7. CASE precheck(c)
    BY <1>7, PrecheckStep
  <1>8. CASE delete_key(c)
    BY <1>8, DeleteStep
  <1>9. CASE after(c)
    BY <1>9, AfterStep
  <1>10. CASE cleanup(c)
    BY <1>10, CleanupStep
  <1>11. CASE finally(c)
    BY <1>11, FinallyStep
  <1>12. CASE finalize_unknown(c)
    BY <1>12, FinalizeUnknownStep
  <1>13. CASE verify(c)
    BY <1>13, VerifyStep
  <1>14. CASE settle(c)
    BY <1>14, SettleStep
  <1>15. CASE persist(c)
    BY <1>15, PersistStep
  <1>16. CASE crash(c)
    BY <1>16, CrashStep
  <1> QED
    BY <1>1, <1>2, <1>3, <1>4, <1>5, <1>6, <1>7, <1>8, <1>9, <1>10, <1>11, <1>12, <1>13, <1>14,
       <1>15, <1>16 DEF ChildStep

\* Every step keeps the invariant.
LEMMA StepKeeps == ASSUME IInv, [Next]_vars PROVE IInv'
  <1>1. ASSUME NEW c \in Child, ChildStep(c) PROVE IInv'
    BY <1>1, ChildStepKeeps
  <1>2. ASSUME NEW c \in Child, spawn(c) PROVE IInv'
    BY <1>2, SpawnStep
  <1>3. CASE key_removed \/ \E c \in Child : delete_lands(c) \/ token_expires(c)
    BY <1>3, WorldStep
  <1>4. CASE WorkerStep
    BY <1>4, CollectStep, ReconcileBeginStep, ReconcileVerifyStep, ReconcileCallStep, WorkerCrashStep
    DEF WorkerStep
  <1>5. CASE observe
    BY <1>5, ObserveStep
  <1>6. CASE release
    BY <1>6, ReleaseStep
  <1>7. CASE UNCHANGED vars
    BY <1>7, StutterKeeps
  <1> QED
    BY <1>1, <1>2, <1>3, <1>4, <1>5, <1>6, <1>7 DEF Next

\* A reserved row has no start and is not closed.
LEMMA InitRow ==
  ASSUME Init
  PROVE  GoodRow(row) /\ row.effect_start_id = None /\ row.status # "CLOSED"
  <1>1. PICK i \in Incident, k \in KeyId, ttl \in MinTtl..MaxTtl, now \in U64 :
          /\ ~CreateDenied(Tenant, Agent, Broker, k, ttl, now)
          /\ row = reserve(build_incident_authority(i, Agent, Broker, k, ttl, now), Agent, now).authority
    BY DEF Init
  <1> DEFINE a == build_incident_authority(i, Agent, Broker, k, ttl, now)
             o == reserve(a, Agent, now)
  <1>2. GoodRow(a) /\ a.status = "ACTIVE" /\ a.effect_start_id = None
    <2>1. ttl \in Nat
      BY AssumptionsHold DEF Assumptions
    <2>2. GoodRow(a)
      BY <1>1, <2>1, CreateGood
    <2> QED
      BY <2>2 DEF build_incident_authority
  <1>3. row = o.authority
    BY <1>1
  <1> HIDE DEF a
  <1>4. \/ o.authority = Reserved(a) /\ GoodRow(Reserved(a))
        \/ o.authority \in {a, Expire(a)}
    BY <1>2, ReserveOutcome
  <1>5. Expire(a) = [a EXCEPT !.status = "EXPIRED"] /\ GoodRow(Expire(a))
    BY <1>2, ExpireGood
  <1>6. a \in IncidentAuthority
    BY <1>2 DEF GoodRow
  <1>7. Reserved(a).status = "RESERVED" /\ Reserved(a).effect_start_id = None
    BY <1>2, <1>6 DEF Reserved, IncidentAuthority
  <1>8. Expire(a).status = "EXPIRED" /\ Expire(a).effect_start_id = None
    BY <1>2, <1>5, <1>6 DEF IncidentAuthority
  <1> QED
    BY <1>2, <1>3, <1>4, <1>5, <1>7, <1>8

\* The invariant holds initially.
LEMMA InitInvariant == ASSUME Init PROVE IInv
  <1>1. /\ GoodRow(row) /\ row.effect_start_id = None /\ row.status # "CLOSED"
        /\ key \in BOOLEAN /\ inflight = {} /\ tokens = {} /\ deletes = 0
        /\ child = [c \in Child |-> Off] /\ job = Handoff(row) /\ worker = IdleWorker /\ result = None
    BY InitRow DEF Init
  <1>2. /\ Off \in ChildState /\ Off.pc = "off" /\ Off.start = None
        /\ Off.confirmed = FALSE /\ Off.closed = FALSE
    <2>1. 0 \in U64
      BY AssumptionsHold DEF Assumptions, U64
    <2> QED
      BY <2>1 DEF Off, ChildState
  <1>3. job \in Job
    BY <1>1 DEF GoodRow, IncidentAuthority, Handoff, Job
  <1>4. TypeOK
    BY <1>1, <1>2, <1>3, Idle DEF TypeOK, GoodRow
  <1>5. \A c \in Child : Consistent(c, child[c], row, key, tokens)
    BY <1>1, <1>2 DEF Consistent, PastConfirmation
  <1>6. DeleteSpent /\ ResultHolds
    BY <1>1 DEF DeleteSpent, ResultHolds
  <1> QED
    BY <1>1, <1>4, <1>5, <1>6, Idle DEF IInv, GoodRow

\* Every reachable state satisfies the inductive invariant.
THEOREM BrokerInvariant == Spec => []IInv
  <1>1. Init => IInv
    BY InitInvariant
  <1>2. IInv /\ [Next]_vars => IInv'
    BY StepKeeps
  <1> QED
    BY <1>1, <1>2, PTL DEF Spec

\* The state stays well formed.
THEOREM TypeCorrect == Spec => []TypeOK
  <1>1. IInv => TypeOK
    BY DEF IInv
  <1> QED
    BY <1>1, BrokerInvariant, PTL

\* However many children run, crash, or outlive their worker, and whatever C1
\* answers affirmatively without having committed, one DELETE at most is sent.
THEOREM DeletesOnce == Spec => []AtMostOneDelete
  <1>1. IInv => AtMostOneDelete
    BY DEF IInv, DeleteSpent, AtMostOneDelete
  <1> QED
    BY <1>1, BrokerInvariant, PTL

\* A token GitHub accepts, and a child about to delete, belong to the committed
\* effect start.
THEOREM WritesAreStarted == Spec => []WriteAuthorityIsStarted
  <1>1. IInv => WriteAuthorityIsStarted
    <2> SUFFICES ASSUME IInv, NEW c \in Child, c \in tokens \/ child[c].pc \in Armed
                 PROVE  /\ row.effect_attempts = 1 /\ row.effect_start_id # None
                        /\ row.effect_start_id.nonce = c
      BY DEF WriteAuthorityIsStarted
    <2>1. row.effect_start_id # None /\ row.effect_start_id.nonce = c
      BY Facts DEF Consistent, Armed, PastConfirmation
    <2>2. row.effect_attempts = 1
      BY <2>1, Facts DEF GoodRow, IncidentAuthority, valid_shape, StatusShape, NoEffect, Started, Status
    <2> QED
      BY <2>1, <2>2
  <1> QED
    BY <1>1, BrokerInvariant, PTL

\* C1 is CLOSED only when the key is gone.
THEOREM ClosureIsAbsence == Spec => []ClosedMeansAbsent
  <1>1. IInv => ClosedMeansAbsent
    BY DEF IInv, ClosedMeansAbsent
  <1> QED
    BY <1>1, BrokerInvariant, PTL

\* The result file never claims what is not so.
THEOREM ResultsNeverLie == Spec => []ResultsAreTrue
  <1>1. IInv => ResultsAreTrue
    BY DEF IInv, ResultHolds, ResultsAreTrue
  <1> QED
    BY <1>1, BrokerInvariant, PTL

----------------------------------------------------------------------------
(* The refinement.                                                          *)

\* A step over a quietly kept row that fires nothing commits a start at most.
LEMMA QuietImplements ==
  ASSUME IInv, Quiet(row, row'), key' = key, deletes' = deletes
  PROVE  [Promise!Next]_(Promise!vars)
  <1>1. row.effect_start_id # None => row'.effect_start_id = row.effect_start_id
    BY DEF Quiet, RowKept
  <1>2. row'.effect_start_id \in StateId \cup {None}
    BY DEF Quiet, RowKept, GoodRow, IncidentAuthority
  <1>3. (row'.status = "CLOSED") = (row.status = "CLOSED")
    BY DEF Quiet, RowKept
  <1> QED
    BY <1>1, <1>2, <1>3 DEF Promise!Next, Promise!Commit, Promise!vars

\* A step that reports the target's absence closes at most.
LEMMA SettleImplements ==
  ASSUME IInv, RowKept(row, row'), row'.effect_start_id = row.effect_start_id, ~key,
         key' = key, deletes' = deletes
  PROVE  [Promise!Next]_(Promise!vars)
  <1>1. CASE (row'.status = "CLOSED") = (row.status = "CLOSED")
    BY <1>1 DEF Promise!vars
  <1>2. CASE (row'.status = "CLOSED") # (row.status = "CLOSED")
    <2>1. row'.status = "CLOSED"
      BY <1>2 DEF RowKept
    <2>2. row'.effect_start_id # None
      BY <2>1 DEF RowKept, GoodRow, IncidentAuthority, valid_shape, StatusShape, Started
    <2> QED
      BY <2>1, <2>2 DEF Promise!Next, Promise!Close
  <1> QED
    BY <1>1, <1>2

\* The DELETE fires the one call the committed start stands for.
LEMMA DeleteImplements ==
  ASSUME IInv, NEW c \in Child, delete_key(c)
  PROVE  [Promise!Next]_(Promise!vars)
  <1>1. /\ child[c].pc = "delete" /\ row' = row /\ deletes' = deletes + 1 /\ key' \in {key, FALSE}
    BY DEF delete_key, At
  <1>2. row.effect_start_id # None /\ row.effect_start_id.nonce = c
    BY <1>1, Facts DEF Consistent, PastConfirmation
  <1>3. deletes = 0
    BY <1>1, <1>2, Facts DEF IInv, DeleteSpent, PastDelete
  <1>4. deletes' = 1
    BY <1>1, <1>3
  <1>5. UNCHANGED <<row.effect_start_id, row.status = "CLOSED">>
    BY <1>1
  <1>6. Promise!Fire
    BY <1>1, <1>2, <1>3, <1>4, <1>5, Zenon DEF Promise!Fire
  <1> QED
    BY <1>6 DEF Promise!Next

\* A key that disappears by itself, or late, vanishes.
LEMMA VanishImplements ==
  ASSUME row' = row, deletes' = deletes, key' = FALSE
  PROVE  [Promise!Next]_(Promise!vars)
  BY DEF Promise!Next, Promise!Vanish

\* Every child's step is one of the promise's, or none.
LEMMA ChildImplements ==
  ASSUME IInv, NEW c \in Child, ChildStep(c)
  PROVE  [Promise!Next]_(Promise!vars)
  <1>1. CASE claim_effect(c)
    <2>1. ASSUME NEW t, NEW o, o = claim_with_nonce(row, Broker, t, child[c].expected, c),
                 NEW f \in FatesOrDoubled(o), row' = f.row
          PROVE  Quiet(row, row')
      BY <2>1, Facts, ClaimRow
    <2> QED
      BY <1>1, <2>1, QuietImplements DEF claim_effect, provider
  <1>2. CASE begin_effect(c)
    <2>1. ASSUME NEW t, NEW o, o = begin_effect_with_nonce(row, Broker, child[c].claim, c, t),
                 NEW f \in FatesOrDoubled(o), row' = f.row
          PROVE  Quiet(row, row')
      BY <2>1, Facts, BeginRow
    <2> QED
      BY <1>2, <2>1, Facts, QuietImplements DEF begin_effect, provider
  <1>3. CASE finalize_unknown(c)
    <2>1. PICK f \in Fates(finalize_with_start(row, Broker, child[c].claim, child[c].start,
                                               "ATTEMPTED_OUTCOME_UNKNOWN")) :
            row' = f.row
      BY <1>3 DEF finalize_unknown
    <2> QED
      BY <1>3, <2>1, Facts, SettleRow, QuietImplements DEF finalize_unknown, provider
  <1>4. CASE settle(c)
    <2>1. ASSUME NEW o,
                 \/ o = finalize_with_start(row, Broker, child[c].claim, child[c].start, "VERIFIED_ABSENT")
                 \/ o = reconcile_with_start(row, Broker, child[c].claim, child[c].start, "VERIFIED_ABSENT"),
                 NEW f \in Fates(o), row' = f.row
          PROVE  RowKept(row, row') /\ row'.effect_start_id = row.effect_start_id
      BY <2>1, Facts, SettleRow
    <2>2. RowKept(row, row') /\ row'.effect_start_id = row.effect_start_id
      BY <1>4, <2>1 DEF settle
    <2>3. ~key /\ key' = key /\ deletes' = deletes
      BY <1>4, Facts DEF settle, provider, At, Consistent
    <2> QED
      BY <2>2, <2>3, SettleImplements
  <1>5. CASE delete_key(c)
    BY <1>5, DeleteImplements
  <1>6. CASE \/ persist_proposal(c) \/ confirm_claim_call(c) \/ confirm_effect_start_call(c)
             \/ mint(c) \/ precheck(c) \/ after(c) \/ cleanup(c) \/ finally(c) \/ verify(c)
             \/ persist(c) \/ crash(c)
    <2>1. UNCHANGED <<row, key, deletes>>
      BY <1>6 DEF persist_proposal, confirm_claim_call, confirm_effect_start_call, mint, precheck,
                  after, cleanup, finally, verify, persist, crash, provider
    <2> QED
      BY <2>1, Facts, QuietImplements
  <1> QED
    BY <1>1, <1>2, <1>3, <1>4, <1>5, <1>6 DEF ChildStep

\* Every step outside the children is one of the promise's, or none.
LEMMA OutsideImplements ==
  ASSUME IInv,
         \/ \E c \in Child : spawn(c) \/ delete_lands(c) \/ token_expires(c)
         \/ WorkerStep \/ observe \/ release \/ key_removed
  PROVE  [Promise!Next]_(Promise!vars)
  <1>0. GoodRow(row) /\ Quiet(row, row)
    BY SameRow DEF IInv, TypeOK, GoodRow
  <1>1. CASE UNCHANGED <<row, key, deletes>>
    BY <1>0, <1>1, QuietImplements
  <1>2. CASE key_removed \/ \E c \in Child : delete_lands(c)
    BY <1>2, VanishImplements DEF key_removed, delete_lands
  <1>3. CASE reconcile_call
    <2>1. PICK f \in Fates(reconcile_with_start(row, Broker, worker.claim_id, worker.start_id, worker.class)) :
            row' = f.row
      BY <1>3 DEF reconcile_call
    <2>2. /\ RowKept(row, row') /\ row'.effect_start_id = row.effect_start_id
          /\ worker.class # "VERIFIED_ABSENT" => Quiet(row, row')
      BY <1>0, <2>1, ReconcileRow
    <2>3. key' = key /\ deletes' = deletes /\ (worker.class = "VERIFIED_ABSENT" => ~key)
      BY <1>3 DEF reconcile_call, provider, IInv
    <2> QED
      BY <2>2, <2>3, SettleImplements, QuietImplements
  <1>4. CASE release
    BY <1>4, ReleaseQuiet, QuietImplements DEF release, provider
  <1>5. CASE \/ \E c \in Child : spawn(c) \/ token_expires(c)
             \/ collect \/ reconcile_begin \/ reconcile_verify \/ worker_crash \/ observe
    BY <1>1, <1>5 DEF spawn, token_expires, collect, reconcile_begin, reconcile_verify, worker_crash,
                      observe, provider
  <1> QED
    BY <1>2, <1>3, <1>4, <1>5 DEF WorkerStep

\* All of it keeps the promise of OneShotEffect.
THEOREM KeepsThePromise == Spec => OneShot
  <1>1. Init => Promise!Init
    BY InitRow DEF Init, Promise!Init
  <1>2. IInv /\ [Next]_vars => [Promise!Next]_(Promise!vars)
    <2> SUFFICES ASSUME IInv, [Next]_vars PROVE [Promise!Next]_(Promise!vars)
      OBVIOUS
    <2>1. CASE UNCHANGED vars
      BY <2>1 DEF vars, Promise!vars
    <2> QED
      BY <2>1, ChildImplements, OutsideImplements DEF Next
  <1> QED
    BY <1>1, <1>2, BrokerInvariant, PTL DEF Spec, OneShot, Promise!Spec

----------------------------------------------------------------------------
(* The children as RuntimeRecovery has them.                                *)

folded == [c \in Child |-> FoldedState(child[c])]

\* The contract is the same one.
LEMMA SameCalls ==
  /\ \A o : Folded!Stored(o) = Stored(o) /\ Folded!Fates(o) = Fates(o) /\ Folded!FatesOrDoubled(o) = FatesOrDoubled(o)
  /\ Folded!U64 = U64 /\ Folded!Child = Child /\ Folded!StateId = StateId /\ Folded!Classification = Classification
  <1>1. \A o : Folded!Stored(o) = Stored(o)
    BY DEF Folded!Stored, Folded!Writes, Stored, Writes
  <1>2. \A o : Folded!Fates(o) = Fates(o)
    BY <1>1 DEF Folded!Fates, Fates
  <1>3. \A o : Folded!FatesOrDoubled(o) = FatesOrDoubled(o)
    BY <1>2 DEF Folded!FatesOrDoubled, FatesOrDoubled
  <1>4. /\ Folded!U64 = U64 /\ Folded!Child = Child /\ Folded!StateId = StateId
        /\ Folded!Classification = Classification
    BY DEF Folded!U64, U64, Folded!Child, Child, Folded!StateId, StateId, Folded!Classification, Classification
  <1> QED
    BY <1>1, <1>2, <1>3, <1>4

LEMMA SameClaim ==
  ASSUME NEW a, NEW b, NEW t, NEW v, NEW n
  PROVE  Folded!claim_with_nonce(a, b, t, v, n) = claim_with_nonce(a, b, t, v, n)
  BY DEF Folded!claim_with_nonce, claim_with_nonce, Folded!valid_shape, valid_shape, Folded!StatusShape, StatusShape,
         Folded!NoEffect, NoEffect, Folded!Started, Started, Folded!caller_matches, caller_matches,
         Folded!valid_time, valid_time, Folded!Expire, Expire, Folded!valid_nonce, valid_nonce,
         Folded!GenerationExhausted, GenerationExhausted, Folded!Outcome, Outcome,
         Folded!Classification, Classification

LEMMA SameOwner ==
  ASSUME NEW a, NEW b, NEW i
  PROVE  Folded!OwnsClaim(a, b, i) = OwnsClaim(a, b, i)
  BY DEF Folded!OwnsClaim, OwnsClaim, Folded!valid_shape, valid_shape, Folded!StatusShape, StatusShape,
         Folded!NoEffect, NoEffect, Folded!Started, Started, Folded!caller_matches, caller_matches,
         Folded!Classification, Classification

LEMMA SameBegin ==
  ASSUME NEW a, NEW b, NEW i, NEW n, NEW t
  PROVE  /\ Folded!begin_effect_with_nonce(a, b, i, n, t) = begin_effect_with_nonce(a, b, i, n, t)
         /\ Folded!release_not_attempted(a, b, i, t) = release_not_attempted(a, b, i, t)
  BY SameOwner
  DEF Folded!begin_effect_with_nonce, begin_effect_with_nonce, Folded!release_not_attempted, release_not_attempted,
      Folded!ReleasedRow, ReleasedRow, Folded!valid_nonce, valid_nonce, Folded!valid_time, valid_time,
      Folded!Outcome, Outcome

LEMMA SameStart ==
  ASSUME NEW a, NEW b, NEW i, NEW s
  PROVE  /\ Folded!OwnsStart(a, b, i, s) = OwnsStart(a, b, i, s)
         /\ Folded!confirm_effect_start(a, b, i, s) = confirm_effect_start(a, b, i, s)
  BY DEF Folded!OwnsStart, OwnsStart, Folded!confirm_effect_start, confirm_effect_start,
         Folded!valid_shape, valid_shape, Folded!StatusShape, StatusShape,
         Folded!NoEffect, NoEffect, Folded!Started, Started, Folded!caller_matches, caller_matches,
         Folded!Classification, Classification

LEMMA SameSettle ==
  ASSUME NEW a, NEW b, NEW i, NEW s, NEW class
  PROVE  /\ Folded!finalize_with_start(a, b, i, s, class) = finalize_with_start(a, b, i, s, class)
         /\ Folded!reconcile_with_start(a, b, i, s, class) = reconcile_with_start(a, b, i, s, class)
  BY SameStart
  DEF Folded!finalize_with_start, finalize_with_start, Folded!reconcile_with_start, reconcile_with_start,
      Folded!FinalStatus, FinalStatus, Folded!AwaitsReconciliation, AwaitsReconciliation,
      Folded!Outcome, Outcome, Folded!Classification, Classification

LEMMA FoldedAt ==
  ASSUME NEW c \in Child
  PROVE  folded[c] = FoldedState(child[c])
  BY DEF folded

\* One child's step is one folded child's.
LEMMA FoldedSet ==
  ASSUME TypeOK, NEW c \in Child, NEW s, Becomes(c, s), NEW t, t = FoldedState(s)
  PROVE  Folded!Set(c, t)
  <1>1. child' = [child EXCEPT ![c] = s] /\ child \in [Child -> ChildState]
    BY DEF Becomes, TypeOK
  <1>2. \A d \in Child : FoldedState(child'[d]) = IF d = c THEN t ELSE FoldedState(child[d])
    BY <1>1
  <1>3. folded' = [folded EXCEPT ![c] = t]
    BY <1>2 DEF folded
  <1> QED
    BY <1>3 DEF Folded!Set, folded

\* What C1 and the result file know of a child in state s.
SameCredentials(s, t) ==
  s.expected = t.expected /\ s.claim = t.claim /\ s.start = t.start /\ s.closed = t.closed

\* A child that only goes on, to another step of its fold or not.
LEMMA FoldedGo ==
  ASSUME TypeOK, NEW c \in Child, NEW s, Becomes(c, s), SameCredentials(s, child[c]), NEW to, to = FoldedPc(s)
  PROVE  /\ Folded!Advance(c, to)
         /\ to = FoldedPc(child[c]) => folded' = folded
  <1>1. FoldedState(s) = [FoldedState(child[c]) EXCEPT !.pc = to]
    BY DEF FoldedState, SameCredentials
  <1>2. Folded!Set(c, [FoldedState(child[c]) EXCEPT !.pc = to])
    BY <1>1, FoldedSet
  <1>3. Folded!Advance(c, to)
    BY <1>2, FoldedAt DEF Folded!Advance, folded
  <1>4. ASSUME to = FoldedPc(child[c]) PROVE folded' = folded
    <2>1. FoldedState(s) = FoldedState(child[c])
      BY <1>4 DEF FoldedState, SameCredentials
    <2>2. child' = [child EXCEPT ![c] = s] /\ child \in [Child -> ChildState]
      BY DEF Becomes, TypeOK
    <2>3. \A d \in Child : FoldedState(child'[d]) = FoldedState(child[d])
      BY <2>1, <2>2
    <2> QED
      BY <2>3 DEF folded
  <1> QED
    BY <1>3, <1>4

LEMMA FoldedMove ==
  ASSUME TypeOK, NEW c \in Child, NEW pc, Goto(c, pc), NEW to,
         to = FoldedPc([child[c] EXCEPT !.pc = pc])
  PROVE  /\ Folded!Advance(c, to)
         /\ to = FoldedPc(child[c]) => folded' = folded
  <1>1. PICK s : s = [child[c] EXCEPT !.pc = pc]
    OBVIOUS
  <1>2. SameCredentials(s, child[c])
    BY <1>1 DEF TypeOK, ChildState, SameCredentials
  <1>3. Becomes(c, s)
    BY <1>1, Zenon DEF Goto
  <1>4. to = FoldedPc(s)
    BY <1>1, Zenon
  <1> QED
    BY <1>2, <1>3, <1>4, FoldedGo, Zenon

LEMMA FoldedIs ==
  ASSUME NEW c \in Child, NEW pc, FoldedPc(child[c]) = pc
  PROVE  Folded!Is(c, pc)
  BY FoldedAt DEF Folded!Is, folded, FoldedState

\* What a step with no trace in the fold leaves unchanged.
LEMMA FoldedStutter ==
  ASSUME row' = row, key' = key, folded' = folded, result' = result
  PROVE  [Folded!ChildNext]_(Folded!childVars)
  BY DEF Folded!childVars, folded, FoldedResult

LEMMA FoldedFields ==
  ASSUME NEW c \in Child
  PROVE  /\ folded[c] = FoldedState(child[c])
         /\ folded[c].pc = FoldedPc(child[c]) /\ folded[c].expected = child[c].expected
         /\ folded[c].claim = child[c].claim /\ folded[c].start = child[c].start
         /\ folded[c].closed = child[c].closed
  BY FoldedAt DEF FoldedState

\* What a call makes of a folded child.
FoldedAs(p, e, i, j, b) == [pc |-> p, expected |-> e, claim |-> i, start |-> j, closed |-> b]
FoldedTo(r, pc) == [r EXCEPT !.pc = pc]
FoldedClaim(r, pc, x) == [r EXCEPT !.pc = pc, !.claim = x]
FoldedStart(r, pc, x) == [r EXCEPT !.pc = pc, !.start = x]
FoldedClosed(r, pc, x) == [r EXCEPT !.pc = pc, !.closed = x]

LEMMA FoldedEdits ==
  ASSUME NEW p, NEW e, NEW i, NEW j, NEW b, NEW pc, NEW x
  PROVE  /\ FoldedTo(FoldedAs(p, e, i, j, b), pc) = FoldedAs(pc, e, i, j, b)
         /\ FoldedClaim(FoldedAs(p, e, i, j, b), pc, x) = FoldedAs(pc, e, x, j, b)
         /\ FoldedStart(FoldedAs(p, e, i, j, b), pc, x) = FoldedAs(pc, e, i, x, b)
         /\ FoldedClosed(FoldedAs(p, e, i, j, b), pc, x) = FoldedAs(pc, e, i, j, x)
  <1>1. [FoldedAs(p, e, i, j, b) EXCEPT !.pc = pc] = FoldedAs(pc, e, i, j, b)
    BY DEF FoldedAs
  <1>2. /\ [FoldedAs(pc, e, i, j, b) EXCEPT !.claim = x] = FoldedAs(pc, e, x, j, b)
        /\ [FoldedAs(pc, e, i, j, b) EXCEPT !.start = x] = FoldedAs(pc, e, i, x, b)
        /\ [FoldedAs(pc, e, i, j, b) EXCEPT !.closed = x] = FoldedAs(pc, e, i, j, x)
    BY DEF FoldedAs
  <1> QED
    BY <1>1, <1>2, Zenon DEF FoldedTo, FoldedClaim, FoldedStart, FoldedClosed

\* A folded child after a call.
LEMMA FoldedEdit ==
  ASSUME NEW c \in Child, NEW s, NEW pc, NEW x, FoldedPc(s) = pc, s.expected = child[c].expected
  PROVE  /\ s.claim = x /\ s.start = child[c].start /\ s.closed = child[c].closed =>
              FoldedState(s) = FoldedClaim(folded[c], pc, x)
         /\ s.claim = child[c].claim /\ s.start = x /\ s.closed = child[c].closed =>
              FoldedState(s) = FoldedStart(folded[c], pc, x)
         /\ s.claim = child[c].claim /\ s.start = child[c].start /\ s.closed = x =>
              FoldedState(s) = FoldedClosed(folded[c], pc, x)
  <1>1. folded[c] = FoldedAs(FoldedPc(child[c]), child[c].expected, child[c].claim, child[c].start, child[c].closed)
    BY FoldedAt DEF FoldedState, FoldedAs
  <1>2. FoldedState(s) = FoldedAs(pc, child[c].expected, s.claim, s.start, s.closed)
    BY DEF FoldedState, FoldedAs
  <1> QED
    BY <1>1, <1>2, FoldedEdits

\* claim-effect.
LEMMA ClaimFolds ==
  ASSUME IInv, NEW c \in Child, claim_effect(c)
  PROVE  Folded!claim(c)
  <1>0. TypeOK /\ child[c] \in ChildState /\ child[c].pc = "claim-effect"
    BY DEF IInv, TypeOK, claim_effect, At
  <1>1. PICK t \in U64 :
          LET o == claim_with_nonce(row, Broker, t, child[c].expected, c)
          IN  \E f \in FatesOrDoubled(o) :
                /\ row' = f.row
                /\ IF f.reply /\ o.decision = "Proposed"
                   THEN Becomes(c, [child[c] EXCEPT !.pc = "persist-proposal",
                                                    !.claim = o.authority.effect_claim_id])
                   ELSE Goto(c, "persist")
    BY DEF claim_effect
  <1>2. PICK o : o = claim_with_nonce(row, Broker, t, child[c].expected, c)
    OBVIOUS
  <1>3. PICK f \in FatesOrDoubled(o) :
          /\ row' = f.row
          /\ IF f.reply /\ o.decision = "Proposed"
             THEN Becomes(c, [child[c] EXCEPT !.pc = "persist-proposal", !.claim = o.authority.effect_claim_id])
             ELSE Goto(c, "persist")
    BY <1>1, <1>2
  <1>4. o = Folded!claim_with_nonce(row, Broker, t, folded[c].expected, c)
    BY <1>2, SameClaim, FoldedFields
  <1>5. ASSUME f.reply /\ o.decision = "Proposed"
        PROVE  Folded!Set(c, FoldedClaim(folded[c], "propose", o.authority.effect_claim_id))
    <2>0. PICK s : s = [child[c] EXCEPT !.pc = "persist-proposal", !.claim = o.authority.effect_claim_id]
      OBVIOUS
    <2>1. /\ s.pc = "persist-proposal" /\ s.claim = o.authority.effect_claim_id
          /\ s.expected = child[c].expected /\ s.start = child[c].start /\ s.closed = child[c].closed
      BY <1>0, <2>0 DEF ChildState
    <2>3. FoldedPc(s) = "propose"
      BY <2>1 DEF FoldedPc
    <2>2. FoldedState(s) = FoldedClaim(folded[c], "propose", o.authority.effect_claim_id)
      BY <2>1, <2>3, FoldedEdit
    <2> QED
      BY <1>0, <1>3, <1>5, <2>0, <2>2, FoldedSet, Zenon
  <1>6. ASSUME ~(f.reply /\ o.decision = "Proposed")
        PROVE  Folded!Advance(c, "persist")
    BY <1>0, <1>3, <1>6, FoldedMove DEF FoldedPc, ChildState
  <1>7. Folded!Is(c, "claim")
    BY <1>0, FoldedIs DEF FoldedPc
  <1>8. key' = key /\ FoldedResult' = FoldedResult
    BY DEF claim_effect, provider, runtime, FoldedResult
  <1>9. t \in Folded!U64 /\ f \in Folded!FatesOrDoubled(o)
    BY <1>3, SameCalls
  <1> QED
    BY <1>3, <1>4, <1>5, <1>6, <1>7, <1>8, <1>9 DEF Folded!claim, folded, FoldedClaim

\* begin-effect.
LEMMA BeginFolds ==
  ASSUME IInv, NEW c \in Child, begin_effect(c)
  PROVE  Folded!begin(c)
  <1>0. TypeOK /\ child[c] \in ChildState /\ child[c].pc = "begin-effect"
    BY DEF IInv, TypeOK, begin_effect, At
  <1>7. Folded!Is(c, "begin")
    BY <1>0, FoldedIs DEF FoldedPc
  <1>8. key' = key /\ FoldedResult' = FoldedResult
    BY DEF begin_effect, provider, runtime, FoldedResult
  <1>a. Goto(c, "persist") => Folded!Advance(c, "persist")
    BY <1>0, FoldedMove DEF FoldedPc, ChildState
  <1>1. CASE Goto(c, "persist") /\ row' = row
    BY <1>1, <1>7, <1>8, <1>a DEF Folded!begin
  <1>2. ASSUME NEW t \in U64, NEW o, o = begin_effect_with_nonce(row, Broker, child[c].claim, c, t),
               NEW f \in FatesOrDoubled(o), row' = f.row,
               IF f.reply /\ o.decision = "Won"
               THEN Becomes(c, [child[c] EXCEPT !.pc = "confirm-effect-start",
                                                !.start = o.authority.effect_start_id])
               ELSE Goto(c, "persist")
        PROVE  Folded!begin(c)
    <2>1. o = Folded!begin_effect_with_nonce(row, Broker, folded[c].claim, c, t)
      BY <1>2, SameBegin, FoldedFields
    <2>2. ASSUME f.reply /\ o.decision = "Won"
          PROVE  Folded!Set(c, FoldedStart(folded[c], "confirm", o.authority.effect_start_id))
      <3>0. PICK s : s = [child[c] EXCEPT !.pc = "confirm-effect-start", !.start = o.authority.effect_start_id]
        OBVIOUS
      <3>1. /\ s.pc = "confirm-effect-start" /\ s.start = o.authority.effect_start_id
            /\ s.expected = child[c].expected /\ s.claim = child[c].claim /\ s.closed = child[c].closed
        BY <1>0, <3>0 DEF ChildState
      <3>3. FoldedPc(s) = "confirm"
        BY <3>1 DEF FoldedPc
      <3>2. FoldedState(s) = FoldedStart(folded[c], "confirm", o.authority.effect_start_id)
        BY <3>1, <3>3, FoldedEdit
      <3> QED
        BY <1>0, <1>2, <2>2, <3>0, <3>2, FoldedSet, Zenon
    <2>3. t \in Folded!U64 /\ f \in Folded!FatesOrDoubled(o)
      BY <1>2, SameCalls
    <2> QED
      BY <1>2, <1>7, <1>8, <1>a, <2>1, <2>2, <2>3 DEF Folded!begin, folded, FoldedStart
  <1> QED
    BY <1>1, <1>2 DEF begin_effect

\* The rest of what is written or called.
LEMMA ProposeFolds ==
  ASSUME IInv, NEW c \in Child, persist_proposal(c)
  PROVE  Folded!propose(c)
  <1>0. TypeOK /\ child[c] \in ChildState /\ child[c].pc = "persist-proposal"
    BY DEF IInv, TypeOK, persist_proposal, At
  <1>1. Folded!Is(c, "propose")
    BY <1>0, FoldedIs DEF FoldedPc
  <1>2. Folded!Advance(c, "begin")
    BY <1>0, FoldedMove DEF persist_proposal, FoldedPc, ChildState
  <1>3. result' # None /\ result' = ResultOf(c)
    BY <1>0, ResultAssumption DEF persist_proposal, ResultOf, Result, ChildState
  <1>4. FoldedResult' = Folded!ResultOf(folded[c])
    BY <1>3, FoldedFields DEF FoldedResult, ResultOf, Folded!ResultOf
  <1> QED
    BY <1>1, <1>2, <1>4 DEF Folded!propose, folded, persist_proposal, provider

LEMMA EndFolds ==
  ASSUME IInv, NEW c \in Child, persist(c) \/ crash(c)
  PROVE  Folded!persist(c) \/ Folded!die(c)
  <1>0. TypeOK /\ child[c] \in ChildState
    BY DEF IInv, TypeOK
  <1>6. /\ Ended.pc = "ended" /\ Ended.expected = 0 /\ Ended.claim = None /\ Ended.start = None
        /\ Ended.closed = FALSE
    BY DEF Ended, Off
  <1>7. FoldedPc(Ended) = "ended"
    BY <1>6 DEF FoldedPc
  <1>8. Folded!Ended = [pc |-> "ended", expected |-> 0, claim |-> None, start |-> None, closed |-> FALSE]
    <2>1. Folded!Off = [pc |-> "off", expected |-> 0, claim |-> None, start |-> None, closed |-> FALSE]
      BY DEF Folded!Off
    <2>2. PICK r, b : r = Folded!Off /\ b = FALSE
      OBVIOUS
    <2>3. r = [pc |-> "off", expected |-> 0, claim |-> None, start |-> None, closed |-> b]
      BY <2>1, <2>2
    <2>4. [r EXCEPT !.pc = "ended"] = [pc |-> "ended", expected |-> 0, claim |-> None, start |-> None, closed |-> b]
      BY <2>3
    <2> QED
      BY <2>2, <2>4, Zenon DEF Folded!Ended
  <1>1. FoldedState(Ended) = Folded!Ended
    BY <1>6, <1>7, <1>8 DEF FoldedState
  <1>2. Folded!Set(c, Folded!Ended)
    <2>1. Becomes(c, Ended)
      BY DEF persist, crash
    <2> QED
      BY <1>0, <1>1, <2>1, FoldedSet, Zenon
  <1>3. row' = row /\ key' = key
    BY DEF persist, crash, provider
  <1>4. CASE persist(c)
    <2>1. Folded!Is(c, "persist")
      BY <1>4, FoldedIs DEF FoldedPc, persist, At
    <2>2. result' # None /\ result' = ResultOf(c)
      BY <1>0, <1>4, ResultAssumption DEF persist, ResultOf, Result, ChildState
    <2>3. FoldedResult' = Folded!ResultOf(folded[c])
      BY <2>2, FoldedFields DEF FoldedResult, ResultOf, Folded!ResultOf
    <2> QED
      BY <1>2, <1>3, <2>1, <2>3 DEF Folded!persist, folded
  <1>5. CASE crash(c)
    <2>1. folded[c].pc \in Folded!Calling
      <3>1. FoldedPc(child[c]) \in Folded!Calling
        BY <1>5 DEF FoldedPc, crash, Running, Folded!Calling
      <3> QED
        BY <3>1, FoldedFields
    <2>2. FoldedResult' = FoldedResult
      BY <1>5 DEF FoldedResult, crash, runtime
    <2> QED
      BY <1>2, <1>3, <2>1, <2>2 DEF Folded!die, folded
  <1> QED
    BY <1>4, <1>5

\* confirm-claim shows in the fold only when the child gives up.
LEMMA ConfirmClaimFolds ==
  ASSUME IInv, NEW c \in Child, confirm_claim_call(c)
  PROVE  [Folded!ChildNext]_(Folded!childVars)
  <1>0. TypeOK /\ child[c] \in ChildState /\ FoldedPc(child[c]) = "begin"
    BY DEF IInv, TypeOK, confirm_claim_call, At, FoldedPc
  <1>1. row' = row /\ key' = key /\ result' = result
    BY DEF confirm_claim_call, provider, runtime
  <1>2. CASE Goto(c, "begin-effect")
    <2>1. FoldedPc([child[c] EXCEPT !.pc = "begin-effect"]) = "begin"
      BY <1>0 DEF ChildState, FoldedPc
    <2> QED
      BY <1>0, <1>1, <1>2, <2>1, FoldedMove, FoldedStutter
  <1>3. CASE Goto(c, "persist")
    <2>1. FoldedPc([child[c] EXCEPT !.pc = "persist"]) = "persist"
      BY <1>0 DEF ChildState, FoldedPc
    <2>2. Folded!Advance(c, "persist")
      BY <1>0, <1>3, <2>1, FoldedMove
    <2>3. Folded!begin(c)
      BY <1>0, <1>1, <2>2, FoldedIs DEF Folded!begin, FoldedResult
    <2> QED
      BY <2>3, SameCalls DEF Folded!ChildNext, Folded!ChildStep
  <1> QED
    BY <1>2, <1>3 DEF confirm_claim_call

\* confirm-effect-start.
LEMMA ConfirmStartFolds ==
  ASSUME IInv, NEW c \in Child, confirm_effect_start_call(c)
  PROVE  Folded!confirm(c)
  <1>0. TypeOK /\ child[c] \in ChildState /\ FoldedPc(child[c]) = "confirm"
    BY DEF IInv, TypeOK, confirm_effect_start_call, At, FoldedPc
  <1>1. row' = row /\ key' = key /\ FoldedResult' = FoldedResult
    BY DEF confirm_effect_start_call, provider, runtime, FoldedResult
  <1>2. ASSUME StartConfirmed(c), NEW s, s = [child[c] EXCEPT !.pc = "mint", !.confirmed = TRUE], Becomes(c, s)
        PROVE  /\ Folded!confirm_effect_start(row, Broker, folded[c].claim, folded[c].start)
               /\ Folded!Advance(c, "act")
    <2>1. SameCredentials(s, child[c]) /\ FoldedPc(s) = "act"
      BY <1>0, <1>2 DEF ChildState, SameCredentials, FoldedPc
    <2> QED
      BY <1>0, <1>2, <2>1, FoldedGo, FoldedFields, SameStart DEF StartConfirmed
  <1>3. ASSUME Goto(c, "persist") PROVE Folded!Advance(c, "persist")
    <2>1. FoldedPc([child[c] EXCEPT !.pc = "persist"]) = "persist"
      BY <1>0 DEF ChildState, FoldedPc
    <2> QED
      BY <1>0, <1>3, <2>1, FoldedMove
  <1> QED
    BY <1>0, <1>1, <1>2, <1>3, FoldedIs DEF Folded!confirm, confirm_effect_start_call, folded

\* Tokens, reads, the DELETE and the verification of a DELETE that was answered
\* are the one step act, or nothing, or the key going.
LEMMA ActFolds ==
  ASSUME IInv, NEW c \in Child, NEW s, Becomes(c, s), SameCredentials(s, child[c]),
         FoldedPc(child[c]) = "act",
         \/ FoldedPc(s) \in {"act", "persist", "unknown"}
         \/ FoldedPc(s) = "settle" /\ ~key',
         row' = row, result' = result, key' \in {key, FALSE}
  PROVE  [Folded!ChildNext]_(Folded!childVars)
  <1>0. TypeOK
    BY DEF IInv
  <1>1. Folded!Advance(c, FoldedPc(s)) /\ (FoldedPc(s) = "act" => folded' = folded)
    BY <1>0, FoldedGo
  <1>2. CASE FoldedPc(s) = "act" /\ key' = key
    BY <1>1, <1>2, FoldedStutter
  <1>3. CASE FoldedPc(s) = "act" /\ key' # key
    <2>1. key /\ key' = FALSE
      BY <1>0, <1>3 DEF TypeOK
    <2>2. Folded!key_removed
      BY <1>1, <1>3, <2>1 DEF Folded!key_removed, folded, FoldedResult
    <2> QED
      BY <2>2 DEF Folded!ChildNext
  <1>4. CASE FoldedPc(s) # "act"
    <2>1. Folded!act(c)
      BY <1>1, <1>4, FoldedIs DEF Folded!act, FoldedResult
    <2> QED
      BY <2>1, SameCalls DEF Folded!ChildNext, Folded!ChildStep
  <1> QED
    BY <1>2, <1>3, <1>4

LEMMA ActMoveFolds ==
  ASSUME IInv, NEW c \in Child, NEW pc, Goto(c, pc), FoldedPc(child[c]) = "act",
         \/ pc \in {"mint", "precheck", "delete", "after", "cleanup", "finally", "persist"}
         \/ pc = "finalize-unknown"
         \/ pc = "verify" /\ child[c].class # "ATTEMPTED_OUTCOME_UNKNOWN"
         \/ pc = "settle" /\ child[c].class # "ATTEMPTED_OUTCOME_UNKNOWN" /\ ~key',
         row' = row, result' = result, key' \in {key, FALSE}
  PROVE  [Folded!ChildNext]_(Folded!childVars)
  <1>1. PICK s : s = [child[c] EXCEPT !.pc = pc]
    OBVIOUS
  <1>2. s.pc = pc /\ s.class = child[c].class /\ SameCredentials(s, child[c])
    BY <1>1 DEF IInv, TypeOK, ChildState, SameCredentials
  <1>3. \/ FoldedPc(s) \in {"act", "persist", "unknown"}
        \/ FoldedPc(s) = "settle" /\ ~key'
    BY <1>2 DEF FoldedPc
  <1>4. Becomes(c, s)
    BY <1>1, Zenon DEF Goto
  <1> QED
    BY <1>2, <1>3, <1>4, ActFolds

LEMMA DeleteFolds ==
  ASSUME IInv, NEW c \in Child, mint(c) \/ precheck(c) \/ delete_key(c) \/ after(c) \/ cleanup(c) \/ finally(c)
  PROVE  [Folded!ChildNext]_(Folded!childVars)
  <1>0. child[c] \in ChildState /\ FoldedPc(child[c]) = "act"
    BY DEF IInv, TypeOK, mint, precheck, delete_key, after, cleanup, finally, At, FoldedPc
  <1>1. CASE mint(c) \/ precheck(c) \/ finally(c)
    <2>1. row' = row /\ result' = result /\ key' = key
      BY <1>1 DEF mint, precheck, finally, provider, runtime
    <2>2. PICK pc \in {"precheck", "delete", "finally", "persist"} : Goto(c, pc)
      BY <1>1 DEF mint, precheck, finally
    <2> QED
      BY <1>0, <2>1, <2>2, ActMoveFolds
  <1>2. CASE delete_key(c)
    <2>1. row' = row /\ result' = result /\ key' \in {key, FALSE}
      BY <1>2 DEF delete_key, runtime
    <2>2. PICK outcome : Deleted(c, outcome)
      BY <1>2 DEF delete_key
    <2>3. PICK s : s = [child[c] EXCEPT !.pc = "after", !.delete = outcome]
      OBVIOUS
    <2>4. s.pc = "after" /\ SameCredentials(s, child[c])
      BY <1>0, <2>3 DEF ChildState, SameCredentials
    <2>5. FoldedPc(s) = "act"
      BY <2>4 DEF FoldedPc
    <2>6. Becomes(c, s)
      BY <2>2, <2>3, Zenon DEF Deleted, AfterDelete
    <2> QED
      BY <1>0, <2>1, <2>4, <2>5, <2>6, ActFolds
  <1>3. CASE after(c)
    <2>1. row' = row /\ result' = result /\ key' = key
      BY <1>3 DEF after, provider, runtime
    <2>2. PICK class : Becomes(c, [child[c] EXCEPT !.pc = "cleanup", !.class = class])
      BY <1>3 DEF after
    <2>3. PICK s : s = [child[c] EXCEPT !.pc = "cleanup", !.class = class]
      OBVIOUS
    <2>4. s.pc = "cleanup" /\ SameCredentials(s, child[c])
      BY <1>0, <2>3 DEF ChildState, SameCredentials
    <2>5. FoldedPc(s) = "act"
      BY <2>4 DEF FoldedPc
    <2>6. Becomes(c, s)
      BY <2>2, <2>3, Zenon
    <2> QED
      BY <1>0, <2>1, <2>4, <2>5, <2>6, ActFolds
  <1>4. CASE cleanup(c)
    <2>1. row' = row /\ result' = result /\ key' = key
      BY <1>4 DEF cleanup, runtime
    <2>2. PICK pc : /\ Goto(c, pc)
                    /\ pc \in {"persist", "finally"} \/ pc = Settlement(child[c].class)
      BY <1>4 DEF cleanup
    <2>3. \/ pc \in {"persist", "finally"}
          \/ pc = "finalize-unknown"
          \/ pc = "verify" /\ child[c].class # "ATTEMPTED_OUTCOME_UNKNOWN"
      BY <2>2 DEF Settlement
    <2> QED
      BY <1>0, <2>1, <2>2, <2>3, ActMoveFolds
  <1> QED
    BY <1>1, <1>2, <1>3, <1>4

\* The first answer to a DELETE that was not answered.
LEMMA UnknownFolds ==
  ASSUME IInv, NEW c \in Child, finalize_unknown(c)
  PROVE  Folded!unknown(c)
  <1>0. /\ TypeOK /\ child[c] \in ChildState /\ child[c].pc = "finalize-unknown"
        /\ child[c].class = "ATTEMPTED_OUTCOME_UNKNOWN" /\ FoldedPc(child[c]) = "unknown"
    BY DEF IInv, TypeOK, Consistent, finalize_unknown, At, FoldedPc
  <1>1. key' = key /\ FoldedResult' = FoldedResult
    BY DEF finalize_unknown, provider, runtime, FoldedResult
  <1>2. PICK f \in Fates(finalize_with_start(row, Broker, child[c].claim, child[c].start, "ATTEMPTED_OUTCOME_UNKNOWN")) :
          row' = f.row /\ Goto(c, IF f.reply THEN "verify" ELSE "persist")
    BY DEF finalize_unknown
  <1>3. f \in Folded!Fates(Folded!finalize_with_start(row, Broker, folded[c].claim, folded[c].start,
                                                      "ATTEMPTED_OUTCOME_UNKNOWN"))
    BY <1>2, SameCalls, SameSettle, FoldedFields
  <1>4. Folded!Advance(c, IF f.reply THEN "verify" ELSE "persist")
    <2>1. PICK pc : pc = IF f.reply THEN "verify" ELSE "persist"
      OBVIOUS
    <2>2. FoldedPc([child[c] EXCEPT !.pc = pc]) = pc
      BY <1>0, <2>1 DEF ChildState, FoldedPc
    <2> QED
      BY <1>0, <1>2, <2>1, <2>2, FoldedMove
  <1> QED
    BY <1>0, <1>1, <1>2, <1>3, <1>4, FoldedIs DEF Folded!unknown, folded

\* The independent verification, after either answer.
LEMMA VerifyFolds ==
  ASSUME IInv, NEW c \in Child, verify(c)
  PROVE  [Folded!ChildNext]_(Folded!childVars)
  <1>0. TypeOK /\ child[c] \in ChildState /\ child[c].pc = "verify"
    BY DEF IInv, TypeOK, verify, At
  <1>1. row' = row /\ key' = key /\ result' = result
    BY DEF verify, provider, runtime
  <1>2. Goto(c, "persist") \/ (Goto(c, "settle") /\ ~key)
    BY DEF verify, TargetAbsent, ExactReads
  <1>3. CASE child[c].class # "ATTEMPTED_OUTCOME_UNKNOWN"
    <2>1. FoldedPc(child[c]) = "act"
      BY <1>0, <1>3 DEF FoldedPc
    <2> QED
      BY <1>1, <1>2, <1>3, <2>1, ActMoveFolds
  <1>4. CASE child[c].class = "ATTEMPTED_OUTCOME_UNKNOWN"
    <2>1. FoldedPc(child[c]) = "verify"
      BY <1>0, <1>4 DEF FoldedPc
    <2>2. ASSUME Goto(c, "persist") PROVE Folded!Advance(c, "persist")
      <3>1. FoldedPc([child[c] EXCEPT !.pc = "persist"]) = "persist"
        BY <1>0 DEF ChildState, FoldedPc
      <3> QED
        BY <1>0, <2>2, <3>1, FoldedMove
    <2>3. ASSUME Goto(c, "settle") PROVE Folded!Advance(c, "resettle")
      <3>1. FoldedPc([child[c] EXCEPT !.pc = "settle"]) = "resettle"
        BY <1>0, <1>4 DEF ChildState, FoldedPc
      <3> QED
        BY <1>0, <2>3, <3>1, FoldedMove
    <2>4. Folded!verify(c)
      BY <1>1, <1>2, <2>1, <2>2, <2>3, FoldedIs DEF Folded!verify, FoldedResult
    <2> QED
      BY <2>4, SameCalls DEF Folded!ChildNext, Folded!ChildStep
  <1> QED
    BY <1>3, <1>4

\* finalize and reconcile as VERIFIED_ABSENT.
LEMMA SettleFolds ==
  ASSUME IInv, NEW c \in Child, settle(c)
  PROVE  Folded!settle(c)
  <1>0. TypeOK /\ child[c] \in ChildState /\ child[c].pc = "settle"
    BY DEF IInv, TypeOK, settle, At
  <1>1. key' = key /\ FoldedResult' = FoldedResult
    BY DEF settle, provider, runtime, FoldedResult
  <1>2. PICK o : o = IF child[c].class = "ATTEMPTED_OUTCOME_UNKNOWN"
                     THEN reconcile_with_start(row, Broker, child[c].claim, child[c].start, "VERIFIED_ABSENT")
                     ELSE finalize_with_start(row, Broker, child[c].claim, child[c].start, "VERIFIED_ABSENT")
    OBVIOUS
  <1>3. PICK f \in Fates(o) :
          /\ row' = f.row
          /\ Becomes(c, [child[c] EXCEPT !.pc = "persist", !.closed = f.reply /\ o.decision = "Won"])
    BY <1>2 DEF settle
  <1>c. PICK won : won = (f.reply /\ o.decision = "Won")
    OBVIOUS
  <1>4. PICK s : s = [child[c] EXCEPT !.pc = "persist", !.closed = won]
    OBVIOUS
  <1>5. /\ s.pc = "persist" /\ s.closed = won
        /\ s.expected = child[c].expected /\ s.claim = child[c].claim /\ s.start = child[c].start
    BY <1>0, <1>4 DEF ChildState
  <1>6. FoldedPc(s) = "persist"
    BY <1>5 DEF FoldedPc
  <1>7. FoldedState(s) = FoldedClosed(folded[c], "persist", won)
    BY <1>5, <1>6, FoldedEdit
  <1>8. Folded!Set(c, FoldedClosed(folded[c], "persist", won))
    BY <1>0, <1>3, <1>4, <1>7, <1>c, FoldedSet, Zenon
  <1>9. /\ folded[c].pc \in {"settle", "resettle"}
        /\ Folded!Is(c, "settle") <=> child[c].class # "ATTEMPTED_OUTCOME_UNKNOWN"
    BY <1>0, FoldedFields DEF FoldedPc, Folded!Is, folded
  <1>a. o = IF Folded!Is(c, "settle")
            THEN Folded!finalize_with_start(row, Broker, folded[c].claim, folded[c].start, "VERIFIED_ABSENT")
            ELSE Folded!reconcile_with_start(row, Broker, folded[c].claim, folded[c].start, "VERIFIED_ABSENT")
    BY <1>2, <1>9, FoldedFields, SameSettle
  <1>b. f \in Folded!Fates(o)
    BY <1>3, SameCalls
  <1> QED
    BY <1>1, <1>3, <1>8, <1>9, <1>a, <1>b, <1>c DEF Folded!settle, folded, FoldedClosed

\* A child the worker spawns is launched.
LEMMA SpawnFolds ==
  ASSUME IInv, NEW c \in Child, spawn(c)
  PROVE  Folded!launch(c)
  <1>0. TypeOK
    BY DEF IInv
  <1>1. PICK pc, claim : /\ pc = IF ExistingClaim THEN "confirm-claim" ELSE "claim-effect"
                         /\ claim = IF ExistingClaim THEN job.claim_id ELSE None
    OBVIOUS
  <1>2. Becomes(c, [Off EXCEPT !.pc = pc, !.expected = job.claim_version, !.claim = claim])
    BY <1>1, Zenon DEF spawn
  <1>3. PICK s : s = [Off EXCEPT !.pc = pc, !.expected = job.claim_version, !.claim = claim]
    OBVIOUS
  <1>4. /\ s.pc = pc /\ s.expected = job.claim_version /\ s.claim = claim
        /\ s.start = None /\ s.closed = FALSE
    BY <1>3 DEF Off
  <1>5. job.claim_version \in U64 /\ claim \in StateId \cup {None} /\ (claim # None <=> ExistingClaim)
    BY <1>0, <1>1 DEF TypeOK, Job, spawn
  <1>6. FoldedPc(s) = IF claim = None THEN "claim" ELSE "begin"
    BY <1>1, <1>4, <1>5 DEF FoldedPc
  <1>7. FoldedState(s) = Folded!Launched(job.claim_version, claim)
    <2>1. PICK r, b, to : r = Folded!Off /\ b = FALSE /\ to = IF claim = None THEN "claim" ELSE "begin"
      OBVIOUS
    <2>2. r = [pc |-> "off", expected |-> 0, claim |-> None, start |-> None, closed |-> b]
      BY <2>1 DEF Folded!Off
    <2>3. [r EXCEPT !.pc = to, !.expected = job.claim_version, !.claim = claim]
            = [pc |-> to, expected |-> job.claim_version, claim |-> claim, start |-> None, closed |-> b]
      <3>1. [r EXCEPT !.pc = to] = [pc |-> to, expected |-> 0, claim |-> None, start |-> None, closed |-> b]
        BY <2>2
      <3>2. [[pc |-> to, expected |-> 0, claim |-> None, start |-> None, closed |-> b]
               EXCEPT !.expected = job.claim_version]
              = [pc |-> to, expected |-> job.claim_version, claim |-> None, start |-> None, closed |-> b]
        OBVIOUS
      <3>3. [[pc |-> to, expected |-> job.claim_version, claim |-> None, start |-> None, closed |-> b]
               EXCEPT !.claim = claim]
              = [pc |-> to, expected |-> job.claim_version, claim |-> claim, start |-> None, closed |-> b]
        OBVIOUS
      <3> QED
        BY <3>1, <3>2, <3>3, Zenon
    <2>4. FoldedState(s) = [pc |-> to, expected |-> job.claim_version, claim |-> claim, start |-> None, closed |-> b]
      BY <1>4, <1>6, <2>1 DEF FoldedState
    <2> QED
      BY <2>1, <2>3, <2>4, Zenon DEF Folded!Launched
  <1>8. Folded!Set(c, Folded!Launched(job.claim_version, claim))
    BY <1>0, <1>2, <1>3, <1>7, FoldedSet, Zenon
  <1>9. Folded!Is(c, "off")
    BY FoldedIs DEF FoldedPc, spawn, At
  <1>10. row' = row /\ key' = key /\ FoldedResult' = None
    BY DEF spawn, provider, FoldedResult
  <1>11. job.claim_version \in Folded!U64 /\ claim \in Folded!StateId \cup {None}
    BY <1>5, SameCalls
  <1> QED
    BY <1>8, <1>9, <1>10, <1>11 DEF Folded!launch, folded

\* The worker's reconcile-effect moves only the row whose claim and start it names.
LEMMA ReconcileFolds ==
  ASSUME IInv, reconcile_call
  PROVE  [Folded!ChildNext]_(Folded!childVars)
  <1> DEFINE o == reconcile_with_start(row, Broker, worker.claim_id, worker.start_id, worker.class)
  <1>1. PICK f \in Fates(o) : row' = f.row
    BY DEF reconcile_call
  <1>2. row' \in {row, Stored(o)}
    BY <1>1 DEF Fates
  <1>3. key' = key /\ result' = result /\ folded' = folded
    BY DEF reconcile_call, provider, folded
  <1>4. row # None
    BY OptionAssumption DEF IInv, TypeOK
  <1>5. worker.class = "VERIFIED_ABSENT" => ~key
    BY DEF IInv, reconcile_call
  <1>6. CASE o.decision = "Denied" /\ o.authority = row
    BY <1>2, <1>3, <1>6, FoldedStutter DEF Stored
  <1>7. CASE /\ worker.claim_id = row.effect_claim_id /\ worker.start_id = row.effect_start_id
             /\ worker.class \in Classification
    <2>1. o = Folded!reconcile_with_start(row, Broker, row.effect_claim_id, row.effect_start_id, worker.class)
      BY <1>7, SameSettle
    <2>2. CASE row' = row
      BY <1>3, <2>2, FoldedStutter
    <2>3. CASE row' = Stored(o)
      <3>1. Folded!reconciled
        BY <1>3, <1>4, <1>5, <1>7, <2>1, <2>3, SameCalls DEF Folded!reconciled, folded, FoldedResult
      <3> QED
        BY <3>1 DEF Folded!ChildNext, Folded!Surroundings
    <2> QED
      BY <1>2, <2>2, <2>3
  <1> HIDE DEF o
  <1> QED
    BY <1>6, <1>7, ReconcileOwn DEF o

\* Everything else outside the children.
LEMMA OutsideFolds ==
  ASSUME IInv,
         \/ \E c \in Child : delete_lands(c) \/ token_expires(c)
         \/ WorkerStep \/ observe \/ release \/ key_removed
  PROVE  [Folded!ChildNext]_(Folded!childVars)
  <1>1. CASE \/ \E c \in Child : token_expires(c)
             \/ collect \/ reconcile_begin \/ reconcile_verify \/ worker_crash \/ observe
    <2>1. row' = row /\ key' = key /\ result' = result /\ child' = child
      BY <1>1 DEF token_expires, collect, reconcile_begin, reconcile_verify, worker_crash, observe, provider, runtime
    <2> QED
      BY <2>1, FoldedStutter DEF folded
  <1>2. CASE key_removed \/ \E c \in Child : delete_lands(c)
    <2>1. row' = row /\ key' = FALSE /\ result' = result /\ folded' = folded
      BY <1>2 DEF key_removed, delete_lands, runtime, folded
    <2>2. CASE key
      <3>1. Folded!key_removed
        BY <2>1, <2>2 DEF Folded!key_removed, folded, FoldedResult
      <3> QED
        BY <3>1 DEF Folded!ChildNext
    <2>3. CASE ~key
      BY <2>1, <2>3, FoldedStutter DEF IInv, TypeOK
    <2> QED
      BY <2>2, <2>3
  <1>3. CASE release
    <2>1. row # None
      BY OptionAssumption DEF IInv, TypeOK
    <2>2. key' = key /\ result' = result /\ folded' = folded
      BY <1>3 DEF release, provider, runtime, folded
    <2>3. Folded!release
      <3>1. PICK now \in U64 :
              LET o == release_not_attempted(row, Broker, row.effect_claim_id, now)
              IN  o.decision = "Won" /\ row' = o.authority
        BY <1>3 DEF release
      <3>2. PICK o : o = release_not_attempted(row, Broker, row.effect_claim_id, now)
        OBVIOUS
      <3>3. o = Folded!release_not_attempted(row, Broker, row.effect_claim_id, now)
        BY <3>2, SameBegin
      <3>4. now \in Folded!U64 /\ FoldedResult' = FoldedResult
        BY <2>2, SameCalls DEF FoldedResult
      <3> QED
        BY <2>1, <2>2, <3>1, <3>2, <3>3, <3>4 DEF Folded!release, folded
    <2> QED
      BY <2>3 DEF Folded!ChildNext
  <1> QED
    BY <1>1, <1>2, <1>3, ReconcileFolds DEF WorkerStep

\* A row that has no start has no effect.
LEMMA InitFolds ==
  ASSUME Init
  PROVE  Folded!ChildInit
  <1>1. GoodRow(row) /\ row.effect_start_id = None
    BY InitRow
  <1>2. NoEffect(row)
    BY <1>1 DEF GoodRow, IncidentAuthority, valid_shape, StatusShape, NoEffect, Started, Status
  <1>3. row \in Folded!IncidentAuthority
    BY <1>1, SameCalls DEF GoodRow, IncidentAuthority, Folded!IncidentAuthority, Status, Folded!Status
  <1>4. Folded!valid_shape(row) /\ Folded!NoEffect(row)
    BY <1>1, <1>2 DEF GoodRow, valid_shape, Folded!valid_shape, StatusShape, Folded!StatusShape, NoEffect,
                      Folded!NoEffect, Started, Folded!Started
  <1>5. folded = [c \in Folded!Child |-> Folded!Off]
    <2>1. /\ Off.pc = "off" /\ Off.expected = 0 /\ Off.claim = None /\ Off.start = None
          /\ Off.closed = FALSE
      BY DEF Off
    <2>2. FoldedPc(Off) = "off"
      BY <2>1 DEF FoldedPc
    <2>3. FoldedState(Off) = Folded!Off
      BY <2>1, <2>2 DEF FoldedState, Folded!Off
    <2> QED
      BY <2>3, SameCalls DEF Init, folded
  <1>6. key \in BOOLEAN /\ FoldedResult = None
    BY DEF Init, FoldedResult
  <1> QED
    BY <1>3, <1>4, <1>5, <1>6 DEF Folded!ChildInit, folded

\* The children RuntimeRecovery composes with a job are the children of broker/run.ts:
\* with the calls, tokens, DELETEs and deaths all in place, and the worker and the
\* coordinator around them, they do nothing that BrokerChild does not do.
THEOREM ChildrenFold == Spec => ChildrenAreFolded
  <1>1. Init => Folded!ChildInit
    BY InitFolds
  <1>2. IInv /\ [Next]_vars => [Folded!ChildNext]_(Folded!childVars)
    <2> SUFFICES ASSUME IInv, [Next]_vars PROVE [Folded!ChildNext]_(Folded!childVars)
      OBVIOUS
    <2>1. CASE UNCHANGED vars
      <3>1. row' = row /\ key' = key /\ folded' = folded /\ result' = result
        BY <2>1 DEF vars, folded
      <3> QED
        BY <3>1, FoldedStutter
    <2>2. ASSUME NEW c \in Child, ChildStep(c) PROVE [Folded!ChildNext]_(Folded!childVars)
      <3>1. CASE claim_effect(c) \/ begin_effect(c) \/ persist_proposal(c) \/ confirm_effect_start_call(c)
                 \/ finalize_unknown(c) \/ settle(c) \/ persist(c) \/ crash(c)
        <4>1. Folded!ChildStep(c)
          BY <3>1, ClaimFolds, BeginFolds, ProposeFolds, ConfirmStartFolds, UnknownFolds, SettleFolds, EndFolds
             DEF Folded!ChildStep
        <4> QED
          BY <4>1, SameCalls DEF Folded!ChildNext
      <3>2. CASE mint(c) \/ precheck(c) \/ delete_key(c) \/ after(c) \/ cleanup(c) \/ finally(c)
        BY <3>2, DeleteFolds
      <3> QED
        BY <2>2, <3>1, <3>2, ConfirmClaimFolds, VerifyFolds DEF ChildStep
    <2>3. ASSUME NEW c \in Child, spawn(c) PROVE [Folded!ChildNext]_(Folded!childVars)
      BY <2>3, SpawnFolds, SameCalls DEF Folded!ChildNext, Folded!Surroundings
    <2> QED
      BY <2>1, <2>2, <2>3, OutsideFolds DEF Next
  <1> QED
    BY <1>1, <1>2, BrokerInvariant, PTL DEF Spec, ChildrenAreFolded, Folded!ChildSpec
=============================================================================
