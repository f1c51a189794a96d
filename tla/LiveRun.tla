------------------------------ MODULE LiveRun ------------------------------
(***************************************************************************)
(* What the live-run scripts have in common (winner/scripts): one runner   *)
(* process that works against GitHub, the C1 contract, the evidence branch *)
(* and a webhook receiver, and the broker children it starts as contenders *)
(* (broker/run.ts outside production mode) and holds at file barriers.     *)
(*                                                                         *)
(* A script module states its own sequence over these variables; LiveRuns  *)
(* joins them.  A script follows one incident with one deploy key; what it *)
(* leaves behind outlives it.  A phase of the runner whose calls nobody    *)
(* else can observe between is one action with all its outcomes; every     *)
(* wait for another process is an action of its own.                       *)
(*                                                                         *)
(* Left out: formatting and redaction of evidence, key material on disk,   *)
(* and DELETEs that land after their answer was lost (EffectBroker has     *)
(* those).                                                                 *)
(***************************************************************************)
EXTENDS BrokerAdjudication

CONSTANTS
  Agent,   \* the remediation agent's DID
  Broker   \* the effect broker's DID, shared by all contenders

ASSUME RoleAssumption == {Agent, Broker} \subseteq Did \ {Tenant} /\ Agent # Broker

\* A contender is named for the nonces it draws.
Contender == Nonce

ASSUME TokenAssumption == Contender \cap {"setup", "source", "verifier", "cleanup"} = {}

VARIABLES
  script,    \* which script is run
  run,       \* the runner process
  key,       \* the run's deploy key at GitHub
  deletes,   \* DELETE requests sent for it, by anybody
  tokens,    \* installation tokens GitHub still accepts, named for who minted them
  branch,    \* the sandbox branch: head, and secret pushes issued by any launch
  row,       \* the C1 authority row, None before create-incident
  receipt,   \* the durable receipt of each delivery
  files,     \* evidence files in the working tree
  pushed,    \* evidence files on the remote branch
  inbox,     \* the webhook receiver
  gate,      \* the files runner and contenders wait for
  child      \* the contenders

vars == <<script, run, key, deletes, tokens, branch, row, receipt, files, pushed, inbox, gate, child>>

Delivery == {"trigger", "other"}

\* Tokens the runner mints, by purpose.
Purpose == {"setup", "source", "verifier", "cleanup"}

Evidence == {"CHECKPOINT", "POLICY", "MARKER", "RETIREMENT", "OFFLINE", "FINAL", "FAILURE"}

\* The steps of the scripts, by name: the causal runs, the replay, the contract proofs.
Step ==
  {"preflight", "receiver", "ingress", "app", "t3n", "setup-capability", "setup-refused",
   "source-capability", "verifier-capability", "verifier-refused", "baseline", "checkpoint",
   "app-again", "stage", "setup-mint", "target-mint", "target-create", "target-refused", "policy",
   "readback", "marker", "target-check-mint", "target-check", "trigger", "await", "history", "raw",
   "source-mint", "source-reads", "source-refused", "derive", "final", "completed", "process",
   "resumed", "create", "active", "reserve", "reserved", "spawn", "ready", "aborting", "results",
   "effect-ready", "exits", "retire", "replay", "reserve-again", "closed-replay", "terminal",
   "offline", "passed", "catch", "catch-source", "catch-setup", "ended", "crashed"}
  \cup
  {"receipt", "configuration", "listen", "tunnel", "original", "redeliver", "incident", "broker", "write"}
  \cup
  {"mint", "target", "readiness", "claim", "confirm", "stable", "stale", "evidence", "pre-begin",
   "negative-agent", "negative-broker", "after-negative", "begin", "post-begin", "confirm-start",
   "wrong-confirm", "duplicate", "release", "independent", "claim-read", "started-read", "new-begin",
   "fresh-claim", "reserve-after", "role", "bundle", "recheck", "pre-delete", "delete", "after",
   "finalize", "closed", "barriers"}

Runner ==
  [pc      : Step,
   target  : BOOLEAN,                       \* targetId is known
   held    : SUBSET Purpose,                \* token variables that are set
   created : BOOLEAN,                       \* incidentCreated
   started : BOOLEAN,                       \* effectStartConfirmed
   raw     : Delivery \cup {None},          \* the delivery retained in memory
   closed  : IncidentAuthority \cup {None}, \* the terminal readback
   claim   : StateId \cup {None},           \* the claim and start a state-only proof holds
   start   : StateId \cup {None},
   passed  : BOOLEAN]                       \* the run reported success

Fresh(pc) ==
  [pc |-> pc, target |-> FALSE, held |-> {}, created |-> FALSE, started |-> FALSE,
   raw |-> None, closed |-> None, claim |-> None, start |-> None, passed |-> FALSE]

Waiting == {"connect", "barrier", "claim", "proposals", "confirm", "begin", "confirm-start", "mint",
            "precheck", "hold", "delete", "after", "finalize-unknown", "settle", "finally"}

ChildState ==
  [pc    : Waiting \cup {"off", "ended"},
   code  : 0..1,                     \* the exit code
   file  : BOOLEAN,                  \* the result file exists
   claim : StateId \cup {None},
   start : StateId \cup {None},
   ev    : BrokerResult]             \* the evidence record, persisted when the child ends with code 0

Off == [pc |-> "off", code |-> 0, file |-> FALSE, claim |-> None, start |-> None, ev |-> NoResult]

Inbox == [latest : Delivery \cup {None}, capture : Delivery \cup {None}, handling : SUBSET Delivery]

EmptyInbox == [latest |-> None, capture |-> None, handling |-> {}]

Gate ==
  [ready     : SUBSET Contender,
   barrier   : {"none", "release", "abort"},
   proposals : BOOLEAN,
   effect    : StateId \cup {None},   \* the start id in the effect-ready file
   release   : BOOLEAN]

ClosedGate == [ready |-> {}, barrier |-> "none", proposals |-> FALSE, effect |-> None, release |-> FALSE]

\* Every variable is of its shape; remote evidence was written locally first, and the
\* key of a launch is sent at most one DELETE, whoever sends it.
TypeOK ==
  /\ run \in Runner
  /\ key \in {"absent", "present", "gone"}
  /\ deletes \in 0..1
  /\ tokens \subseteq Purpose \cup Contender
  /\ branch \in [head : {"before", "trigger"}, issued : 0..2]
  /\ row \in IncidentAuthority \cup {None}
  /\ receipt \in [Delivery -> {"none", "RESERVED", "ACCEPTED", "REJECTED"}]
  /\ files \subseteq Evidence /\ pushed \subseteq files
  /\ inbox \in Inbox
  /\ gate \in Gate
  /\ child \in [Contender -> ChildState]

provider == <<key, deletes, tokens, branch>>
evidence == <<files, pushed>>
others == <<inbox, gate, child>>

----------------------------------------------------------------------------
(* The runner.                                                              *)

At(pc) == run.pc = pc

Goto(pc) == run' = [run EXCEPT !.pc = pc]

Throws == Goto("catch")

\* A step that only reads: it goes on when what it requires is so, and any of its
\* reads may fail.
Checks(from, to, required) ==
  /\ At(from)
  /\ \/ required /\ Goto(to)
     \/ Throws
  /\ UNCHANGED <<script, provider, row, receipt, evidence, others>>

\* A token may be minted and its answer lost, or its scope refused by the runner.
Mints(from, to, p) ==
  /\ At(from)
  /\ \/ tokens' = tokens \cup {p} /\ Goto(to)
     \/ tokens' \in {tokens, tokens \cup {p}} /\ Throws
  /\ UNCHANGED <<script, key, deletes, branch, row, receipt, evidence, others>>

\* Revoke, then probe that the token is refused: it goes on only when both say so.
Revokes(from, to, p, required) ==
  /\ At(from)
  /\ \/ required /\ tokens' = tokens \ {p} /\ Goto(to)
     \/ tokens' \in {tokens, tokens \ {p}} /\ Throws
  /\ UNCHANGED <<script, key, deletes, branch, row, receipt, evidence, others>>

\* Write the files, commit, push.  Whatever fails, what was done stays done.
Publishes(from, to, fs) ==
  /\ At(from)
  /\ \/ files' = files \cup fs /\ pushed' = pushed \cup fs /\ Goto(to)
     \/ /\ files' \in {files \cup s : s \in SUBSET fs}
        /\ pushed' \in {pushed} \cup (IF fs \subseteq files' THEN {pushed \cup fs} ELSE {})
        /\ Throws
  /\ UNCHANGED <<script, provider, row, receipt, others>>

\* C1 calls.  The transaction may be lost before or after it commits, and an
\* affirmative answer may come for one that did not commit.
Stored(o) == IF Writes(o) THEN o.authority ELSE row

Calls(from, to, o, affirmative, after) ==
  /\ At(from)
  /\ row' \in {row, Stored(o)}
  /\ \/ o.decision = affirmative /\ run' = [after EXCEPT !.pc = to]
     \/ Throws
  /\ UNCHANGED <<script, provider, receipt, evidence, others>>

\* A call that must not be answered affirmatively.
CallsInVain(from, to, o, affirmative) ==
  /\ At(from)
  /\ row' \in {row, Stored(o)}
  /\ \/ o.decision # affirmative /\ row' = Stored(o) /\ Goto(to)
     \/ Throws
  /\ UNCHANGED <<script, provider, receipt, evidence, others>>

\* create-incident; incidentCreated is set once it is answered WON.
Creates(from, to) ==
  \E now \in U64, k \in KeyId, i \in Incident, ttl \in MinTtl..MaxTtl :
    LET a == build_incident_authority(i, Agent, Broker, k, ttl, now)
    IN  /\ At(from)
        /\ \/ /\ ~CreateDenied(Tenant, Agent, Broker, k, ttl, now)
              /\ row' = a
              /\ run' \in {[run EXCEPT !.pc = to, !.created = TRUE], [run EXCEPT !.pc = "catch"]}
           \/ Throws /\ UNCHANGED row
        /\ UNCHANGED <<script, provider, receipt, evidence, others>>

Reserves(from, to) == \E now \in U64 : Calls(from, to, reserve(row, Agent, now), "Won", run)

RowIs(status) == row # None /\ row.status = status

Spawns(from, to, state) ==
  /\ At(from)
  /\ child' = [c \in Contender |-> state]
  /\ gate' = ClosedGate
  /\ Goto(to)
  /\ UNCHANGED <<script, provider, row, receipt, evidence, inbox>>

Exited == \A c \in Contender : child[c].pc = "ended"

Passes(from) ==
  /\ At(from)
  /\ run' = [run EXCEPT !.pc = "ended", !.passed = TRUE]
  /\ UNCHANGED <<script, provider, row, receipt, evidence, others>>

Done == {"ended", "crashed"}

----------------------------------------------------------------------------
(* Phases that several scripts have.                                        *)

\* Create the run's deploy key and read it back.  The id is known once the create
\* was answered.
CreatesKey(from, to) ==
  /\ At(from)
  /\ \/ key' = "present" /\ run' = [run EXCEPT !.pc = to, !.target = TRUE]
     \/ key' = "present" /\ run' = [run EXCEPT !.pc = "catch", !.target = TRUE]
     \/ key' \in {key, "present"} /\ Throws
  /\ UNCHANGED <<script, deletes, tokens, branch, row, receipt, evidence, others>>

HeadUnmoved == branch.head = "before"

AtMost2(n) == IF n > 2 THEN 2 ELSE n

\* Push the one secret commit; a push that failed may have been applied.
Triggers(from, to) ==
  /\ At(from)
  /\ \/ /\ HeadUnmoved
        /\ \/ branch' = [head |-> "trigger", issued |-> AtMost2(branch.issued + 1)] /\ Goto(to)
           \/ branch' \in {[head |-> h, issued |-> AtMost2(branch.issued + 1)] : h \in {branch.head, "trigger"}} /\ Throws
     \/ Throws /\ UNCHANGED branch
  /\ UNCHANGED <<script, key, deletes, tokens, row, receipt, evidence, others>>

\* GitHub delivers the trigger, once it was pushed, or some other push.  A delivery
\* replaces the retained body at once and the capture file a little later; two
\* handlers may overlap.
Delivers(reserves) ==
  /\ run.pc \in {"await", "history", "raw"}
  /\ \/ \E d \in Delivery :
          /\ d = "trigger" => branch.head = "trigger"
          /\ inbox' = [inbox EXCEPT !.latest = d, !.handling = @ \cup {d}]
          /\ receipt' = IF reserves /\ receipt[d] = "none" THEN [receipt EXCEPT ![d] = "RESERVED"] ELSE receipt
     \/ \E d \in inbox.handling :
          inbox' = [inbox EXCEPT !.capture = d, !.handling = @ \ {d}] /\ UNCHANGED receipt
  /\ UNCHANGED <<script, run, provider, row, evidence, gate, child>>

\* Keep the receiver's latest body; the receiver is not read again.
RetainsRaw(from, to) ==
  /\ At(from)
  /\ \/ inbox.latest # None /\ run' = [run EXCEPT !.pc = to, !.raw = inbox.latest]
     \/ Throws
  /\ inbox' = EmptyInbox
  /\ UNCHANGED <<script, provider, row, receipt, evidence, gate, child>>

\* processPushWebhook with the runner's own two observations: a delivery without a
\* receipt is decided, and the observations fit the trigger only; an accepted one is
\* replayed; a reservation of somebody else is not resumed.
Processed(d) == IF receipt[d] # "none" THEN receipt[d] ELSE IF d = "trigger" THEN "ACCEPTED" ELSE "REJECTED"

Processes(from, to, selected) ==
  /\ At(from)
  /\ \/ /\ receipt' = [receipt EXCEPT ![run.raw] = Processed(run.raw)]
        /\ IF Processed(run.raw) = "ACCEPTED" /\ selected THEN Goto(to) ELSE Throws
     \/ Throws /\ UNCHANGED receipt
  /\ UNCHANGED <<script, provider, row, evidence, others>>

\* Mutant of Removes: a DELETE that was not answered is sent again.
RemovesRetrying(by) ==
  /\ tokens' \in {tokens, tokens \cup {by}}
  /\ \/ key = "present" /\ deletes' \in {deletes + 1, deletes + 2} /\ key' \in {"present", "gone"}
     \/ UNCHANGED <<deletes, key>>

\* Remove the fixture's key: exact GET, DELETE, revoke.  Failures are swallowed.
Removes(by) ==
  /\ tokens' \in {tokens, tokens \cup {by}}
  /\ \/ key = "present" /\ deletes' = deletes + 1 /\ key' \in {"present", "gone"}
     \/ UNCHANGED <<deletes, key>>

crash ==
  /\ run.pc \notin Done
  /\ Goto("crashed")
  /\ UNCHANGED <<script, provider, row, receipt, evidence, others>>

----------------------------------------------------------------------------
(* A contender: runBroker with barrier files.  A child that ends by itself  *)
(* has persisted its evidence and exits with 0; one that throws or is       *)
(* killed exits with 1.                                                     *)

ChildAt(c, pc) == child[c].pc = pc

Becomes(c, state) == child' = [child EXCEPT ![c] = state]

ChildGoto(c, pc) == Becomes(c, [child[c] EXCEPT !.pc = pc])

\* persist: what the runner reads is the evidence of children that exit with 0.
Ends(c, ev) == Becomes(c, [Off EXCEPT !.pc = "ended", !.file = TRUE, !.ev = ev])

\* The top-level catch writes a result file too.
ChildThrows(c) == Becomes(c, [Off EXCEPT !.pc = "ended", !.code = 1, !.file = TRUE])

waiting_runner == <<script, run, branch, receipt, evidence, inbox>>

connect(c) ==
  /\ ChildAt(c, "connect")
  /\ \/ ChildGoto(c, "barrier") /\ gate' = [gate EXCEPT !.ready = @ \cup {c}]
     \/ ChildThrows(c) /\ UNCHANGED gate
  /\ UNCHANGED <<waiting_runner, key, deletes, tokens, row>>

\* Mutant of Overdue: waitForFile has no deadline.
OverdueNever(there) == FALSE

\* waitForFile gives up only when the file is not there.
Overdue(there) == ~there

await_barrier(c) ==
  /\ ChildAt(c, "barrier")
  /\ \/ gate.barrier = "release" /\ ChildGoto(c, "claim")
     \/ gate.barrier = "abort" /\ Ends(c, [child[c].ev EXCEPT !.claim_outcome = "DUPLICATE_NONCE_ABORT"])
     \/ Overdue(gate.barrier # "none") /\ ChildThrows(c)
  /\ UNCHANGED <<waiting_runner, gate, key, deletes, tokens, row>>

\* The claim as proposed, lost or denied; a call that failed is recorded as an error.
Proposed(c, o) ==
  Becomes(c, [child[c] EXCEPT !.pc = "proposals", !.file = TRUE, !.claim = o.authority.effect_claim_id,
                              !.ev.claim_outcome = "CLAIM_PROPOSED", !.ev.claim = "Proposed",
                              !.ev.claim_state = "EFFECT_CLAIMED", !.ev.claim_proposal = TRUE])

Refused(ev, o) ==
  [ev EXCEPT !.claim = o.decision, !.claim_state = o.authority.status,
             !.claim_outcome = IF o.decision = "Lost" THEN "CLAIM_LOST" ELSE "CLAIM_DENIED"]

claim_effect(c) ==
  /\ ChildAt(c, "claim")
  /\ \E now \in U64 :
       LET o == claim_with_nonce(row, Broker, now, 0, c)
       IN  /\ row' \in {row, Stored(o)}
           /\ \/ o.decision = "Proposed" /\ Proposed(c, o)
              \/ o.decision # "Proposed" /\ Ends(c, Refused(child[c].ev, o))
              \/ Ends(c, child[c].ev)
  /\ UNCHANGED <<waiting_runner, gate, key, deletes, tokens>>

await_proposals(c) ==
  /\ ChildAt(c, "proposals")
  /\ \/ gate.proposals /\ ChildGoto(c, "confirm")
     \/ Overdue(gate.proposals) /\ ChildThrows(c)
  /\ UNCHANGED <<waiting_runner, gate, key, deletes, tokens, row>>

confirm_claim_call(c) ==
  /\ ChildAt(c, "confirm")
  /\ \/ /\ confirm_claim(row, Broker, child[c].claim)
        /\ Becomes(c, [child[c] EXCEPT !.pc = "begin", !.ev.ownership_confirmation = "CONFIRMED",
                                       !.ev.claim_outcome = "CLAIM_WON"])
     \/ /\ ~confirm_claim(row, Broker, child[c].claim)
        /\ Ends(c, [child[c].ev EXCEPT !.ownership_confirmation = "NOT_OWNER", !.claim_outcome = "CLAIM_LOST"])
     \/ Ends(c, child[c].ev)
  /\ UNCHANGED <<waiting_runner, gate, key, deletes, tokens, row>>

begin_effect(c) ==
  /\ ChildAt(c, "begin")
  /\ \E now \in U64 :
       LET o == begin_effect_with_nonce(row, Broker, child[c].claim, c, now)
       IN  /\ row' \in {row, Stored(o)}
           /\ \/ o.decision = "Won" /\ Becomes(c, [child[c] EXCEPT !.pc = "confirm-start",
                                                                   !.start = o.authority.effect_start_id])
              \/ Ends(c, child[c].ev)
  /\ UNCHANGED <<waiting_runner, gate, key, deletes, tokens>>

confirm_effect_start_call(c) ==
  /\ ChildAt(c, "confirm-start")
  /\ \/ confirm_effect_start(row, Broker, child[c].claim, child[c].start) /\ ChildGoto(c, "mint")
     \/ Ends(c, child[c].ev)
  /\ UNCHANGED <<waiting_runner, gate, key, deletes, tokens, row>>

mint(c) ==
  /\ ChildAt(c, "mint")
  /\ \/ tokens' = tokens \cup {c} /\ Becomes(c, [child[c] EXCEPT !.pc = "precheck", !.ev.token_minted = TRUE])
     \/ tokens' \in {tokens, tokens \cup {c}} /\ Ends(c, child[c].ev)
  /\ UNCHANGED <<waiting_runner, gate, key, deletes, row>>

\* Scope and target are read, then the effect-ready file is written.
precheck(c) ==
  /\ ChildAt(c, "precheck")
  /\ \/ key = "present" /\ ChildGoto(c, "hold") /\ gate' = [gate EXCEPT !.effect = child[c].start]
     \/ ChildGoto(c, "finally") /\ UNCHANGED gate
  /\ UNCHANGED <<waiting_runner, key, deletes, tokens, row>>

\* Mutant of Released: the child does not wait for the operator.
ReleasedAtOnce(g) == TRUE

ReleasedByOperator(g) == g.release

hold(c) ==
  /\ ChildAt(c, "hold")
  /\ \/ ReleasedByOperator(gate) /\ ChildGoto(c, "delete")
     \/ Overdue(gate.release) /\ ChildGoto(c, "finally")
  /\ UNCHANGED <<waiting_runner, gate, key, deletes, tokens, row>>

delete_key(c) ==
  /\ ChildAt(c, "delete")
  /\ deletes' = deletes + 1
  /\ \/ key' = "gone" /\ Becomes(c, [child[c] EXCEPT !.pc = "after", !.ev.delete = "204"])
     \/ /\ key' \in {key, "gone"}
        /\ \E answer \in {"error", "unknown"} : Becomes(c, [child[c] EXCEPT !.pc = "after", !.ev.delete = answer])
  /\ UNCHANGED <<waiting_runner, gate, tokens, row>>

\* The reads after the DELETE (seen: both show the key gone), then the token.  It
\* goes on with the token revoked and refused and a class it can settle.
after(c) ==
  /\ ChildAt(c, "after")
  /\ \E seen \in IF key = "gone" THEN BOOLEAN ELSE {FALSE} :
       LET s == [child[c] EXCEPT !.ev.target_absent = seen]
       IN  \/ /\ tokens' = tokens \ {c}
              /\ \/ s.ev.delete = "unknown" /\ Becomes(c, [s EXCEPT !.pc = "finalize-unknown"])
                 \/ s.ev.delete # "unknown" /\ seen /\ Becomes(c, [s EXCEPT !.pc = "settle"])
                 \/ s.ev.delete # "unknown" /\ ~seen /\ Ends(c, s.ev)
           \/ tokens' \in {tokens, tokens \ {c}} /\ Ends(c, s.ev)
  /\ UNCHANGED <<waiting_runner, gate, key, deletes, row>>

finalize_unknown(c) ==
  /\ ChildAt(c, "finalize-unknown")
  /\ row' \in {row, Stored(finalize_with_start(row, Broker, child[c].claim, child[c].start, "ATTEMPTED_OUTCOME_UNKNOWN"))}
  /\ ChildGoto(c, "settle") \/ Ends(c, child[c].ev)
  /\ UNCHANGED <<waiting_runner, gate, key, deletes, tokens>>

\* The independent verifier with a token of its own, then finalize or reconcile.
settle(c) ==
  /\ ChildAt(c, "settle")
  /\ \/ /\ key = "gone"
        /\ LET o == IF child[c].ev.delete = "unknown"
                    THEN reconcile_with_start(row, Broker, child[c].claim, child[c].start, "VERIFIED_ABSENT")
                    ELSE finalize_with_start(row, Broker, child[c].claim, child[c].start, "VERIFIED_ABSENT")
           IN  row' \in {row, Stored(o)}
        /\ Ends(c, [child[c].ev EXCEPT !.verified = TRUE]) \/ Ends(c, child[c].ev)
     \/ Ends(c, child[c].ev) /\ UNCHANGED row
  /\ UNCHANGED <<waiting_runner, gate, key, deletes, tokens>>

\* A failure with the token in hand: revoke it as well as one can.
finally(c) ==
  /\ ChildAt(c, "finally")
  /\ tokens' \in {tokens, tokens \ {c}}
  /\ Ends(c, child[c].ev)
  /\ UNCHANGED <<waiting_runner, gate, key, deletes, row>>

die(c) ==
  /\ child[c].pc \in Waiting
  /\ Becomes(c, [Off EXCEPT !.pc = "ended", !.code = 1, !.file = child[c].file])
  /\ UNCHANGED <<waiting_runner, gate, key, deletes, tokens, row>>

ContenderStep(c) ==
  \/ connect(c) \/ await_barrier(c) \/ claim_effect(c) \/ await_proposals(c) \/ confirm_claim_call(c)
  \/ begin_effect(c) \/ confirm_effect_start_call(c) \/ mint(c) \/ precheck(c) \/ hold(c)
  \/ delete_key(c) \/ after(c) \/ finalize_unknown(c) \/ settle(c) \/ finally(c)
=============================================================================
