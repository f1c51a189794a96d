------------------------------ MODULE LiveRuns ------------------------------
(***************************************************************************)
(* The live-run scripts on one world: the causal runs (R3, its predecessor *)
(* R1, and B1 without the contract), the redelivery replay R2B on what an  *)
(* R3 run left behind, and the contract proofs R4C, R4D, R4D-R1 and R4E.   *)
(* A script may be killed at any step and launched again on what it left.  *)
(***************************************************************************)
EXTENDS E2ER3Live, E2ER1Live, B1Live, R2BReplayLive, C1ProofLive

Script == {"R3", "R1", "B1", "R2B", "R4C", "R4D", "R4DR1", "R4E"}

\* R4E is given a prepared target; every other script makes its own or needs none.
Init ==
  /\ script \in Script \ {"R2B"}
  /\ run = Fresh("preflight")
  /\ key = IF script = "R4E" THEN "present" ELSE "absent"
  /\ deletes = 0 /\ tokens = {}
  /\ branch = [head |-> "before", issued |-> 0]
  /\ row = None
  /\ receipt = [d \in Delivery |-> "none"]
  /\ files = {} /\ pushed = {}
  /\ inbox = EmptyInbox /\ gate = ClosedGate
  /\ child = [c \in Contender |-> Off]

Quiet == run.pc \in Done /\ \A c \in Contender : child[c].pc \in {"off", "ended"}

\* The operator starts the script again, or the replay after a causal run, when no
\* contender of the last launch is left.
relaunch ==
  /\ Quiet
  /\ script' \in (IF script = "R3" THEN {"R3", "R2B"} ELSE {script})
  /\ run' = Fresh("preflight")
  /\ UNCHANGED <<provider, row, receipt, evidence, others>>

RunnerStep ==
  \/ script = "R3" /\ R3
  \/ script = "R1" /\ R1
  \/ script = "B1" /\ B1
  \/ script = "R2B" /\ R2B
  \/ script = "R4C" /\ R4C
  \/ script = "R4D" /\ R4D
  \/ script = "R4DR1" /\ R4DR1
  \/ script = "R4E" /\ R4E

Receives ==
  \/ script = "R3" /\ r3_startE2EReceiver
  \/ script = "R1" /\ r1_startE2EReceiver
  \/ script = "B1" /\ b1_startC2LiveWebhookServer
  \/ script = "R2B" /\ r2b_createR2BReplayWebhookServer

ChildStep(c) ==
  \/ script \in {"R3", "R2B"} /\ ContenderStep(c)
  \/ script = "R4C" /\ claim_contender(c)
  \/ script = "R4DR1" /\ start_contender(c)

Next ==
  \/ RunnerStep
  \/ Receives
  \/ \E c \in Contender : ChildStep(c) \/ die(c)
  \/ crash
  \/ relaunch

Spec == Init /\ [][Next]_vars

\* A process that runs goes on; deliveries, deaths and launches may never come.
FairSpec == Spec /\ WF_vars(RunnerStep) /\ \A c \in Contender : WF_vars(ChildStep(c))

----------------------------------------------------------------------------

\* A causal run's final evidence is only written when it is true: one push, one
\* decided delivery, one DELETE, the key gone, the incident closed on one effect, no
\* token left, and the policy published before and retired after.
FinalEvidence ==
  /\ key = "gone" /\ deletes = 1 /\ tokens = {}
  /\ RowIs("CLOSED") /\ row.effect_attempts = 1
  /\ {"POLICY", "MARKER", "RETIREMENT"} \subseteq pushed
  /\ branch = [head |-> "trigger", issued |-> 1]
  /\ receipt["trigger"] = "ACCEPTED"

\* What each of the other scripts reports when it passes.
Reported ==
  /\ script = "B1" => /\ key = "present" /\ deletes = 0 /\ tokens = {}
                      /\ {"POLICY", "MARKER", "FINAL"} \subseteq pushed
                      /\ branch = [head |-> "trigger", issued |-> 1]
  /\ script = "R2B" => RowIs("CLOSED") /\ receipt["trigger"] = "ACCEPTED" /\ key = "gone" /\ deletes = 1
  /\ script = "R4C" => RowIs("EFFECT_CLAIMED") /\ row.effect_claim_id = run.claim /\ row.effect_attempts = 0
  /\ script \in {"R4D", "R4DR1"} =>
       /\ RowIs("EFFECT_STARTED") /\ row.effect_claim_id = run.claim /\ row.effect_start_id = run.start
       /\ deletes = 0
  /\ script = "R4E" => RowIs("CLOSED") /\ row.effect_start_id = run.start /\ key = "gone" /\ deletes = 1

\* Evidence that says a run succeeded, on disk or in its output, describes what really
\* happened at GitHub, in C1, in the receipts and on the branch, whatever was retried,
\* killed, lost or raced before (the requireCondition chains before the last writeJson).
PassIsTrue ==
  /\ script \in {"R3", "R2B"} /\ "FINAL" \in files => FinalEvidence
  /\ run.passed => Reported

\* When a DELETE is about to be sent on C1's authority, by a contender or by R4E, the
\* start it acts under is the one C1 holds, the operator has seen that very start and
\* released it, no other contender holds a token, the policy and the marker were public
\* before, and the key has not been deleted (the barriers of R3:737-746, R4E's readback).
AuthorisedDelete ==
  /\ \A c \in Contender :
       child[c].pc = "delete" =>
         /\ gate.release /\ gate.effect = child[c].start
         /\ row.status = "EFFECT_STARTED" /\ row.effect_start_id = child[c].start
         /\ tokens \cap Contender = {c}
         /\ {"POLICY", "MARKER"} \subseteq pushed
         /\ key = "present" /\ deletes = 0
  /\ script = "R4E" /\ run.pc = "delete" =>
         /\ RowIs("EFFECT_STARTED") /\ row.effect_start_id = run.start
         /\ key = "present" /\ deletes = 0

\* However often the causal runs are killed and launched again, the sandbox branch sees
\* at most one secret push (the "already exists; refusing a second run" checks).
OneTrigger == branch.issued <= 1

\* No step of the R2B replay changes the incident, the receipts, the key, the tokens, the
\* branch or the evidence on disk, although it reserves and claims for real.
ReplayChangesNothing ==
  [][script = "R2B" /\ run' # run => UNCHANGED <<row, receipt, key, deletes, tokens, branch, files, pushed>>]_vars

\* A launch comes to an end with its contenders, whoever dies and whatever is lost: every
\* barrier has a deadline or a writer.  R4C is left out, its claim contenders wait for
\* the barrier for ever (c1-r6b-claim-contender.ts:25).
RunsEnd == (script # "R4C" /\ ~Quiet) ~> Quiet
----------------------------------------------------------------------------
(* The inductive strengthening: what a runner has done when it is at a      *)
(* step, what a contender holds, and which of it a later launch keeps.      *)

Causal == {"R3", "R1", "B1"}

\* The way of a causal run, in its order.
Preparing == {"receiver", "ingress", "app", "t3n", "setup-capability", "setup-refused",
              "source-capability", "verifier-capability", "verifier-refused", "baseline",
              "checkpoint", "app-again", "stage", "setup-mint", "target-mint", "target-create",
              "target-refused", "policy"}
Announced == {"readback", "marker"}
Marked == {"target-check-mint", "target-check", "trigger"}
Triggered == {"await", "history", "raw", "source-mint", "source-reads", "source-refused",
              "derive", "final", "completed", "process", "resumed"}
Opening == {"create"}
Incipient == {"active", "reserve", "reserved", "spawn"}
Racing == {"ready", "aborting", "results", "effect-ready", "exits"}
Retired == {"replay", "reserve-again", "closed-replay", "terminal", "offline", "passed"}
Closing == {"retire"} \cup Retired

Unopened == Preparing \cup Announced \cup Marked \cup Triggered \cup Opening
Opened == Incipient \cup Racing \cup Closing
Failing == {"catch", "catch-source", "catch-setup"}

\* The runner's own tokens that may be live at a step of that way.
TokensHeld ==
  /\ "setup" \in tokens => run.pc \in {"setup-refused", "target-create", "target-refused"}
  /\ "source" \in tokens =>
       \/ run.pc \in {"verifier-capability", "verifier-refused", "source-reads", "source-refused"}
       \/ run.pc = "baseline" /\ script # "B1"
  /\ "verifier" \in tokens =>
       \/ run.pc = "verifier-refused"
       \/ run.pc = "target-check" /\ script # "B1"
  /\ "cleanup" \notin tokens

\* What the run has published, pushed and removed so far.
Published ==
  /\ run.pc \in (Unopened \cup Opened) \ Preparing => "POLICY" \in pushed
  /\ run.pc \in (Unopened \cup Opened) \ (Preparing \cup Announced) => "MARKER" \in pushed
  /\ run.pc \in Retired => "RETIREMENT" \in pushed
  /\ run.pc \in Preparing \cup Announced \cup Marked => branch.issued = 0
  /\ run.pc \in Triggered \cup Opening \cup Opened => branch = [head |-> "trigger", issued |-> 1]
  /\ branch.issued # 0 \/ row # None => "POLICY" \in files

CausalOK ==
  /\ run.pc \in {"preflight"} \cup Unopened \cup Opened \cup Failing \cup Done
  /\ Published
  /\ run.pc \in Unopened \cup Opened => TokensHeld
  /\ run.pc \in Unopened \cup Incipient => deletes = 0
  /\ run.pc \in Failing /\ (run.target \/ run.held # {}) /\ ~run.created => deletes = 0
  /\ run.pc = "preflight" => run = Fresh("preflight")
  /\ run.created \/ row # None => script = "R3"
  /\ run.pc \in Unopened => row = None /\ ~run.created
  /\ run.pc \in Opened => script = "R3" /\ row # None /\ run.created
  /\ script # "B1" /\ run.pc \in {"source-mint", "source-reads", "process"} => run.raw \in Delivery
  /\ script = "R3" /\ run.pc \in Opening \cup Opened => receipt["trigger"] = "ACCEPTED"

\* The rest of a run without C1: the key that was verified stays.
RemainingOK ==
  /\ run.pc \in {"trigger"} \cup Triggered => key = "present"
  /\ run.pc = "completed" => "FINAL" \in pushed

----------------------------------------------------------------------------

Running(c) == child[c].pc \in Waiting

NobodyRuns == \A c \in Contender : ~Running(c)

\* The contender whose start C1 holds.
IsOwner(c) == row # None /\ row.effect_start_id # None /\ row.effect_start_id.nonce = c

Armed == {"mint", "precheck", "hold", "delete"}
Sent == {"after", "finalize-unknown", "settle"}

ContenderOK(c) ==
  LET s == child[c]
  IN  /\ row # None /\ run.created
      /\ run.pc \in Racing \cup Failing \cup Done
      /\ {"POLICY", "MARKER"} \subseteq pushed
      /\ s.pc = "confirm-start" => s.start # None /\ s.start.nonce = c
      /\ s.pc \in Armed \cup Sent \cup {"finally"} => IsOwner(c) /\ row.effect_start_id = s.start
      /\ s.pc \in Armed => row.status = "EFFECT_STARTED" /\ deletes = 0
      /\ s.pc \in {"precheck", "hold", "delete"} => c \in tokens
      /\ s.pc \in {"hold", "delete"} => gate.effect = s.start /\ key = "present"
      /\ s.pc = "delete" => gate.release
      /\ s.pc \in Sent => deletes = 1
      /\ s.pc \in {"finalize-unknown", "settle"} => c \notin tokens
      /\ deletes # 0 => row.effect_start_id # None /\ (IsOwner(c) => s.pc \in Sent)

RaceOK ==
  /\ \A c \in Contender : Running(c) => ContenderOK(c)
  /\ \A c \in Contender : c \in tokens => IsOwner(c) /\ row.status # "CLOSED"
  /\ run.pc \in Closing => NobodyRuns /\ RowIs("CLOSED")
  /\ "FINAL" \in files => NobodyRuns /\ run.pc \in {"passed", "catch", "preflight"} \cup Done

\* What R3 leaves and R2B replays.
ClosedOK ==
  /\ RowIs("CLOSED") => key = "gone" /\ deletes = 1
  /\ "FINAL" \in files => FinalEvidence

ReplayOK ==
  /\ NobodyRuns
  /\ run.pc \in {"configuration", "listen", "tunnel", "original", "redeliver", "await", "history",
                 "replay", "incident", "reserve", "broker", "terminal", "write"} => receipt["trigger"] = "ACCEPTED"
  /\ run.pc \in {"reserve", "broker", "terminal", "write"} => RowIs("CLOSED")

----------------------------------------------------------------------------

\* The contract proofs: the incident of the launch exists once it was created.
ProofOK ==
  /\ run.pc \notin {"preflight", "mint", "target", "readiness", "create", "catch"} \cup Done => row # None
  /\ script # "R4E" => deletes = 0

\* Contenders run only while the runner waits for them, or has failed.
ClaimRaceOK ==
  /\ \A c \in Contender :
       Running(c) => /\ child[c].pc \in {"connect", "barrier", "claim", "begin"}
                     /\ row # None /\ ~run.passed
                     /\ run.pc \in {"ready", "results", "catch"} \cup Done
  /\ script = "R4C" /\ run.pc = "evidence" => Holds("EFFECT_CLAIMED", 0)
  /\ script = "R4DR1" /\ run.pc = "evidence" => Holds("EFFECT_STARTED", 1)

StartOK ==
  /\ NobodyRuns
  /\ run.pc = "evidence" => Holds("EFFECT_STARTED", 1)

ProviderOK ==
  /\ NobodyRuns
  /\ run.pc \in {"mint", "target", "create", "reserve", "claim", "confirm", "recheck", "begin",
                 "confirm-start", "pre-delete", "delete"} => deletes = 0
  /\ run.pc \in {"create", "reserve", "claim", "confirm", "recheck", "begin", "confirm-start",
                 "pre-delete", "delete"} => key = "present"
  /\ run.pc = "delete" => StartCommitted
  /\ run.pc \in {"after", "finalize", "closed", "barriers", "terminal", "evidence"} => deletes = 1
  /\ run.pc \in {"finalize", "closed", "barriers", "terminal", "evidence"} => key = "gone"
  /\ run.pc = "evidence" => Holds("CLOSED", 1)

IInv ==
  /\ script \in Script
  /\ TypeOK
  /\ row # None => valid_shape(row)
  /\ OneTrigger
  /\ receipt["other"] # "ACCEPTED"
  /\ run.passed => run.pc = "ended" /\ Reported
  /\ script \in Causal => CausalOK
  /\ script = "B1" => RemainingOK
  /\ script = "R3" => RaceOK
  /\ script \in {"R1", "B1"} => NobodyRuns /\ tokens \subseteq Purpose
  /\ script \in {"R3", "R2B"} => ClosedOK
  /\ script = "R2B" => ReplayOK
  /\ script \in {"R4C", "R4D", "R4DR1", "R4E"} => ProofOK
  /\ script \in {"R4C", "R4DR1"} => ClaimRaceOK
  /\ script = "R4D" => StartOK
  /\ script = "R4E" => ProviderOK
=============================================================================
