---------------------------- MODULE E2ER3Live ----------------------------
(***************************************************************************)
(* scripts/c2-e2e-r3-live.ts: the full causal run.  A fresh key and policy *)
(* are published, one secret push triggers one real delivery, the delivery *)
(* becomes a C1 incident, two broker contenders race for it, and the       *)
(* winner's one DELETE is released by the operator; then policy retirement *)
(* and replays, and the evidence.  Operators carry the script's function   *)
(* names; a name with a phase in it is a stretch of main.                  *)
(***************************************************************************)
EXTENDS LiveRun

\* Mutant of NothingPublished: evidence of an earlier launch is not looked for.
NothingPublishedIgnored == TRUE

\* "already exists; refusing a second E2E run"
NothingPublished == files \cap {"POLICY", "MARKER", "FINAL", "OFFLINE", "RETIREMENT"} = {}

\* From here on the run's own key and tokens are followed; the receipts are in a
\* directory made for it.
r3_preflight ==
  /\ At("preflight")
  /\ \/ /\ NothingPublished /\ pushed = files
        /\ key' = "absent" /\ deletes' = 0 /\ tokens' = {}
        /\ inbox' = EmptyInbox /\ receipt' = [d \in Delivery |-> "none"]
        /\ Goto("ingress")
     \/ Throws /\ UNCHANGED <<key, deletes, tokens, inbox, receipt>>
  /\ UNCHANGED <<script, branch, row, evidence, gate, child>>

r3_ingressReachability == Checks("ingress", "app", TRUE)
r3_appReadiness == Checks("app", "t3n", TRUE) \/ Checks("app-again", "target-mint", TRUE)
r3_t3nReadiness == Checks("t3n", "setup-capability", TRUE)

\* The runner's mints and revocations, in the order of main.
r3_mintInstallationToken ==
  \/ Mints("setup-capability", "setup-refused", "setup")
  \/ Mints("source-capability", "verifier-capability", "source")
  \/ Mints("verifier-capability", "verifier-refused", "verifier")
  \/ Mints("target-mint", "target-create", "setup")
  \/ Mints("target-check-mint", "target-check", "verifier")
  \/ Mints("source-mint", "source-reads", "source")

r3_revokeAndRefuse ==
  \/ Revokes("setup-refused", "source-capability", "setup", TRUE)
  \/ Revokes("verifier-refused", "baseline", "verifier", TRUE)
  \/ Revokes("target-refused", "policy", "setup", TRUE)

\* The source token is revoked whatever the reads say.
r3_verifyBaseline == Revokes("baseline", "checkpoint", "source", HeadUnmoved)

r3_freezeLiveExecutionCheckpoint == Checks("checkpoint", "app-again", pushed = files)

r3_createTarget == CreatesKey("target-create", "target-refused")

\* writeJson and commitAndPush, which also requires local and remote heads to agree.
r3_commitAndPush ==
  \/ Publishes("policy", "readback", {"POLICY"})
  \/ Publishes("marker", "target-check-mint", {"MARKER"})
  \/ Publishes("retire", "replay", {"RETIREMENT"})

r3_remotePolicyReadback == Checks("readback", "marker", "POLICY" \in pushed)

r3_verifyTarget == Revokes("target-check", "trigger", "verifier", key = "present")

r3_triggerSecret == Triggers("trigger", "await")

r3_startE2EReceiver == Delivers(FALSE)

r3_awaitDelivery == Checks("await", "history", inbox.capture = "trigger")

r3_deliveryHistory == Checks("history", "raw", TRUE)

r3_raw == RetainsRaw("raw", "source-mint")

\* Not in a finally: a read that fails leaves the token.
r3_readContentDigest == Revokes("source-reads", "process", "source", branch.head = "trigger")

\* A decision of this run: a delivery that already had a receipt is refused.
r3_process == Processes("process", "create", receipt[run.raw] = "none")

\* incidentCreated is set once create-incident was answered WON.
r3_create == Creates("create", "active")

r3_readbacks ==
  \/ Checks("active", "reserve", RowIs("ACTIVE"))
  \/ Checks("reserved", "spawn", RowIs("RESERVED"))

r3_reserve == Reserves("reserve", "reserved")

----------------------------------------------------------------------------
(* The contenders.                                                          *)

r3_spawn == Spawns("spawn", "ready", [Off EXCEPT !.pc = "connect"])

\* Both ready, or the barrier file tells them to abort and the runner waits for both.
r3_ready ==
  /\ At("ready")
  /\ \/ gate.ready = Contender /\ gate' = [gate EXCEPT !.barrier = "release"] /\ Goto("results")
     \/ gate.ready # Contender /\ gate' = [gate EXCEPT !.barrier = "abort"] /\ Goto("aborting")
  /\ UNCHANGED <<script, provider, row, receipt, evidence, inbox, child>>

r3_aborting ==
  /\ At("aborting") /\ Exited
  /\ Throws
  /\ UNCHANGED <<script, provider, row, receipt, evidence, others>>

\* Two result files, then the marker that lets the contenders confirm.
r3_results ==
  /\ At("results")
  /\ \/ (\A c \in Contender : child[c].file) /\ gate' = [gate EXCEPT !.proposals = TRUE] /\ Goto("effect-ready")
     \/ Throws /\ UNCHANGED gate
  /\ UNCHANGED <<script, provider, row, receipt, evidence, inbox, child>>

\* The operator's own readback of the start the contender announced.
StartReadBack ==
  /\ RowIs("EFFECT_STARTED")
  /\ row.effect_attempts = 1
  /\ row.effect_start_id = gate.effect

r3_effect_ready ==
  /\ At("effect-ready")
  /\ \/ /\ gate.effect # None /\ StartReadBack
        /\ gate' = [gate EXCEPT !.release = TRUE]
        /\ run' = [run EXCEPT !.pc = "exits", !.started = TRUE]
     \/ Throws /\ UNCHANGED gate
  /\ UNCHANGED <<script, provider, row, receipt, evidence, inbox, child>>

Results == [c \in Contender |-> child[c].ev]

EffectExact(r) == r.delete = "204" /\ r.target_absent

\* Both exit with 0, one owner, C1 closed and the owner's effect exact.
r3_adjudicate ==
  /\ At("exits") /\ Exited
  /\ \/ /\ \A c \in Contender : child[c].code = 0
        /\ adjudicateBrokerResults(Results)
        /\ RowIs("CLOSED") /\ row.effect_attempts = 1 /\ row.final_result_classification = "VERIFIED_ABSENT"
        /\ \A c \in Owners(Results) : EffectExact(Results[c])
        /\ run' = [run EXCEPT !.pc = "retire", !.closed = row]
     \/ Throws
  /\ UNCHANGED <<script, provider, row, receipt, evidence, others>>

----------------------------------------------------------------------------
(* Replays, evidence, failure.                                              *)

\* No policies and poisoned observations: only an accepted receipt can answer.
r3_replay == Checks("replay", "reserve-again", receipt[run.raw] = "ACCEPTED")

r3_reserve_again ==
  /\ At("reserve-again")
  /\ \E now \in U64 : CallsInVain("reserve-again", "closed-replay", reserve(row, Agent, now), "Won")

\* A third broker child that expects the closed row's generation: it claims, and is
\* refused or dies.
ReplayResult(o) == Refused(NoResult, o)

r3_closed_replay ==
  /\ At("closed-replay")
  /\ \E now \in U64, c \in Contender :
       LET o == claim_with_nonce(row, Broker, now, row.effect_claim_version, c)
       IN  /\ row' \in {row, Stored(o)}
           /\ \/ /\ o.decision # "Proposed"
                 /\ adjudicateClosedReplayBrokerResult(run.closed, run.closed.deploy_key_id, ReplayResult(o))
                      = "SAFE_CLOSED_REPLAY_DENIED"
                 /\ Goto("terminal")
              \/ Throws
  /\ UNCHANGED <<script, provider, receipt, evidence, others>>

r3_terminal ==
  Checks("terminal", "offline", row # None /\ closedTerminalAuthorityUnchanged(run.closed, row))

\* The bundle is verified offline, written and pushed.
r3_final ==
  /\ At("offline")
  /\ Publishes("offline", "passed", {"OFFLINE", "FINAL"})

r3_passed == Passes("passed")

\* Mutant of FixtureOwned: the key is removed whatever became of the incident.
FixtureOwnedAlways == run.target

\* The key is the run's own to remove: no incident was made for it.
FixtureOwned == run.target /\ ~run.created /\ ~run.started

\* catch: close the receiver, remove the key if it is still a fixture.
r3_cleanupFreshTarget ==
  /\ At("catch")
  /\ IF FixtureOwned THEN Removes("cleanup") ELSE UNCHANGED <<tokens, key, deletes>>
  /\ Goto("ended")
  /\ UNCHANGED <<script, branch, row, receipt, evidence, others>>

R3 ==
  \/ r3_preflight \/ r3_ingressReachability \/ r3_appReadiness \/ r3_t3nReadiness
  \/ r3_mintInstallationToken \/ r3_revokeAndRefuse \/ r3_verifyBaseline \/ r3_freezeLiveExecutionCheckpoint
  \/ r3_createTarget \/ r3_commitAndPush \/ r3_remotePolicyReadback \/ r3_verifyTarget \/ r3_triggerSecret
  \/ r3_awaitDelivery \/ r3_deliveryHistory \/ r3_raw \/ r3_readContentDigest \/ r3_process
  \/ r3_create \/ r3_readbacks \/ r3_reserve
  \/ r3_spawn \/ r3_ready \/ r3_aborting \/ r3_results \/ r3_effect_ready \/ r3_adjudicate
  \/ r3_replay \/ r3_reserve_again \/ r3_closed_replay \/ r3_terminal \/ r3_final \/ r3_passed
  \/ r3_cleanupFreshTarget
=============================================================================
