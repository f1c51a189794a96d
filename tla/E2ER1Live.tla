---------------------------- MODULE E2ER1Live ----------------------------
(***************************************************************************)
(* scripts/c2-e2e-r1-live.ts, the predecessor of the R3 run.  Its receiver *)
(* reserves every delivery before it captures it, and main then hands the  *)
(* delivery to processPushWebhook without asking for the recovery of a     *)
(* reservation: the pipeline refuses it, so the run ends there.  What main *)
(* would do after that call (the contract, the contenders, the evidence)   *)
(* is E2ER3Live's and is not repeated.                                     *)
(***************************************************************************)
EXTENDS LiveRun

\* "already exists; refusing a second E2E run"
NoPreexistingR1Files == files \cap {"POLICY", "MARKER", "FINAL", "RETIREMENT"} = {}

r1_preflight ==
  /\ At("preflight")
  /\ \/ /\ NoPreexistingR1Files /\ pushed = files
        /\ key' = "absent" /\ deletes' = 0 /\ tokens' = {}
        /\ inbox' = EmptyInbox /\ receipt' = [d \in Delivery |-> "none"]
        /\ Goto("receiver")
     \/ Throws /\ UNCHANGED <<key, deletes, tokens, inbox, receipt>>
  /\ UNCHANGED <<script, branch, row, evidence, gate, child>>

\* The receiver of an earlier run is stopped first.
r1_stopExistingB0Receiver == Checks("receiver", "ingress", TRUE)
r1_ingressReachability == Checks("ingress", "app", TRUE)
r1_appReadiness == Checks("app", "t3n", TRUE) \/ Checks("app-again", "stage", TRUE)
r1_t3nReadiness == Checks("t3n", "setup-capability", TRUE)

r1_mintInstallationToken ==
  \/ Mints("setup-capability", "setup-refused", "setup")
  \/ Mints("source-capability", "verifier-capability", "source")
  \/ Mints("verifier-capability", "verifier-refused", "verifier")
  \/ Mints("target-mint", "target-create", "setup")
  \/ Mints("target-check-mint", "target-check", "verifier")
  \/ Mints("source-mint", "source-reads", "source")

r1_revokeAndRefuse ==
  \/ Revokes("setup-refused", "source-capability", "setup", TRUE)
  \/ Revokes("verifier-refused", "baseline", "verifier", TRUE)
  \/ Revokes("target-refused", "policy", "setup", TRUE)

\* The source token is revoked whatever the reads say.
r1_verifyBaseline == Revokes("baseline", "checkpoint", "source", HeadUnmoved)

r1_checkpoint == Checks("checkpoint", "app-again", pushed = files)

r1_generateKeyAndStage == Checks("stage", "target-mint", TRUE)

r1_createTarget == CreatesKey("target-create", "target-refused")

r1_commitAndPush ==
  Publishes("policy", "readback", {"POLICY"}) \/ Publishes("marker", "target-check-mint", {"MARKER"})

r1_remotePolicyReadback == Checks("readback", "marker", "POLICY" \in pushed)

r1_verifyTarget == Revokes("target-check", "trigger", "verifier", key = "present")

r1_triggerSecret == Triggers("trigger", "await")

\* The receiver keeps the body, reserves the delivery, then writes the capture.
r1_startE2EReceiver == Delivers(TRUE)

r1_awaitDelivery == Checks("await", "history", inbox.capture = "trigger")

r1_deliveryHistory == Checks("history", "raw", TRUE)

r1_raw == RetainsRaw("raw", "source-mint")

\* Not in a finally: a read that fails leaves the token.
r1_readContentDigest == Revokes("source-reads", "process", "source", branch.head = "trigger")

\* The receiver's own reservation is in the way.
r1_process == Processes("process", "resumed", TRUE)

\* No incident was ever made, so a known key is the run's own to remove.
r1_cleanupFreshTarget ==
  /\ At("catch")
  /\ IF run.target /\ ~run.created /\ ~run.started THEN Removes("cleanup") ELSE UNCHANGED <<tokens, key, deletes>>
  /\ Goto("ended")
  /\ UNCHANGED <<script, branch, row, receipt, evidence, others>>

R1 ==
  \/ r1_preflight \/ r1_stopExistingB0Receiver \/ r1_ingressReachability \/ r1_appReadiness \/ r1_t3nReadiness
  \/ r1_mintInstallationToken \/ r1_revokeAndRefuse \/ r1_verifyBaseline \/ r1_checkpoint
  \/ r1_generateKeyAndStage \/ r1_createTarget \/ r1_commitAndPush \/ r1_remotePolicyReadback \/ r1_verifyTarget
  \/ r1_triggerSecret \/ r1_awaitDelivery \/ r1_deliveryHistory \/ r1_raw \/ r1_readContentDigest
  \/ r1_process \/ r1_cleanupFreshTarget
=============================================================================
