------------------------------- MODULE B1Live -------------------------------
(***************************************************************************)
(* scripts/c2-b1-live.ts: the causal run without C1.  A fresh key and      *)
(* policy are published, one secret push triggers one real delivery to the *)
(* B0 receiver, immutable reads prove the transition, and the evidence     *)
(* says that the compromised key waits for its remediation.  A run that    *)
(* fails removes the key instead.                                          *)
(***************************************************************************)
EXTENDS LiveRun

assertNoPreexistingB1Files == files \cap {"POLICY", "MARKER", "FINAL"} = {}

\* From here on the run's own key and tokens are followed.
b1_preflight ==
  /\ At("preflight")
  /\ \/ /\ assertNoPreexistingB1Files /\ pushed = files
        /\ key' = "absent" /\ deletes' = 0 /\ tokens' = {}
        /\ inbox' = EmptyInbox
        /\ Goto("ingress")
     \/ Throws /\ UNCHANGED <<key, deletes, tokens, inbox>>
  /\ UNCHANGED <<script, branch, row, receipt, evidence, gate, child>>

b1_verifyIngress == Checks("ingress", "app", TRUE)
b1_appReadback == Checks("app", "baseline", TRUE)
b1_verifyBaseline == Checks("baseline", "stage", HeadUnmoved)
b1_generateKeyAndStage == Checks("stage", "setup-mint", TRUE)

\* A token of the wrong scope is refused and not kept.
Keeps(from, to, p) ==
  /\ At(from)
  /\ \/ tokens' = tokens \cup {p} /\ run' = [run EXCEPT !.pc = to, !.held = @ \cup {p}]
     \/ tokens' \in {tokens, tokens \cup {p}} /\ Throws
  /\ UNCHANGED <<script, key, deletes, branch, row, receipt, evidence, others>>

b1_mintInstallationToken ==
  Keeps("setup-mint", "target-create", "setup") \/ Keeps("source-mint", "source-reads", "source")

b1_createAndVerifyTarget == CreatesKey("target-create", "target-refused")

\* Revoke and probe; the variable is cleared only when both said so, and a token
\* that is no longer accepted cannot be revoked again.
Surrenders(from, to, p) ==
  /\ At(from)
  /\ \/ p \in tokens /\ tokens' = tokens \ {p} /\ run' = [run EXCEPT !.pc = to, !.held = @ \ {p}]
     \/ tokens' \in {tokens, tokens \ {p}} /\ Goto(IF from \in {"catch-source", "catch-setup"} THEN "ended" ELSE "catch")
  /\ UNCHANGED <<script, key, deletes, branch, row, receipt, evidence, others>>

b1_revokeAndProbe ==
  \/ Surrenders("target-refused", "policy", "setup")
  \/ Surrenders("source-refused", "derive", "source")
  \/ Surrenders("catch-source", "catch", "source")
  \/ Surrenders("catch-setup", "catch", "setup")

b1_commitAndPush ==
  \/ Publishes("policy", "readback", {"POLICY"})
  \/ Publishes("marker", "target-check", {"MARKER"})
  \/ Publishes("final", "completed", {"FINAL"})

b1_remotePolicyReadback == Checks("readback", "marker", "POLICY" \in pushed)
b1_verifyTargetWithPat == Checks("target-check", "trigger", key = "present")
b1_secretTrigger == Triggers("trigger", "await")

\* The B0 receiver runs beside the script: it reserves, captures, and decides nothing.
b1_startC2LiveWebhookServer == Delivers(TRUE)

\* The first capture that is new must be the trigger's.
b1_awaitRealDelivery == Checks("await", "history", inbox.capture = "trigger")

\* GitHub's own record corroborates when it is there, and may be missing.
b1_deliveryHistory == Checks("history", "source-mint", TRUE)

b1_readContentDigest == Checks("source-reads", "source-refused", branch.head = "trigger")

\* The transition, the create request and the evidence, verified offline.
b1_derive == Checks("derive", "final", branch.head = "trigger")

b1_completed == Passes("completed")

\* A token of its own, one DELETE, and no retry; a failure is written down only.
b1_emergencyCleanup == Removes("cleanup")

\* catch: tokens that are held are surrendered first; one that cannot be skips the rest.
b1_catch ==
  /\ At("catch")
  /\ \/ /\ \/ "source" \in run.held /\ Goto("catch-source")
           \/ run.held = {"setup"} /\ Goto("catch-setup")
           \/ run.held = {} /\ ~run.target /\ Goto("ended")
        /\ UNCHANGED <<tokens, key, deletes, files>>
     \/ /\ "source" \notin run.held /\ run.held # {"setup"} /\ (run.held # {} \/ run.target)
        /\ b1_emergencyCleanup /\ Goto("ended") /\ files' \in {files, files \cup {"FAILURE"}}
  /\ UNCHANGED <<script, branch, row, receipt, pushed, others>>

B1 ==
  \/ b1_preflight \/ b1_verifyIngress \/ b1_appReadback \/ b1_verifyBaseline \/ b1_generateKeyAndStage
  \/ b1_mintInstallationToken \/ b1_createAndVerifyTarget \/ b1_revokeAndProbe
  \/ b1_commitAndPush \/ b1_remotePolicyReadback \/ b1_verifyTargetWithPat \/ b1_secretTrigger
  \/ b1_awaitRealDelivery \/ b1_deliveryHistory \/ b1_readContentDigest \/ b1_derive \/ b1_completed
  \/ b1_catch
=============================================================================
