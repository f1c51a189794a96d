---------------------------- MODULE C1ProofLive ----------------------------
(***************************************************************************)
(* The proofs of contract 2.0.4 on the live network, one incident each:    *)
(* a claim race of two processes (c1-r6b-r4c), one effect start (r4d), a    *)
(* start race of two processes (r4d-r1), and one provider effect (r4e).     *)
(* A script calls the contract as operator, agent and broker itself; its    *)
(* contenders hold no provider credentials.  Every launch draws a fresh     *)
(* incident id, so what an earlier launch left behind is another incident's. *)
(* An abort of the barrier needs two equal 128-bit nonces and is left out.  *)
(***************************************************************************)
EXTENDS LiveRun

\* The incident, target and children of this launch.
Launches(to, target) ==
  /\ At("preflight")
  /\ row' = None /\ deletes' = 0 /\ tokens' = {}
  /\ child' = [c \in Contender |-> Off]
  /\ \/ target /\ Goto(to)
     \/ Throws
  /\ UNCHANGED <<script, key, branch, receipt, evidence, inbox, gate>>

Claims(from, to) ==
  \E now \in U64, n \in Nonce :
    LET o == claim_with_nonce(row, Broker, now, 0, n)
    IN  Calls(from, to, o, "Proposed", [run EXCEPT !.claim = o.authority.effect_claim_id])

ConfirmsClaim(from, to) == Checks(from, to, confirm_claim(row, Broker, run.claim))

Begins(from, to) ==
  \E now \in U64, n \in Nonce :
    LET o == begin_effect_with_nonce(row, Broker, run.claim, n, now)
    IN  Calls(from, to, o, "Won", [run EXCEPT !.start = o.authority.effect_start_id])

ConfirmsStart(from, to) == Checks(from, to, confirm_effect_start(row, Broker, run.claim, run.start))

\* get-incident shows the claim and the start the script holds.
Holds(status, attempts) ==
  /\ RowIs(status) /\ row.effect_attempts = attempts
  /\ row.effect_claim_id = run.claim /\ row.effect_start_id = run.start

\* safeInvoke, safeAttempt: a call that fails counts as refused.
Attempts(from, to, o, affirmative) ==
  /\ At(from)
  /\ row' \in {row, Stored(o)}
  /\ \/ Goto(to)
     \/ o.decision = affirmative /\ Throws
  /\ UNCHANGED <<script, provider, receipt, evidence, others>>

Stops ==
  /\ At("catch")
  /\ Goto("ended")
  /\ UNCHANGED <<script, provider, row, receipt, evidence, others>>

----------------------------------------------------------------------------
(* c1-r6b-r4c-live.ts with c1-r6b-claim-contender.ts: who owns the claim.   *)

\* Ready, then the barrier file, however long it takes and whatever it says.
claim_contender(c) ==
  /\ \/ /\ ChildAt(c, "connect")
        /\ \/ ChildGoto(c, "barrier") /\ gate' = [gate EXCEPT !.ready = @ \cup {c}]
           \/ ChildThrows(c) /\ UNCHANGED gate
        /\ UNCHANGED row
     \/ /\ ChildAt(c, "barrier") /\ gate.barrier # "none"
        /\ ChildGoto(c, "claim")
        /\ UNCHANGED <<gate, row>>
     \/ /\ ChildAt(c, "claim")
        /\ \E now \in U64 : row' \in {row, Stored(claim_with_nonce(row, Broker, now, 0, c))}
        /\ Ends(c, NoResult)
        /\ UNCHANGED gate
  /\ UNCHANGED <<waiting_runner, key, deletes, tokens>>

ContenderClaim(c) == [version |-> 1, nonce |-> c]

ClaimOwners == {c \in Contender : confirm_claim(row, Broker, ContenderClaim(c))}

r4c_incident ==
  Launches("create", TRUE) \/ Creates("create", "reserve") \/ Reserves("reserve", "spawn")

r4c_contenders == Spawns("spawn", "ready", [Off EXCEPT !.pc = "connect"])

\* waitFor, then the release.
Releases(from, to) ==
  /\ At(from)
  /\ \/ gate.ready = Contender /\ gate' = [gate EXCEPT !.barrier = "release"] /\ Goto(to)
     \/ Overdue(gate.ready = Contender) /\ Throws /\ UNCHANGED gate
  /\ UNCHANGED <<script, provider, row, receipt, evidence, inbox, child>>

r4c_release == Releases("ready", "results")

\* Result files of processes that exited with 0.
Collects(from, to) ==
  /\ At(from)
  /\ IF Exited /\ \A c \in Contender : child[c].code = 0 THEN Goto(to)
     ELSE (\E c \in Contender : Overdue(child[c].file) \/ child[c].code # 0) /\ Throws
  /\ UNCHANGED <<script, provider, row, receipt, evidence, others>>

r4c_results == Collects("results", "confirm")

OneOwner(owners) == Cardinality(owners) = 1

r4c_confirm ==
  /\ At("confirm")
  /\ \/ /\ OneOwner(ClaimOwners)
        /\ \E c \in ClaimOwners : run' = [run EXCEPT !.pc = "stable", !.claim = ContenderClaim(c)]
     \/ Throws
  /\ UNCHANGED <<script, provider, row, receipt, evidence, others>>

\* Asked again, then one more claim of generation 0, then get-incident.
r4c_stable ==
  \/ ConfirmsClaim("stable", "stale")
  \/ \E now \in U64, n \in Nonce :
       LET o == claim_with_nonce(row, Broker, now, 0, n)
       IN  At("stale") /\ o.decision = "Lost" /\ CallsInVain("stale", "final", o, "Proposed")
  \/ /\ At("stale") /\ Throws
     /\ UNCHANGED <<script, provider, row, receipt, evidence, others>>
  \/ Checks("final", "evidence", Holds("EFFECT_CLAIMED", 0) /\ row.effect_claim_version = 1)

r4c_evidence == Passes("evidence")

R4C == r4c_incident \/ r4c_contenders \/ r4c_release \/ r4c_results \/ r4c_confirm \/ r4c_stable
       \/ r4c_evidence \/ Stops

----------------------------------------------------------------------------
(* c1-r6b-r4d-live.ts: one start, and everything that must not start.       *)

r4d_incident ==
  \/ Launches("create", TRUE) \/ Creates("create", "reserve") \/ Reserves("reserve", "claim")
  \/ Claims("claim", "confirm") \/ ConfirmsClaim("confirm", "pre-begin")
  \/ Checks("pre-begin", "negative-agent", Holds("EFFECT_CLAIMED", 0))

\* The agent with the right claim, the broker with another.
r4d_negative ==
  \/ \E now \in U64, n \in Nonce :
       Attempts("negative-agent", "negative-broker", begin_effect_with_nonce(row, Agent, run.claim, n, now), "Won")
  \/ \E now \in U64, n \in Nonce, id \in StateId \ {run.claim} :
       Attempts("negative-broker", "after-negative", begin_effect_with_nonce(row, Broker, id, n, now), "Won")
  \/ Checks("after-negative", "begin", Holds("EFFECT_CLAIMED", 0))

r4d_begin ==
  \/ Begins("begin", "post-begin")
  \/ Checks("post-begin", "confirm-start", Holds("EFFECT_STARTED", 1))
  \/ ConfirmsStart("confirm-start", "wrong-confirm")

\* A wrong identity is not confirmed, the right one still is.
r4d_confirmations ==
  \/ Checks("wrong-confirm", "stable",
       /\ \A id \in StateId \ {run.claim} : ~confirm_effect_start(row, Broker, id, run.start)
       /\ \A id \in StateId \ {run.start} : ~confirm_effect_start(row, Broker, run.claim, id))
  \/ ConfirmsStart("stable", "duplicate")

\* The stale claim is looked at for WON, which claim-effect never answers; the
\* readback after it is what notices a claim.
r4d_rejections ==
  \/ \E now \in U64, n \in Nonce :
       Attempts("duplicate", "release", begin_effect_with_nonce(row, Broker, run.claim, n, now), "Won")
  \/ \E now \in U64 : Attempts("release", "stale", release_not_attempted(row, Broker, run.claim, now), "Won")
  \/ \E now \in U64, n \in Nonce : Attempts("stale", "final", claim_with_nonce(row, Broker, now, 0, n), "Won")

r4d_final ==
  \/ Checks("final", "independent", Holds("EFFECT_STARTED", 1))
  \/ Checks("independent", "evidence", Holds("EFFECT_STARTED", 1))
  \/ Passes("evidence")

R4D == r4d_incident \/ r4d_negative \/ r4d_begin \/ r4d_confirmations \/ r4d_rejections \/ r4d_final \/ Stops

----------------------------------------------------------------------------
(* c1-r6b-r4d-r1-live.ts with c1-r6b-r4d-r1-start-contender.ts: who owns    *)
(* the start.                                                               *)

\* Ready, the barrier within its deadline, one begin-effect; the result file says
\* what was answered, and the process that could not ask exits with 1.
start_contender(c) ==
  /\ \/ /\ ChildAt(c, "connect")
        /\ \/ ChildGoto(c, "barrier") /\ gate' = [gate EXCEPT !.ready = @ \cup {c}]
           \/ ChildThrows(c) /\ UNCHANGED gate
        /\ UNCHANGED row
     \/ /\ ChildAt(c, "barrier")
        /\ \/ gate.barrier = "release" /\ ChildGoto(c, "begin")
           \/ Overdue(gate.barrier = "release") /\ ChildThrows(c)
        /\ UNCHANGED <<gate, row>>
     \/ /\ ChildAt(c, "begin")
        /\ \E now \in U64 : row' \in {row, Stored(begin_effect_with_nonce(row, Broker, child[c].claim, c, now))}
        /\ Ends(c, NoResult)
        /\ UNCHANGED gate
  /\ UNCHANGED <<waiting_runner, key, deletes, tokens>>

readGrant == Launches("readiness", TRUE)

\* A harmless get-incident must be denied: quota and credit are there.
captureReadinessProbe == Checks("readiness", "create", TRUE)

r4dr1_incident ==
  \/ Creates("create", "active") \/ Checks("active", "reserve", RowIs("ACTIVE"))
  \/ Reserves("reserve", "reserved") \/ Checks("reserved", "claim", RowIs("RESERVED"))

r4dr1_claim ==
  \/ Claims("claim", "confirm") \/ ConfirmsClaim("confirm", "claim-read")
  \/ Checks("claim-read", "spawn", Holds("EFFECT_CLAIMED", 0))

r4dr1_contenders ==
  \/ Spawns("spawn", "ready", [Off EXCEPT !.pc = "connect", !.claim = run.claim])
  \/ Releases("ready", "results")
  \/ Collects("results", "confirm-start")

\* A start identity is the claim's generation and the contender's nonce.
ContenderStart(c) == [version |-> 1, nonce |-> c]

StartOwners == {c \in Contender : confirm_effect_start(row, Broker, run.claim, ContenderStart(c))}

r4dr1_confirm ==
  \/ /\ At("confirm-start")
     /\ \/ /\ OneOwner(StartOwners)
           /\ \E c \in StartOwners : run' = [run EXCEPT !.pc = "started-read", !.start = ContenderStart(c)]
        \/ Throws
     /\ UNCHANGED <<script, provider, row, receipt, evidence, others>>
  \/ Checks("started-read", "release", Holds("EFFECT_STARTED", 1))

r4dr1_nonreopen ==
  \/ \E now \in U64 : Attempts("release", "new-begin", release_not_attempted(row, Broker, run.claim, now), "Won")
  \/ \E now \in U64, n \in Nonce :
       Attempts("new-begin", "fresh-claim", begin_effect_with_nonce(row, Broker, run.claim, n, now), "Won")
  \/ \E now \in U64, n \in Nonce :
       Attempts("fresh-claim", "reserve-after", claim_with_nonce(row, Broker, now, 1, n), "Proposed")
  \/ \E now \in U64 : Attempts("reserve-after", "final", reserve(row, Agent, now), "Won")
  \/ Checks("final", "role", Holds("EFFECT_STARTED", 1))

r4dr1_role == Checks("role", "bundle", ~confirm_effect_start(row, Agent, run.claim, run.start))

\* The bundle is verified offline before the proof is written.
r4dr1_bundle == Checks("bundle", "evidence", Holds("EFFECT_STARTED", 1)) \/ Passes("evidence")

R4DR1 == readGrant \/ captureReadinessProbe \/ r4dr1_incident \/ r4dr1_claim \/ r4dr1_contenders
         \/ r4dr1_confirm \/ r4dr1_nonreopen \/ r4dr1_role \/ r4dr1_bundle \/ Stops

----------------------------------------------------------------------------
(* c1-r6b-r4e-live.ts: the script is the broker and sends the DELETE.       *)

\* The token of the preflight serves to the end and is not revoked.
r4e_preflight ==
  \/ Launches("mint", TRUE)
  \/ Mints("mint", "target", "setup")
  \/ Checks("target", "create", key = "present")

r4e_incident ==
  \/ Creates("create", "reserve") \/ Reserves("reserve", "claim")
  \/ Claims("claim", "confirm") \/ ConfirmsClaim("confirm", "recheck")

r4e_start ==
  \/ Checks("recheck", "begin", key = "present")
  \/ Begins("begin", "confirm-start")
  \/ ConfirmsStart("confirm-start", "pre-delete")

StartCommitted == Holds("EFFECT_STARTED", 1)

r4e_pre_delete == Checks("pre-delete", "delete", StartCommitted)

\* One DELETE: answered 204 with the key gone, or anything else.
r4e_delete ==
  /\ At("delete")
  /\ deletes' = deletes + 1
  /\ \/ key' = "gone" /\ Goto("after")
     \/ key' \in {key, "gone"} /\ Throws
  /\ UNCHANGED <<script, tokens, branch, row, receipt, evidence, others>>

r4e_after == Checks("after", "finalize", key = "gone")

r4e_finalize ==
  \/ Calls("finalize", "closed", finalize_with_start(row, Broker, run.claim, run.start, "VERIFIED_ABSENT"), "Won", run)
  \/ Checks("closed", "barriers", Holds("CLOSED", 1) /\ key = "gone")

\* Calls that must not succeed on the closed incident, one after the other; the two
\* that name a claim no row can hold are left out.  None of them writes to a closed row.
BarrierCalls(now, n) ==
  {begin_effect_with_nonce(row, Broker, run.claim, n, now),
   finalize_with_start(row, Broker, run.claim, run.start, "VERIFIED_ABSENT"),
   release_not_attempted(row, Broker, run.claim, now),
   reconcile_with_start(row, Broker, run.claim, run.start, "VERIFIED_ABSENT"),
   claim_with_nonce(row, Broker, now, 1, n)}

r4e_barriers ==
  \/ /\ At("barriers")
     /\ \E now \in U64, n \in Nonce :
          /\ row' \in {row} \cup {Stored(o) : o \in BarrierCalls(now, n)}
          /\ \/ (\A o \in BarrierCalls(now, n) : o.decision # "Won") /\ Goto("terminal")
             \/ Throws
     /\ UNCHANGED <<script, provider, receipt, evidence, others>>
  \/ Checks("terminal", "evidence", Holds("CLOSED", 1))
  \/ Passes("evidence")

R4E == r4e_preflight \/ r4e_incident \/ r4e_start \/ r4e_pre_delete \/ r4e_delete \/ r4e_after
       \/ r4e_finalize \/ r4e_barriers \/ Stops
=============================================================================
