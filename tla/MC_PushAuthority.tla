------------------------- MODULE MC_PushAuthority -------------------------
(***************************************************************************)
(* Two runs of acceptWebhook.  The worlds are a push that introduces the   *)
(* secret, every single way its request may differ from that one, every    *)
(* content of the two commits with every one of the lists of policies, and *)
(* retirement.  Commit c1 is the branch before, c2 after the push.         *)
(***************************************************************************)
EXTENDS PushAuthority, TLC

CONSTANTS h1, h2, repo, otherRepo, ref, otherRef, zero, c1, c2, secret, other, pA, pB

Symmetry == Permutations(Handler)

Causal == [authentic |-> TRUE, push |-> TRUE, wellFormed |-> TRUE, repository |-> repo, ref |-> ref,
           deleted |-> FALSE, created |-> FALSE, forced |-> FALSE, before |-> c1, after |-> c2]

Requests ==
  {Causal,
   [Causal EXCEPT !.authentic = FALSE], [Causal EXCEPT !.push = FALSE],
   [Causal EXCEPT !.wellFormed = FALSE],
   [Causal EXCEPT !.repository = otherRepo], [Causal EXCEPT !.ref = otherRef],
   [Causal EXCEPT !.deleted = TRUE], [Causal EXCEPT !.created = TRUE, !.before = zero],
   [Causal EXCEPT !.forced = TRUE], [Causal EXCEPT !.before = zero],
   [Causal EXCEPT !.after = zero], [Causal EXCEPT !.after = c1]}

Live == [policy_id |-> pA, policy_version |-> 1, repository |-> repo, ref |-> ref, sound |-> TRUE,
         live |-> TRUE, enabled |-> TRUE, digest |-> secret]

PairOfPolicies == {Live, [Live EXCEPT !.policy_id = pB]}

PolicyLists ==
  {{}, {Live},
   {[Live EXCEPT !.sound = FALSE]}, {[Live EXCEPT !.live = FALSE]}, {[Live EXCEPT !.enabled = FALSE]},
   {[Live EXCEPT !.ref = otherRef]}, {[Live EXCEPT !.repository = otherRepo]},
   PairOfPolicies,
   {Live, [Live EXCEPT !.policy_version = 2, !.enabled = FALSE]},
   {Live, [Live EXCEPT !.policy_id = pB, !.enabled = FALSE]},
   {Live, [Live EXCEPT !.policy_id = pB, !.ref = otherRef]},
   {[Live EXCEPT !.digest = other], [Live EXCEPT !.policy_id = pB, !.enabled = FALSE]}}

Content(before, after) == [c \in {zero, c1, c2} |-> IF c = c1 THEN before ELSE IF c = c2 THEN after ELSE Absent]

Case(q, ps, rs, c) == [request |-> q, policies |-> ps, retired |-> rs, content |-> c]

MCWorld ==
  {Case(q, {Live}, {}, Content(Absent, secret)) : q \in Requests}
  \cup {Case(Causal, {Live}, {}, Content(b, a)) : b, a \in {Absent, secret, other}}
  \cup {Case(Causal, ps, {}, Content(Absent, secret)) : ps \in PolicyLists}
  \cup {Case(Causal, ps, {pA}, Content(Absent, secret)) : ps \in {{Live}, PairOfPolicies}}
=============================================================================
