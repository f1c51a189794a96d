--------------------------- MODULE MC_PushIngress --------------------------
(***************************************************************************)
(* Two concurrent requests, two policies, and three pushes: two causal     *)
(* ones, and a second body under the first one's delivery id that is not   *)
(* causal, so that a conflict, a race for one policy and a policy created  *)
(* while another is bound all occur; one or two crashes.                   *)
(***************************************************************************)
EXTENDS PushIngress, TLC

CONSTANTS h1, h2, p1, p2, d1, d2, b1, b2

MCHandler == {h1, h2}
MCPolicy == {p1, p2}
MCOnePolicy == {p1}
Push(d, b) == [delivery |-> d, body |-> b]
MCEvent == {Push(d1, b1), Push(d1, b2), Push(d2, b1)}
MCCausal == {Push(d1, b1), Push(d2, b1)} \X MCPolicy
MCOneCausal == {Push(d1, b1), Push(d2, b1)} \X MCOnePolicy
Symmetry == Permutations(MCHandler) \cup Permutations(MCPolicy)
=============================================================================
