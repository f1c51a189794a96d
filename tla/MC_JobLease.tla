---------------------------- MODULE MC_JobLease ----------------------------
(***************************************************************************)
(* Three processes, so that two find the lease of a dead third; two random *)
(* owner ids each, so that a call meets the heartbeat of the one before.   *)
(***************************************************************************)
EXTENDS JobLease, TLC

CONSTANTS w1, w2, w3, n1, n2

MCProcess == {w1, w2, w3}
MCNonce == {n1, n2}
Symmetry == Permutations(MCProcess) \cup Permutations(MCNonce)
=============================================================================
