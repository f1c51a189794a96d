------------------------- MODULE MC_RuntimeRecovery ------------------------
(***************************************************************************)
(* One job, one or two coordinator runs and broker children; two handoff   *)
(* ids, since the worker holds at most one.                                *)
(***************************************************************************)
EXTENDS RuntimeRecovery, TLC

CONSTANTS i1, operator, agent, broker, c1, c2, t1, t2, h1, h2

MCIncident == {i1}
MCDid == {operator, agent, broker}
OneChild == {c1}
TwoChildren == {c1, c2}
OneThread == {t1}
TwoThreads == {t1, t2}
MCHandoffId == {h1, h2}
MCKeyId == {1}
ChildSymmetry == Permutations(TwoChildren)
ThreadSymmetry == Permutations(TwoThreads)
=============================================================================
