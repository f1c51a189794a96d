-------------------------- MODULE MC_EffectBroker --------------------------
(***************************************************************************)
(* One incident and two broker children, so that an orphan and its         *)
(* successor meet; two claim generations, so that a released claim and the *)
(* next one meet; a clock that is inside or outside the incident's window. *)
(***************************************************************************)
EXTENDS EffectBroker, TLC

CONSTANTS i1, operator, agent, broker, c1, c2

MCIncident == {i1}
MCDid == {operator, agent, broker}
MCNonce == {c1, c2}
MCKeyId == {1}
Symmetry == Permutations(MCNonce)
=============================================================================
