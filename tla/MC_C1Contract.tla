--------------------------- MODULE MC_C1Contract ---------------------------
(***************************************************************************)
(* One incident, its operator, its two agents and a stranger; two nonces   *)
(* (so that two contenders can propose in the same generation), three      *)
(* claim generations before the u64 runs out, and a clock of four readings *)
(* with windows of one or two of them.                                     *)
(***************************************************************************)
EXTENDS C1Contract

CONSTANTS i1, operator, agent, broker, n1, n2

MCIncident == {i1}
MCDid == {operator, agent, broker}
MCNonce == {n1, n2}
MCKeyId == {1}
=============================================================================
