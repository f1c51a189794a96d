---------------------------- MODULE MC_LiveRuns ----------------------------
EXTENDS LiveRuns

CONSTANTS i1, operator, agent, broker, c1, c2

MCIncident == {i1}
MCDid == {operator, agent, broker}
MCNonce == {c1, c2}
MCKeyId == {1}
=============================================================================
