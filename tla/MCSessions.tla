------------------------------ MODULE MCSessions ------------------------------
EXTENDS CenterSessions, TLC

\* Console requests are alike, and so are connections.
SessionSymmetry == Permutations(Handlers) \cup Permutations(Conns)
=============================================================================
