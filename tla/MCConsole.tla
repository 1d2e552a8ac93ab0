----------------------------- MODULE MCConsole -----------------------------
(* The instance of ConsoleAuth for TLC: requests are interchangeable.       *)
EXTENDS ConsoleAuth, TLC

RequestSymmetry == Permutations(Requests)
=============================================================================
