------------------------------- MODULE MCCenter ------------------------------
(***************************************************************************)
(* The site-to-center link on small instances.                             *)
(***************************************************************************)
EXTENDS CenterLink, TLC

\* Targets are only ever compared, and no liveness run uses the symmetry.
TargetSymmetry == Permutations(Targets)
==============================================================================
