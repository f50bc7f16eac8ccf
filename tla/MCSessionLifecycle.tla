------------------------- MODULE MCSessionLifecycle -------------------------
(***************************************************************************)
(* SessionLifecycle with a few sessions and flows.                         *)
(***************************************************************************)
EXTENDS SessionLifecycle, TLC

\* Sessions are interchangeable, and so are flows.
OwnerSymmetry == Permutations(Sessions) \cup Permutations(Flows)
=============================================================================
