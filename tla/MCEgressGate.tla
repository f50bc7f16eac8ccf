----------------------------- MODULE MCEgressGate -----------------------------
(* Instances of EgressGate for TLC. *)
EXTENDS EgressGate, TLC

CONSTANTS A, B

\* The gates run the same program; the replicas behind them compute the same.
GateSymmetry == Permutations(Gates)
=============================================================================
