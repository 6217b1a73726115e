------------------------------- MODULE MCRelay -------------------------------
(***************************************************************************)
(* Relay for TLC: handlers and nodes are interchangeable.                  *)
(***************************************************************************)
EXTENDS Relay, TLC

Symmetry == Permutations(Handlers) \cup Permutations(Nodes)
=============================================================================
