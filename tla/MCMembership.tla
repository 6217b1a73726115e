---------------------------- MODULE MCMembership ----------------------------
(***************************************************************************)
(* Membership for TLC.                                                     *)
(***************************************************************************)
EXTENDS Membership, TLC

Symmetry ==
  Permutations(Handlers) \cup Permutations(Keys) \cup Permutations(Hosts)
=============================================================================
