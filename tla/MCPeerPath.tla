------------------------------ MODULE MCPeerPath ------------------------------
(***************************************************************************)
(* PeerPath for TLC: endpoints are interchangeable.                        *)
(***************************************************************************)
EXTENDS PeerPath, TLC

Symmetry == Permutations(Endpoints)
=============================================================================
