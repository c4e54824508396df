---------------------------- MODULE MCMuxReceive ----------------------------
(* Instances of MuxReceive for TLC. *)
EXTENDS MuxReceive, TLC

\* Ids of one side are interchangeable.
Symmetry == Permutations(PeerSids) \cup Permutations(OwnSids)
=============================================================================
