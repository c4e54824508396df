---------------------------- MODULE MCMuxChannel ----------------------------
(* An instance of MuxChannel for TLC. *)
EXTENDS MuxChannel, TLC

CONSTANTS s1, s2

\* Two bytes on one stream, so that order matters, and one on the other.
TwoAndOne == s1 :> 2 @@ s2 :> 1
=============================================================================
