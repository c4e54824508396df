----------------------------- MODULE MCWriteQueue -----------------------------
(* Small instances of WriteQueue for TLC.                                  *)
EXTENDS WriteQueue, TLC

Symmetry == Permutations(Streams)
===============================================================================
