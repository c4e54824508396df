--------------------------- MODULE MCUdpListener ---------------------------
(* Model-checking instance of UdpListener.                                 *)
EXTENDS UdpListener

\* The first datagram needs two reads of two bytes, or is empty.
LongOrEmpty == {<<3, 1>>, <<0, 1>>}
Single == {<<1>>}

=============================================================================
