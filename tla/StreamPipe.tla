------------------------------ MODULE StreamPipe ------------------------------
(***************************************************************************)
(* What one direction of a smux stream promises its two users: a reliable  *)
(* byte pipe with a half close.  The reader gets the writer's bytes in     *)
(* order and without gaps; it sees end of file only when the writer has    *)
(* closed its side and every byte has been read; anything else is an error *)
(* and the end of the pipe.  Bytes are numbered by their place.            *)
(***************************************************************************)
EXTENDS Naturals, Sequences

CONSTANT Streams

VARIABLES
  sent,      \* bytes written to each stream
  shut,      \* the writer has closed its side
  received,  \* bytes read, in the order read
  ended      \* how reading ended: "no", "eof" or "error"

vars == <<sent, shut, received, ended>>

Init ==
  /\ sent = [s \in Streams |-> 0] /\ shut = [s \in Streams |-> FALSE]
  /\ received = [s \in Streams |-> <<>>] /\ ended = [s \in Streams |-> "no"]

Write(s) ==
  /\ ~shut[s]
  /\ sent'[s] > sent[s] /\ sent' = [sent EXCEPT ![s] = sent'[s]]
  /\ UNCHANGED <<shut, received, ended>>

Shutdown(s) ==
  /\ ~shut[s]
  /\ shut' = [shut EXCEPT ![s] = TRUE]
  /\ UNCHANGED <<sent, received, ended>>

\* The next bytes, and only bytes that were written.
Read(s) ==
  LET got == Len(received[s]) IN
  /\ ended[s] = "no"
  /\ \E n \in 1..(sent[s] - got) :
       received' = [received EXCEPT ![s] = @ \o [i \in 1..n |-> got + i]]
  /\ UNCHANGED <<sent, shut, ended>>

Eof(s) ==
  /\ ended[s] = "no" /\ shut[s] /\ Len(received[s]) = sent[s]
  /\ ended' = [ended EXCEPT ![s] = "eof"]
  /\ UNCHANGED <<sent, shut, received>>

Error(s) ==
  /\ ended[s] = "no"
  /\ ended' = [ended EXCEPT ![s] = "error"]
  /\ UNCHANGED <<sent, shut, received>>

Next == \E s \in Streams : Write(s) \/ Shutdown(s) \/ Read(s) \/ Eof(s) \/ Error(s)

Spec == Init /\ [][Next]_vars
===============================================================================
