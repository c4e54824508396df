------------------------------- MODULE MCDial -------------------------------
(* Setups for Dial: two targets behind every kind of selection, and one    *)
(* target behind a hop with a session.                                     *)
EXTENDS Dial

Base == [hop |-> "none", strategy |-> "round", nodes |-> 2, valid |-> {1, 2}, down |-> {},
         max_fails |-> 1, fastest |-> 0, retries |-> 2, requests |-> 2, ticks |-> 0, faults |-> 0]
Down(u, ns) == [u EXCEPT !.down = ns]
Hop(hop) == [Base EXCEPT !.hop = hop, !.nodes = 1, !.valid = {1}, !.retries = 1,
                         !.requests = 3, !.faults = 3]

MCSetups ==
    {Down([Base EXCEPT !.ticks = 2], {1, 2}),
     Down([Base EXCEPT !.ticks = 1, !.faults = 1], {1}),
     Down([Base EXCEPT !.strategy = "random", !.max_fails = 2, !.faults = 1], {1}),
     Down([Base EXCEPT !.strategy = "fifo", !.valid = {2}], {2}),
     [Base EXCEPT !.valid = {}],
     Down([Base EXCEPT !.fastest = 1, !.retries = 0, !.ticks = 4], {2}),
     Hop("quic"), Hop("ssh")}
====
