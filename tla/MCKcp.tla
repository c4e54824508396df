-------------------------------- MODULE MCKcp --------------------------------
(* An instance of Kcp for TLC. *)
EXTENDS KcpCrypt

Run(w, c, p, s, n, f, e) ==
  [writes |-> w, convs |-> c, packets |-> p, sessions |-> s, start |-> n,
   fec |-> f, ends |-> e]

\* One client session whose packets fill groups, from the start or across the
\* wrap; one that is closed; two sessions, one after the other.
Histories ==
  {Run(3, 1, 4, 1, 0, TRUE, "none"), Run(3, 1, 4, 1, 27, TRUE, "none"),
   Run(2, 1, 4, 1, 0, FALSE, "client"), Run(1, 2, 1, 2, 0, FALSE, "listener")}

\* The ends of every range that the checks of the configuration look at.
MCConfigs ==
  {[P!kcp_default EXCEPT !.mode = m, !.mtu = u, !.datashard = d, !.sockbuf = b[1], !.smuxbuf = b[2],
                         !.streambuf = b[3], !.smuxver = v, !.keepalive = k] :
     m \in {"fast", "fast3", "manual"}, u \in {45, 46, 52, 53, 54, 1350, 1500, 1501}, d \in {0, 10},
     b \in {<<4194304, 0, 0>>, <<0, 0, 0>>, <<1, 0, 0>>, <<2, 0, 0>>, <<100, 50, 0>>, <<100, 0, 60>>,
             <<100, 50, 60>>},
     v \in {0, 1, 2}, k \in {0, 30, 31}}
MCNodes == [keepalive : BOOLEAN, ttl : {0, 60}, idle : {0, 5}, cipher : {"", "c"}]
===============================================================================
