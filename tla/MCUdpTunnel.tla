---------------------------- MODULE MCUdpTunnel ----------------------------
(* Instances of UdpTunnel and UdpRelay.                                    *)
EXTENDS UdpRelay

\* The name "good" resolves to the address "ip", "sly" to one that no list
\* allows, "lost" to nothing.
MCNames == {"good", "sly", "lost", "ip", "bad"}
MCResolve == [good |-> "ip", sly |-> "bad", lost |-> NoAddr, ip |-> "ip", bad |-> "bad"]
MCAllows == {"good", "sly", "lost", "ip"}
MCBypassed == {"bad"}

To(a) == [at |-> a, empty |-> FALSE, from |-> "c", frag |-> FALSE]
Empty(a) == [To(a) EXCEPT !.empty = TRUE]
Stranger(a) == [To(a) EXCEPT !.from = "d"]
Fragment(a) == [To(a) EXCEPT !.frag = TRUE]

\* Two datagrams that pass, and each way of being dropped.
MCSends == {<<To("good"), To("good")>>, <<To("sly"), To("sly")>>, <<To("sly"), To("ip")>>,
            <<Empty("ip"), To("ip")>>,
            <<To("lost"), To("bad")>>, <<To("ip"), Stranger("ip")>>, <<Fragment("ip"), To("ip")>>}
MCReplies == {<<To("ip"), To("ip")>>, <<To("bad"), Empty("ip")>>}

=============================================================================
