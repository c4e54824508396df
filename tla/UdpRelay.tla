------------------------------ MODULE UdpRelay ------------------------------
(***************************************************************************)
(* Datagrams without a hop.  The handlers of UdpTunnel when dial_udp finds *)
(* an empty chain and gives them a plain socket (UdpChannel::Direct), and  *)
(* the two relays that never have a chain: rudp (remote_forward.rs), whose *)
(* socket is connected to its one target, and the UDP ASSOCIATE of SOCKS5  *)
(* (socks5.rs), whose relay socket anybody can send to and which lives as  *)
(* long as the TCP connection that asked for it.                           *)
(*                                                                         *)
(* The run starts either with a hop, and is then one of UdpTunnel, or      *)
(* direct; the datagrams, the counts and the handler's program counter are *)
(* those of UdpTunnel.                                                     *)
(***************************************************************************)
EXTENDS UdpTunnel

CONSTANT Nobody     \* no owner yet

ASSUME RelayConstants == Nobody \notin Clients

VARIABLES
    direct,         \* the chain is empty
    control,        \* ASSOCIATE: the control connection is open
    told,           \* ASSOCIATE: the replies on the control connection
    owner,          \* client_addr, and how many replies were lost before it
    marked,         \* rudp: the target carries a failure mark
    world, client,  \* what the world and the client have got
    lost            \* what could not be sent

dvars == <<direct, control, told, owner, marked, world, client, lost>>
allvars == <<vars, dvars>>

RelayInit ==
    /\ Init
    /\ kind # "associate" => \A n \in 1 .. MaxSend : dg[n].from = dg[1].from /\ ~dg[n].frag
    /\ direct \in BOOLEAN /\ (kind \in {"rudp", "associate"} => direct)
    /\ control = TRUE /\ told = <<>>
    /\ owner = [who |-> Nobody, since |-> 0]
    /\ marked \in BOOLEAN /\ (marked => kind = "rudp")
    /\ world = <<>> /\ client = <<>> /\ lost = {}

\* No hop, no pumps.
NoTunnel == writer' = Gone /\ reader' = Gone /\ hop' = Gone /\ closed' = TRUE

-----------------------------------------------------------------------------
(* Setting up.                                                             *)

\* The socket is bound (and, for rudp, connected: the target loses its mark).
\* An ASSOCIATE is answered before its second socket is bound.
DirectOpens ==
    /\ direct /\ relay.pc = "dial"
    /\ relay' = [relay EXCEPT !.pc = "direct"]
    /\ told' = IF kind = "associate" THEN Append(told, "success") ELSE told
    /\ marked' = FALSE
    /\ NoTunnel
    /\ UNCHANGED <<config, sends, replies, out, inq, lockq, abort, c2s, s2c, broken, sent, back,
                   direct, control, owner, world, client, lost>>

\* The mark after a failed set-up of rudp: a failing connect marks the target,
\* a failing selection or bind comes before that.
Marks == IF kind = "rudp" THEN {marked, TRUE} ELSE {marked}

\* No node, a bad target, a failing bind or connect.
\* An ASSOCIATE that the lists deny or whose relay socket cannot be bound is
\* answered with the reason, one whose second socket fails was told success.
DirectFails ==
    /\ direct /\ relay.pc = "dial"
    /\ relay' = [relay EXCEPT !.pc = "gone"]
    /\ IF kind = "associate"
       THEN \E rep \in {"not allowed", "general failure", "success"} : told' = Append(told, rep)
       ELSE UNCHANGED told
    /\ marked' \in Marks
    /\ NoTunnel
    /\ UNCHANGED <<config, sends, replies, out, inq, lockq, abort, c2s, s2c, broken, sent, back,
                   direct, control, owner, world, client, lost>>

-----------------------------------------------------------------------------
(* The loop.                                                               *)

\* A relay socket that follows whoever sent last.
Owner_last(n) == [who |-> dg[n].from, since |-> replies]

\* The first sender owns the association.
Owner(n) ==
    IF kind = "associate" /\ owner.who = Nobody
    THEN [who |-> dg[n].from, since |-> replies] ELSE owner

\* Lists asked about the name only.
DirectPasses_name_only(n) ==
    CASE kind = "ssu" -> dg[n].at \in RelayAllows /\ Resolve[dg[n].at] # NoAddr
      [] kind = "associate" -> /\ Owner(n).who = dg[n].from /\ ~dg[n].frag
                               /\ dg[n].at \in HopAllows /\ Resolve[dg[n].at] # NoAddr
      [] OTHER -> TRUE

\* Fragments passed on as if they were whole.
DirectPasses_fragments(n) ==
    CASE kind = "ssu" -> RelayPasses(n)
      [] kind = "associate" -> Owner(n).who = dg[n].from /\ HopPasses(n)
      [] OTHER -> TRUE

\* What is relayed of what the client side sends: all of it to the one target
\* of forward and rudp; of the others what their lists let through as written
\* and as resolved, and for an ASSOCIATE only the owner's whole datagrams.
DirectPasses(n) ==
    CASE kind = "ssu" -> RelayPasses(n)
      [] kind = "associate" -> Owner(n).who = dg[n].from /\ ~dg[n].frag /\ HopPasses(n)
      [] OTHER -> TRUE

\* A datagram of the client side: dropped, sent, or not sendable, which only
\* the Shadowsocks handler survives.
DirectReads ==
    /\ direct /\ relay.pc = "direct" /\ sends < MaxSend
    /\ sends' = sends + 1
    /\ LET n == sends + 1 IN
       /\ owner' = Owner(n)
       /\ \/ /\ world' = IF DirectPasses(n) THEN Append(world, n) ELSE world
             /\ UNCHANGED <<relay, lost>>
          \/ /\ DirectPasses(n)
             /\ lost' = lost \cup {n}
             /\ relay' = IF kind = "ssu" THEN relay ELSE [relay EXCEPT !.pc = "gone"]
             /\ UNCHANGED world
    /\ UNCHANGED <<config, replies, out, inq, pumps, abort, wire, hop, sent, back,
                   direct, control, told, marked, client>>

\* A reply is passed on when its source is not bypassed (ssu, ASSOCIATE), it
\* is the connected target's (rudp), it is not empty (forward and rudp write
\* it with write_all, which writes nothing), and there is a client to have it.
Returns(r) ==
    CASE kind = "ssu" -> rp[r].at \notin Bypassed
      [] kind = "associate" -> owner.who # Nobody /\ r > owner.since /\ rp[r].at \notin Bypassed
      [] kind = "rudp" -> rp[r].at = Resolve[dg[1].at] /\ ~rp[r].empty
      [] OTHER -> ~rp[r].empty

\* A datagram of the world; a failing write to the client ends the handler.
DirectReceives ==
    /\ direct /\ relay.pc = "direct" /\ replies < MaxReply
    /\ replies' = replies + 1
    /\ \/ /\ client' = IF Returns(replies + 1) THEN Append(client, replies + 1) ELSE client
          /\ relay' = [relay EXCEPT !.errs = 0]
       \/ /\ Returns(replies + 1)
          /\ relay' = [relay EXCEPT !.pc = "gone"]
          /\ UNCHANGED client
    /\ UNCHANGED <<config, sends, out, inq, pumps, abort, wire, hop, sent, back,
                   direct, control, told, owner, marked, world, lost>>

\* The socket reports an error: Shadowsocks counts them, the others end.
DirectRecvFails ==
    /\ direct /\ relay.pc = "direct"
    /\ relay' = IF kind = "ssu" /\ relay.errs < MaxErrors
                THEN [relay EXCEPT !.errs = @ + 1] ELSE [relay EXCEPT !.pc = "gone"]
    /\ UNCHANGED <<config, sends, replies, out, inq, pumps, abort, wire, hop, sent, back, dvars>>

\* The client closes the control connection of an ASSOCIATE.
ControlCloses ==
    /\ direct /\ kind = "associate" /\ control
    /\ control' = FALSE
    /\ UNCHANGED <<vars, direct, told, owner, marked, world, client, lost>>

\* discard_client_data: an ASSOCIATE ends with its control connection only.
MayEnd == kind = "associate" => ~control

\* rudp without a timer on its reads.
DirectEnds_no_timer ==
    /\ direct /\ relay.pc = "direct"
    /\ MayEnd
    /\ kind # "rudp"
    /\ relay' = [relay EXCEPT !.pc = "gone"]
    /\ UNCHANGED <<config, sends, replies, out, inq, pumps, abort, wire, hop, sent, back, dvars>>

\* End of the client's connection, or the idle timeout.
DirectEnds ==
    /\ direct /\ relay.pc = "direct"
    /\ MayEnd
    /\ relay' = [relay EXCEPT !.pc = "gone"]
    /\ UNCHANGED <<config, sends, replies, out, inq, pumps, abort, wire, hop, sent, back, dvars>>

-----------------------------------------------------------------------------
Tunnelled == ~direct /\ Next /\ UNCHANGED dvars
Loop == DirectReads \/ DirectReceives \/ DirectRecvFails
RelayOver == direct /\ relay.pc = "gone" /\ UNCHANGED allvars

RelayNext ==
    \/ Tunnelled
    \/ DirectOpens \/ DirectFails \/ Loop \/ ControlCloses \/ DirectEnds \/ RelayOver

\* Tasks that can run do run, and an abort takes effect; direct, the set-up
\* ends, and so does a handler whose client or whose idle timer is done.
\* Neither the client nor the world has to send.
RelaySpec ==
    /\ RelayInit /\ [][RelayNext]_allvars
    /\ WF_allvars(~direct /\ (Opens \/ DialFails \/ RelaySends \/ RelayReceives \/ RelayRecvFails \/ RelayDrops)
                  /\ UNCHANGED dvars)
    /\ WF_allvars(~direct /\ Writer /\ UNCHANGED dvars)
    /\ WF_allvars(~direct /\ Reader /\ UNCHANGED dvars)
    /\ WF_allvars(~direct /\ Aborted /\ UNCHANGED dvars)
    /\ WF_allvars(~direct /\ Hop /\ UNCHANGED dvars)
    /\ WF_allvars(DirectOpens \/ DirectFails)
    /\ WF_allvars(DirectEnds)

-----------------------------------------------------------------------------
(* Properties.                                                             *)

\* An association serves one client: whatever order datagrams of several
\* senders arrive in at the relay socket, the world gets only those of the
\* first, and no reply is passed on before there is one (transport_udp).
OwnerServed ==
    kind = "associate" =>
        /\ \A i \in DOMAIN world : dg[world[i]].from = dg[1].from
        /\ client # <<>> => sends > 0

\* A direct relay sends nothing its lists deny, as written or as resolved.
DirectAllowed ==
    \A i \in DOMAIN world :
        LET at == dg[world[i]].at IN
        /\ kind = "ssu" => {at, Resolve[at]} \subseteq RelayAllows
        /\ kind = "associate" => {at, Resolve[at]} \subseteq HopAllows

\* While a direct relay runs, every whole datagram that the lists let through
\* has been sent, in order and once, and only the Shadowsocks relay has gone
\* on after one it could not send; every reply that may be has come back.
Increasing(q) == \A i, j \in DOMAIN q : i < j => q[i] < q[j]
DirectKept ==
    direct /\ relay.pc = "direct" =>
        /\ Increasing(world) /\ Increasing(client)
        /\ Range(world) = {n \in 1 .. sends :
               /\ n \notin lost
               /\ kind = "ssu" => RelayPasses(n)
               /\ kind = "associate" => dg[n].from = dg[1].from /\ ~dg[n].frag /\ HopPasses(n)}
        /\ Range(client) = {r \in 1 .. replies : Returns(r)}
        /\ lost # {} => kind = "ssu"

\* No association outlives its reason: with its control connection gone, or
\* with nothing to relay for its timeout, a direct relay ends ("otherwise one
\* relay per source address accumulates for the life of the process").
AssociationsReclaimed ==
    direct /\ (kind = "associate" => ~control) ~> relay.pc = "gone"

\* What is relayed while a relay is up, through a hop or directly, is what the
\* lists let through: all of it, once and in order, in both directions.
TunnelKept ==
    TypeOK /\ RequestsKept /\ RepliesKept /\ OnlyAllowedSent /\ DirectKept

\* A relay without a hop serves its owner only, and sends to nobody its lists
\* deny (transport_udp of socks5.rs, the handlers of ss.rs).
RelaysGuarded == OwnerServed /\ DirectAllowed

\* A relay that has lost its reason ends and takes its pumps, its hop and its
\* sockets with it.
RelaysEnd == TornDown /\ AssociationsReclaimed

=============================================================================
