------------------------------ MODULE Startup ------------------------------
(***************************************************************************)
(* What a node of the command line or the configuration becomes: the       *)
(* scheme is taken apart and normalised (node.rs), two gates refuse what   *)
(* is not implemented, and run_server (main.rs) picks a handler by the     *)
(* protocol and a listener by the transport.                               *)
(***************************************************************************)
EXTENDS Integers, Sequences

\* The transports of gost, in the words of a scheme.
Transports == {"tcp", "tls", "mtls", "ws", "mws", "wss", "mwss", "kcp", "quic", "h2", "h2c", "http2",
               "ssh", "ohttp", "otls", "obfs4", "ftcp", "vsock", "tun", "tap", "udp", "rtcp",
               "rudp", "dns", "redu", "redirectu"}
Protocols == {"http", "http2", "socks4", "socks4a", "socks5", "ss", "ssu", "sni", "tcp", "udp", "rtcp", "rudp",
              "direct", "remote", "forward", "red", "redirect", "redu", "redirectu", "tun", "tap",
              "ftcp", "dns", "dot", "doh", "relay"}

normalize_transport(t) ==
    CASE t = "https" -> "tls"
      [] t = "ssu" -> "udp"
      [] t \in Transports -> t
      [] OTHER -> "tcp"

normalize_protocol(p) ==
    CASE p = "https" -> "http"
      [] p = "socks" -> "socks5"
      [] p = "ss2" -> "ss"
      [] p \in Protocols -> p
      [] OTHER -> ""

\* Node::parse: `protocol+transport`, or one word for both.
parse(words) ==
    LET p == words[1]
        t == IF Len(words) = 2 THEN words[2] ELSE words[1]
    IN [protocol |-> normalize_protocol(p), transport |-> normalize_transport(t)]

\* SSH carries its own forwarding only.
ssh_listener_support(n) == n.protocol = "forward"
ssh_chain_support(n) == n.protocol \in {"direct", "remote", "forward"}

SupportedListeners == {"tcp", "tls", "ws", "wss", "mtls", "mws", "mwss", "quic", "kcp", "udp", "rtcp",
                       "rudp", "dns", "redu", "h2", "h2c", "http2", "ohttp", "otls"}
SupportedHops == {"tcp", "tls", "ws", "wss", "mtls", "mws", "mwss", "quic", "kcp", "h2", "h2c",
                  "http2", "ohttp", "otls"}

\* mutant: the gate knows ssh as one transport among the others.
ensure_listener_transport_supported_ssh(n) == n.transport \in SupportedListeners \cup {"ssh"}

ensure_listener_transport_supported(n) ==
    IF n.transport = "ssh" THEN ssh_listener_support(n) ELSE n.transport \in SupportedListeners

\* mutant: a hop with an unknown transport is dialled in the clear.
ensure_chain_transport_supported_lax(n) == n.transport = "ssh" => ssh_chain_support(n)

ensure_chain_transport_supported(n) ==
    IF n.transport = "ssh" THEN ssh_chain_support(n) ELSE n.transport \in SupportedHops

\* The handler by the protocol; anything else is a forwarder when the node
\* has a remote address, and the AutoHandler otherwise.
handler(n, remote) ==
    CASE n.protocol = "http" -> "HttpHandler"
      [] n.protocol = "http2" -> "Http2Handler"
      [] n.protocol = "socks5" -> "Socks5Handler"
      [] n.protocol \in {"socks4", "socks4a"} -> "Socks4Handler"
      [] n.protocol = "ss" -> "ShadowHandler"
      [] n.protocol = "ssu" -> "ShadowUdpHandler"
      [] n.protocol = "relay" -> "RelayHandler"
      [] n.protocol = "sni" -> "SniHandler"
      [] n.protocol = "tcp" -> "TcpDirectForwardHandler"
      [] n.protocol = "udp" -> "UdpDirectForwardHandler"
      [] n.protocol = "rudp" -> "UdpRemoteForwardHandler"
      [] n.protocol = "rtcp" -> "TcpRemoteForwardHandler"
      [] n.protocol \in {"dns", "dot", "doh"} -> "DnsHandler"
      [] n.protocol \in {"red", "redirect"} -> "TcpRedirectHandler"
      [] n.protocol \in {"redu", "redirectu"} -> "UdpRedirectHandler"
      [] n.protocol = "forward" -> "SshForwardHandler"
      [] OTHER -> IF remote THEN "TcpDirectForwardHandler" ELSE "AutoHandler"

\* The listener by the transport; a remote UDP port cannot be bound at the
\* far end of a chain.
listener(n, chain_is_empty) ==
    CASE n.transport \in {"tcp", "ssh", "rtcp", "dns", "redu"} ->
            [by |-> "Server", over |-> IF n.protocol = "forward" THEN "ssh" ELSE "tcp"]
      [] n.transport \in {"tls", "http2"} -> [by |-> "TlsServer", over |-> n.transport]
      [] n.transport = "h2" -> [by |-> "TlsServer", over |-> "h2"]
      [] n.transport \in {"h2c", "ohttp", "otls"} -> [by |-> "Server", over |-> n.transport]
      [] n.transport = "kcp" -> [by |-> "KcpListener", over |-> "kcp"]
      [] n.transport = "quic" -> [by |-> "QuicServer", over |-> "quic"]
      [] n.transport \in {"mtls", "mws", "mwss"} -> [by |-> "MuxServer", over |-> n.transport]
      [] n.transport \in {"ws", "wss"} -> [by |-> "WsServer", over |-> n.transport]
      [] n.transport = "udp" \/ (n.transport = "rudp" /\ chain_is_empty) ->
            [by |-> "UdpServer", over |-> "udp"]
      [] OTHER -> [by |-> "none", over |-> "none"]

\* What goes over the wire for a transport as written.  rtcp, dns and redu are
\* plain sockets, and SSH is what its handler speaks.
Carrier(t) == CASE t \in {"tcp", "rtcp", "dns", "redu"} -> "tcp"
                [] t \in {"udp", "rudp", "ssu"} -> "udp"
                [] t = "https" -> "tls"
                [] OTHER -> t
====
