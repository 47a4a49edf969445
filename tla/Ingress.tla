------------------------------- MODULE Ingress -------------------------------
(***************************************************************************)
(* From a packet of the device to the socket that takes it: the tests of   *)
(* Interface::process, the address pair as key of the pool, the socket     *)
(* that a SYN opens, and the endpoints that check_acceptability compares   *)
(* with the packet once more.  What the socket does with the segment is    *)
(* reduced to its endpoints and four states.                               *)
(*                                                                         *)
(* As in Connection, a "Slip" is a mistake to be put in the place of the   *)
(* definition that follows it.                                             *)
(***************************************************************************)
EXTENDS Naturals, FiniteSets

CONSTANTS Hosts,        \* the part of an address that names a unicast host
          Zero,         \* the unspecified address
          Group,        \* a multicast or broadcast address
          NoAddress,    \* IpAddress::Unspecified, an address of no family
          Ports,        \* ports other than 0
          MaxSockets    \* bound: sockets in the pool

ASSUME IngressAssumption ==
    /\ Zero \notin Hosts /\ Group \notin Hosts /\ Zero # Group
    /\ NoAddress \notin [family : {"v4", "v6"}, host : Hosts \cup {Zero, Group}]
    /\ Ports \subseteq Nat \ {0}
    /\ MaxSockets \in Nat

Families == {"v4", "v6"}
Address == [family : Families, host : Hosts \cup {Zero, Group}]
Endpoint == [addr : Address \cup {NoAddress}, port : Ports \cup {0}]

\* IpEndpoint::default()
Unspecified == [addr |-> NoAddress, port |-> 0]

is_unspecified(addr) == addr = NoAddress \/ addr.host = Zero
is_unicast(addr) == addr.host \notin {Zero, Group}

\* SocketAddr::V4 and V6 with the octets or the parts of the address.
SocketAddr == Families \X (Hosts \cup {Zero, Group}) \X (Ports \cup {0})
AddrPair == [peer : SocketAddr, local : SocketAddr]

\* A TCP packet over IP whose headers are in order.  Both its addresses are of
\* one family.
Packets == {pkt \in [src : Address, dst : Address,
                     src_port : Ports \cup {0}, dst_port : Ports \cup {0},
                     control : {"none", "syn", "fin", "rst"}, ack : BOOLEAN] :
                pkt.src.family = pkt.dst.family}

Sockets == [state : {"Listen", "SynReceived", "Synchronized", "Closed"},
            listen : Endpoint, local : Endpoint, remote : Endpoint]

VARIABLES pool,     \* SocketPool::sockets
          verdict   \* what became of the last packet

ingressVars == <<pool, verdict>>

Init == /\ pool = <<>>
        /\ verdict = "none"

-----------------------------------------------------------------------------
(* Classification. *)

\* Slip: an IPv6 address is cut down to the octets of an IPv4 address.
convert_to_octets(addr, port) == <<"v4", addr.host, port>>

convert_to_socket_address(addr, port) == <<addr.family, addr.host, port>>

\* The source and the destination of a packet as the key of the pool.
Pair(pkt) == [peer  |-> convert_to_socket_address(pkt.src, pkt.src_port),
              local |-> convert_to_socket_address(pkt.dst, pkt.dst_port)]

\* Slip: the source of an IPv6 packet is not looked at.
ProcessedV4Source(pkt) ==
    /\ pkt.src.family = "v4" => is_unicast(pkt.src)
    /\ pkt.src_port # 0 /\ pkt.dst_port # 0

\* process_ipv4 or process_ipv6 and process_tcp come to the pool: the source is
\* unicast, and the segment parses, which one with a port 0 does not.
Processed(pkt) ==
    /\ is_unicast(pkt.src)
    /\ pkt.src_port # 0 /\ pkt.dst_port # 0

-----------------------------------------------------------------------------
(* The pool and the socket. *)

\* The library's conversion of a SocketAddr.
EndpointOf(s) == [addr |-> [family |-> s[1], host |-> s[2]], port |-> s[3]]

\* open_socket
ListenSocket(local) ==
    [state |-> "Listen", listen |-> local, local |-> local, remote |-> Unspecified]

ClosedSocket(sock) ==
    [sock EXCEPT !.state = "Closed", !.local = Unspecified, !.remote = Unspecified]

\* check_acceptability, without and with the comparison of the endpoints.
StateAccepts(sock, pkt) ==
    sock.state # "Closed" /\ ~(sock.state = "Listen" /\ pkt.ack)

EndpointsAccept(sock, pkt) ==
    /\ sock.local.port = pkt.dst_port
    /\ is_unspecified(sock.local.addr) \/ sock.local.addr = pkt.dst
    /\ sock.remote.port \in {0, pkt.src_port}
    /\ is_unspecified(sock.remote.addr) \/ sock.remote.addr = pkt.src

\* What the library makes of a segment: a SYN connects, a reset before the
\* handshake is over goes back to listening, later it closes.
SocketResults(sock, pkt) ==
    CASE sock.state = "Listen" /\ pkt.control = "syn" ->
            {[sock EXCEPT !.state = "SynReceived",
                          !.local = [addr |-> pkt.dst, port |-> pkt.dst_port],
                          !.remote = [addr |-> pkt.src, port |-> pkt.src_port]]}
      [] sock.state = "SynReceived" /\ pkt.control = "rst" ->
            {sock, ListenSocket(sock.listen)}
      [] sock.state = "SynReceived" /\ pkt.control # "rst" /\ pkt.ack ->
            {sock, [sock EXCEPT !.state = "Synchronized"]}
      [] sock.state = "Synchronized" /\ (pkt.control = "rst" \/ pkt.ack) ->
            {sock, ClosedSocket(sock)}
      [] OTHER -> {sock}

-----------------------------------------------------------------------------
(* Actions. *)

\* What is not IP, is not TCP or has a header that does not parse.
Unparsed ==
    /\ verdict' = "discarded"
    /\ UNCHANGED pool

\* A packet that does not come to the pool.
Discard(pkt) ==
    /\ ~Processed(pkt)
    /\ verdict' = "discarded"
    /\ UNCHANGED pool

\* SocketPool::process turns a SYN with an acknowledgement away, create_syn
\* whatever else belongs to no connection.
TurnAway(pkt) ==
    /\ Processed(pkt)
    /\ \/ pkt.control = "syn" /\ pkt.ack
       \/ pkt.control # "syn" /\ Pair(pkt) \notin DOMAIN pool
    /\ verdict' = "dropped"
    /\ UNCHANGED pool

\* Connection::process with the socket of the pair, which is in the pool whether
\* or not it takes the segment.
Deliver(pkt, sock) ==
    LET accepted == StateAccepts(sock, pkt) /\ EndpointsAccept(sock, pkt)
    IN  /\ verdict' = IF accepted THEN "accepted"
                      ELSE IF StateAccepts(sock, pkt) THEN "wrong endpoint"
                      ELSE "dropped"
        /\ \E r \in IF accepted THEN SocketResults(sock, pkt) ELSE {sock} :
            pool' = [pair \in DOMAIN pool \cup {Pair(pkt)} |->
                        IF pair = Pair(pkt) THEN r ELSE pool[pair]]

Known(pkt) ==
    /\ Processed(pkt)
    /\ ~(pkt.control = "syn" /\ pkt.ack)
    /\ Pair(pkt) \in DOMAIN pool
    /\ Deliver(pkt, pool[Pair(pkt)])

Create(pkt) ==
    /\ Processed(pkt)
    /\ pkt.control = "syn" /\ ~pkt.ack
    /\ Pair(pkt) \notin DOMAIN pool
    /\ Cardinality(DOMAIN pool) < MaxSockets
    /\ Deliver(pkt, ListenSocket(EndpointOf(Pair(pkt).local)))

\* A timer of the library, or close(), closes the socket.
Finish(pair) ==
    /\ pool' = [pool EXCEPT ![pair] = ClosedSocket(@)]
    /\ UNCHANGED verdict

\* A dispatch removes the connection.
Remove(pair) ==
    /\ pool' = [p \in DOMAIN pool \ {pair} |-> pool[p]]
    /\ UNCHANGED verdict

Next ==
    \/ Unparsed
    \/ \E pkt \in Packets : Discard(pkt) \/ TurnAway(pkt) \/ Known(pkt) \/ Create(pkt)
    \/ \E pair \in DOMAIN pool : Finish(pair) \/ Remove(pair)

Spec == Init /\ [][Next]_ingressVars

-----------------------------------------------------------------------------
(* Properties. *)

\* The endpoints that check_acceptability compares never turn a packet away: the
\* socket that the pool finds by the converted addresses is always the one whose
\* endpoints the packet names.  Otherwise a connection would be deaf, or two
\* peers would share one.
EndpointsAgree == verdict # "wrong endpoint"

\* A socket that is connected has a peer by the test of Connection::dispatch,
\* is_specified(), which would otherwise remove the connection.
ConnectedHasPeer ==
    \A pair \in DOMAIN pool :
        pool[pair].state \in {"SynReceived", "Synchronized"}
            => /\ ~is_unspecified(pool[pair].remote.addr)
               /\ pool[pair].remote.port # 0

=============================================================================
