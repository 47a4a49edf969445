---------------------------- MODULE IngressProofs ----------------------------
(***************************************************************************)
(* The key of the pool and the endpoints of its sockets agree, for any     *)
(* hosts and ports and any number of sockets.                              *)
(***************************************************************************)
EXTENDS Ingress, TLAPS

\* A socket and the pair under which the pool keeps it.
Fits(pair, sock) ==
    /\ sock.state \in {"Listen", "SynReceived", "Synchronized", "Closed"}
    /\ sock \in Sockets
    /\ sock.listen = EndpointOf(pair.local)
    /\ sock.state = "Listen" =>
        sock.local = EndpointOf(pair.local) /\ sock.remote = Unspecified
    /\ sock.state \in {"SynReceived", "Synchronized"} =>
        /\ sock.local = EndpointOf(pair.local)
        /\ sock.remote = EndpointOf(pair.peer)
        /\ ~is_unspecified(sock.remote.addr) /\ sock.remote.port # 0

IngressInv ==
    /\ EndpointsAgree
    /\ \A pair \in DOMAIN pool : Fits(pair, pool[pair])

-----------------------------------------------------------------------------
(* Packets and sockets. *)

\* Converting an address and back gives the address.
LEMMA ConversionFaithful ==
    ASSUME NEW addr \in Address, NEW port \in Ports \cup {0}
    PROVE  EndpointOf(convert_to_socket_address(addr, port)) = [addr |-> addr, port |-> port]
  BY DEF Address, EndpointOf, convert_to_socket_address

LEMMA PairFaithful ==
    ASSUME NEW pkt \in Packets
    PROVE  /\ EndpointOf(Pair(pkt).local) = [addr |-> pkt.dst, port |-> pkt.dst_port]
           /\ EndpointOf(Pair(pkt).peer) = [addr |-> pkt.src, port |-> pkt.src_port]
  BY ConversionFaithful DEF Pair, Packets

\* The same field by field.
LEMMA PairFields ==
    ASSUME NEW pkt \in Packets
    PROVE  /\ EndpointOf(Pair(pkt).local).addr = pkt.dst
           /\ EndpointOf(Pair(pkt).local).port = pkt.dst_port
           /\ EndpointOf(Pair(pkt).peer).addr = pkt.src
           /\ EndpointOf(Pair(pkt).peer).port = pkt.src_port
<1>1. [addr |-> pkt.dst, port |-> pkt.dst_port].addr = pkt.dst
      /\ [addr |-> pkt.dst, port |-> pkt.dst_port].port = pkt.dst_port
  OBVIOUS
<1>2. [addr |-> pkt.src, port |-> pkt.src_port].addr = pkt.src
      /\ [addr |-> pkt.src, port |-> pkt.src_port].port = pkt.src_port
  OBVIOUS
<1> QED BY <1>1, <1>2, PairFaithful, Zenon

\* A packet that comes to the pool names a peer.
LEMMA SourceSpecified ==
    ASSUME NEW pkt \in Packets, Processed(pkt)
    PROVE  ~is_unspecified(pkt.src) /\ pkt.src_port # 0
  BY IngressAssumption DEF Packets, Address, Families, Processed, is_unicast, is_unspecified

\* A new socket fits the pair of its SYN.
LEMMA ListenFits ==
    ASSUME NEW pkt \in Packets
    PROVE  Fits(Pair(pkt), ListenSocket(EndpointOf(Pair(pkt).local)))
<1>1. EndpointOf(Pair(pkt).local) \in Endpoint
  <2>1. [addr |-> pkt.dst, port |-> pkt.dst_port] \in Endpoint
    BY DEF Packets, Endpoint
  <2> QED BY <2>1, PairFaithful, Zenon
<1>2. Unspecified \in Endpoint
  BY DEF Unspecified, Endpoint
<1> QED BY <1>1, <1>2 DEF Fits, ListenSocket, Sockets

\* A socket that fits its pair has the endpoints of the packets of the pair.
LEMMA FittingAccepts ==
    ASSUME NEW pkt \in Packets, NEW sock, Fits(Pair(pkt), sock), StateAccepts(sock, pkt)
    PROVE  EndpointsAccept(sock, pkt)
<1>1. EndpointOf(Pair(pkt).local).addr = pkt.dst /\ EndpointOf(Pair(pkt).local).port = pkt.dst_port
  BY PairFields
<1>2. EndpointOf(Pair(pkt).peer).addr = pkt.src /\ EndpointOf(Pair(pkt).peer).port = pkt.src_port
  BY PairFields
<1>3. Unspecified.port = 0 /\ is_unspecified(Unspecified.addr)
  BY DEF Unspecified, is_unspecified
<1> QED BY <1>1, <1>2, <1>3 DEF Fits, StateAccepts, EndpointsAccept

\* Whatever the library makes of the segment fits the pair.
LEMMA ResultsFit ==
    ASSUME NEW pkt \in Packets, Processed(pkt), NEW sock, Fits(Pair(pkt), sock),
           NEW r \in SocketResults(sock, pkt)
    PROVE  Fits(Pair(pkt), r)
<1>1. sock \in Sockets
  BY DEF Fits
<1>2. CASE sock.state = "Listen" /\ pkt.control = "syn"
  <2>1. r = [sock EXCEPT !.state = "SynReceived",
                         !.local = [addr |-> pkt.dst, port |-> pkt.dst_port],
                         !.remote = [addr |-> pkt.src, port |-> pkt.src_port]]
    BY <1>2 DEF SocketResults
  <2>2. r.state = "SynReceived" /\ r.listen = sock.listen
        /\ r.local = EndpointOf(Pair(pkt).local) /\ r.remote = EndpointOf(Pair(pkt).peer)
    BY <1>1, <2>1, PairFaithful DEF Sockets
  <2>3. r.remote.addr = pkt.src /\ r.remote.port = pkt.src_port
    BY <2>2, PairFields
  <2>4. [addr |-> pkt.dst, port |-> pkt.dst_port] \in Endpoint
        /\ [addr |-> pkt.src, port |-> pkt.src_port] \in Endpoint
    BY DEF Packets, Endpoint
  <2>5. r \in Sockets
    BY <1>1, <2>1, <2>4 DEF Sockets
  <2> QED BY <2>2, <2>3, <2>5, SourceSpecified DEF Fits
<1>3. CASE r = sock
  BY <1>3
<1>4. CASE sock.state = "SynReceived" /\ r = ListenSocket(sock.listen)
  BY <1>4, ListenFits DEF Fits
<1>5. CASE sock.state = "SynReceived" /\ r = [sock EXCEPT !.state = "Synchronized"]
  <2>1. r.state = "Synchronized" /\ r.listen = sock.listen /\ r.local = sock.local
        /\ r.remote = sock.remote /\ r \in Sockets
    BY <1>1, <1>5 DEF Sockets
  <2> QED BY <1>5, <2>1 DEF Fits
<1>6. CASE r = ClosedSocket(sock)
  <2>1. Unspecified \in Endpoint
    BY DEF Unspecified, Endpoint
  <2>2. r.state = "Closed" /\ r.listen = sock.listen /\ r \in Sockets
    BY <1>1, <1>6, <2>1 DEF ClosedSocket, Sockets
  <2> QED BY <2>2 DEF Fits
<1> QED BY <1>2, <1>3, <1>4, <1>5, <1>6 DEF SocketResults

-----------------------------------------------------------------------------
(* The invariant. *)

LEMMA IngressInvInit == Init => IngressInv
  BY DEF Init, IngressInv, EndpointsAgree

LEMMA DeliverStep ==
    ASSUME IngressInv, NEW pkt \in Packets, Processed(pkt), NEW sock,
           Fits(Pair(pkt), sock), Deliver(pkt, sock)
    PROVE  IngressInv'
<1>1. StateAccepts(sock, pkt) => EndpointsAccept(sock, pkt)
  BY FittingAccepts
<1>2. EndpointsAgree'
  BY <1>1 DEF Deliver, EndpointsAgree
<1>3. PICK r : /\ r \in SocketResults(sock, pkt) \/ r = sock
               /\ pool' = [pair \in DOMAIN pool \cup {Pair(pkt)} |->
                              IF pair = Pair(pkt) THEN r ELSE pool[pair]]
  BY DEF Deliver
<1>4. Fits(Pair(pkt), r)
  BY <1>3, ResultsFit
<1>5. \A pair \in DOMAIN pool' : Fits(pair, pool'[pair])
  BY <1>3, <1>4 DEF IngressInv
<1> QED BY <1>2, <1>5 DEF IngressInv

LEMMA IngressInvStep == IngressInv /\ [Next]_ingressVars => IngressInv'
<1> SUFFICES ASSUME IngressInv, [Next]_ingressVars PROVE IngressInv'
  OBVIOUS
<1>1. CASE Unparsed \/ UNCHANGED ingressVars
  BY <1>1 DEF Unparsed, ingressVars, IngressInv, EndpointsAgree
<1>2. ASSUME NEW pkt \in Packets, Discard(pkt) \/ TurnAway(pkt) PROVE IngressInv'
  BY <1>2 DEF Discard, TurnAway, IngressInv, EndpointsAgree
<1>3. ASSUME NEW pkt \in Packets, Known(pkt) PROVE IngressInv'
  BY <1>3, DeliverStep DEF Known, IngressInv
<1>4. ASSUME NEW pkt \in Packets, Create(pkt) PROVE IngressInv'
  BY <1>4, DeliverStep, ListenFits DEF Create
<1>5. ASSUME NEW pair \in DOMAIN pool, Finish(pair) PROVE IngressInv'
  <2>1. pool[pair] \in Sockets /\ pool[pair].listen = EndpointOf(pair.local)
    BY DEF IngressInv, Fits
  <2>2. Unspecified \in Endpoint
    BY DEF Unspecified, Endpoint
  <2>3. ClosedSocket(pool[pair]).state = "Closed" /\ ClosedSocket(pool[pair]) \in Sockets
        /\ ClosedSocket(pool[pair]).listen = pool[pair].listen
    BY <2>1, <2>2 DEF ClosedSocket, Sockets
  <2>4. Fits(pair, ClosedSocket(pool[pair]))
    BY <2>1, <2>3 DEF Fits
  <2>5. pool' = [pool EXCEPT ![pair] = ClosedSocket(pool[pair])] /\ verdict' = verdict
    BY <1>5 DEF Finish
  <2> HIDE DEF ClosedSocket
  <2>6. \A p \in DOMAIN pool' : pool'[p] = IF p = pair THEN ClosedSocket(pool[pair]) ELSE pool[p]
    BY <2>5
  <2> QED BY <2>4, <2>5, <2>6 DEF IngressInv, EndpointsAgree
<1>6. ASSUME NEW pair \in DOMAIN pool, Remove(pair) PROVE IngressInv'
  BY <1>6 DEF Remove, IngressInv, EndpointsAgree
<1> QED BY <1>1, <1>2, <1>3, <1>4, <1>5, <1>6 DEF Next

\* check_acceptability never turns a packet away for its addresses.
THEOREM EndpointsTheorem == Spec => []EndpointsAgree
<1>1. IngressInv => EndpointsAgree
  BY DEF IngressInv
<1> QED BY <1>1, IngressInvInit, IngressInvStep, PTL DEF Spec

\* A connected socket always passes for one that has a peer.
THEOREM PeerTheorem == Spec => []ConnectedHasPeer
<1>1. IngressInv => ConnectedHasPeer
  BY DEF IngressInv, ConnectedHasPeer, Fits
<1> QED BY <1>1, IngressInvInit, IngressInvStep, PTL DEF Spec

=============================================================================
