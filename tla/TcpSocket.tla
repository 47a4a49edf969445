------------------------------ MODULE TcpSocket ------------------------------
(***************************************************************************)
(* The smoltcp `TcpSocket` that every connection of the crate owns.  It is *)
(* a library and not part of the repository, so this module is an         *)
(* abstraction of it, as the crate uses it: sockets that are opened by    *)
(* listen(), never connect, never abort and have no user timeout.          *)
(*                                                                         *)
(* Data is counted in segments.  A segment that arrives has one effect    *)
(* (an acknowledgement, data, FIN, ...): a segment that carries several    *)
(* is several segments in a row.  Time is relative: a timer is the number *)
(* of ticks until it expires, 0 when it has expired and Off when it is not *)
(* armed.                                                                  *)
(***************************************************************************)
EXTENDS Integers

CONSTANTS TxCap,    \* capacity of the transmit buffer, in segments
          RxCap,    \* capacity of the receive buffer, in segments
          Rto       \* ticks until a retransmission or the end of TIME-WAIT

ASSUME TcpAssumption == /\ TxCap \in Nat \ {0}
                        /\ RxCap \in Nat \ {0}
                        /\ Rto \in Nat \ {0}

Off == -1

TcpState == {"Closed", "Listen", "SynReceived", "Established", "CloseWait",
             "LastAck", "FinWait1", "FinWait2", "Closing", "TimeWait"}

TcpFields ==
    [state  : TcpState,
     remote : BOOLEAN,      \* remote_endpoint().is_specified()
     unsent : 0..TxCap,     \* in the transmit buffer and not sent
     flight : 0..TxCap,     \* in the transmit buffer, sent, not acknowledged
     ctl    : {"none", "unsent", "flight"},   \* our SYN or our FIN
     wnd    : BOOLEAN,      \* the peer's window is open
     ack    : {"none", "window", "owed"},     \* ACK or window update due
     rx     : 0..RxCap,     \* received and not read
     timer  : Off..Rto]     \* retransmission, or the end of TIME-WAIT

Tcp == {t \in TcpFields : t.unsent + t.flight <= TxCap}

\* What poll_at() answers: egress is due now, in some ticks, or only after
\* something arrives.
Now == [kind |-> "Now", due |-> 0]
Ingress == [kind |-> "Ingress", due |-> 0]
Time(k) == [kind |-> "Time", due |-> k]
PollAt == {Now, Ingress} \cup {Time(k) : k \in 0..Rto}

-----------------------------------------------------------------------------
(* Queries. *)

may_send(t) == t.state \in {"Established", "CloseWait"}

can_send(t) == may_send(t) /\ t.unsent + t.flight < TxCap

may_recv(t) == t.state \in {"Established", "FinWait1", "FinWait2"} \/ t.rx > 0

can_recv(t) == may_recv(t) /\ t.rx > 0

SeqToTransmit(t) == \/ t.unsent > 0 /\ t.wnd
                    \/ t.unsent = 0 /\ t.ctl = "unsent"

poll_at(t) ==
    IF ~t.remote THEN Ingress
    ELSE IF SeqToTransmit(t) \/ t.ack # "none" THEN Now
    ELSE IF t.timer # Off THEN Time(t.timer)
    ELSE Ingress

-----------------------------------------------------------------------------
(* Calls of the local side. *)

\* open_socket: a socket that listens on the local address of the pair.
ListenTcp == [state |-> "Listen", remote |-> FALSE, unsent |-> 0,
              flight |-> 0, ctl |-> "none", wnd |-> TRUE, ack |-> "none",
              rx |-> 0, timer |-> Off]

\* A socket without a connection; what was received can still be read.
ClosedTcp(t) == [ListenTcp EXCEPT !.state = "Closed", !.rx = t.rx]

\* close(): a FIN is queued behind the data.  From SYN-RECEIVED the SYN that
\* is not acknowledged yet stands for the FIN, as in the library.
tcp_close(t) ==
    IF t.state = "Listen" THEN ClosedTcp(t)
    ELSE IF t.state = "SynReceived" THEN [t EXCEPT !.state = "FinWait1"]
    ELSE IF t.state = "Established"
         THEN [t EXCEPT !.state = "FinWait1", !.ctl = "unsent"]
    ELSE IF t.state = "CloseWait"
         THEN [t EXCEPT !.state = "LastAck", !.ctl = "unsent"]
    ELSE t

send_slice(t, n) == [t EXCEPT !.unsent = @ + n]

\* Reading makes room, which is announced by a window update while the peer
\* may still send.
recv_slice(t, n) ==
    [t EXCEPT !.rx = @ - n,
              !.ack = IF /\ @ = "none"
                         /\ t.state \in {"Established", "FinWait1", "FinWait2"}
                      THEN "window" ELSE @]

-----------------------------------------------------------------------------
(* Arrival of a segment: the set of possible results, each the new socket  *)
(* and whether the library answers with a packet at once.                  *)

Kinds == {"syn", "ack", "data", "fin", "rst", "stale"}

Silent(t) == [tcp |-> t, reply |-> FALSE]
Answer(t) == [tcp |-> t, reply |-> TRUE]

\* Any segment that acknowledges our SYN completes the handshake.
Handshake(t) ==
    IF t.state = "SynReceived" /\ t.ctl = "flight"
    THEN [t EXCEPT !.state = "Established", !.ctl = "none", !.timer = Off]
    ELSE t

\* n segments are acknowledged and w is the new state of the peer's window.
Acked(t, n, w) ==
    [t EXCEPT !.flight = @ - n, !.wnd = w,
              !.timer = IF n = t.flight /\ t.ctl # "flight" THEN Off ELSE @]

\* Everything up to and including our FIN is acknowledged.
FinAcked(t) ==
    IF t.state = "FinWait1"
    THEN [t EXCEPT !.state = "FinWait2", !.flight = 0, !.ctl = "none",
                   !.timer = Off]
    ELSE IF t.state = "Closing"
    THEN [t EXCEPT !.state = "TimeWait", !.flight = 0, !.ctl = "none",
                   !.timer = Rto]
    ELSE ClosedTcp(t)

\* A peer never closes a window over data it has not acknowledged.
AckResults(t) ==
    IF t.state \in {"Listen", "SynReceived", "FinWait2", "TimeWait"}
    THEN {Handshake(t)}
    ELSE {Acked(t, n, TRUE) : n \in 0..t.flight}
           \cup {Acked(t, t.flight, FALSE)}
           \cup (IF t.ctl = "flight" THEN {FinAcked(t)} ELSE {})

DataResult(t) ==
    IF t.state \in {"Established", "FinWait1", "FinWait2"}
    THEN IF t.rx < RxCap
         THEN Silent([t EXCEPT !.rx = @ + 1, !.ack = "owed"])
         ELSE Answer(t)
    ELSE IF t.state \in {"Listen", "SynReceived"} THEN Silent(t)
    ELSE Answer(t)

\* A segment outside the window is answered; it restarts TIME-WAIT.
StaleResult(t) ==
    IF t.state \in {"Listen", "SynReceived"} THEN Silent(t)
    ELSE IF t.state = "TimeWait" THEN Answer([t EXCEPT !.timer = Rto])
    ELSE Answer(t)

FinResult(t) ==
    IF t.state = "Established"
    THEN Silent([t EXCEPT !.state = "CloseWait", !.ack = "owed"])
    ELSE IF t.state = "FinWait1"
    THEN Silent([t EXCEPT !.state = "Closing", !.ack = "owed"])
    ELSE IF t.state = "FinWait2"
    THEN Silent([t EXCEPT !.state = "TimeWait", !.ack = "owed",
                          !.timer = Rto])
    ELSE StaleResult(t)

RstResult(t) ==
    IF t.state \in {"Listen", "SynReceived"} THEN Silent(ListenTcp)
    ELSE Silent(ClosedTcp(t))

SynResult(t) ==
    IF t.state = "Listen"
    THEN Silent([ListenTcp EXCEPT !.state = "SynReceived", !.remote = TRUE,
                                  !.ctl = "unsent"])
    ELSE Silent(t)

tcp_process(t, kind) ==
    CASE kind = "syn"   -> {SynResult(t)}
      [] kind = "ack"   -> {Silent(u) : u \in AckResults(t)}
      [] kind = "data"  -> {DataResult(Handshake(t))}
      [] kind = "fin"   -> {FinResult(Handshake(t))}
      [] kind = "rst"   -> {RstResult(t)}
      [] kind = "stale" -> {StaleResult(t)}

-----------------------------------------------------------------------------
(* dispatch(): emit at most one packet.                                     *)

\* When the retransmission timer has expired, start over at the oldest
\* segment that is not acknowledged.
Rewound(t) ==
    IF ~SeqToTransmit(t) /\ t.timer = 0 /\ t.state # "TimeWait"
    THEN [t EXCEPT !.unsent = @ + t.flight, !.flight = 0,
                   !.ctl = IF @ = "flight" THEN "unsent" ELSE @]
    ELSE t

\* One segment of data goes out, with the FIN if it is the last one.
EmitSeq(t) ==
    LET n == IF t.unsent > 0 THEN 1 ELSE 0
        s == [t EXCEPT !.unsent = @ - n, !.flight = @ + n, !.ack = "none",
                       !.ctl = IF t.unsent = n /\ @ = "unsent"
                               THEN "flight" ELSE @]
    IN  [s EXCEPT !.timer = IF SeqToTransmit(s) \/ @ > 0 THEN @ ELSE Rto]

tcp_dispatch(t) ==
    LET s == Rewound(t)
    IN  IF ~t.remote THEN [tcp |-> t, r |-> "Exhausted"]
        ELSE IF SeqToTransmit(s) THEN [tcp |-> EmitSeq(s), r |-> "Ok"]
        ELSE IF s.ack # "none"
             THEN [tcp |-> [s EXCEPT !.ack = "none"], r |-> "Ok"]
        ELSE IF s.state = "TimeWait" /\ s.timer = 0
             THEN [tcp |-> [ClosedTcp(s) EXCEPT !.rx = 0], r |-> "Exhausted"]
        ELSE [tcp |-> s, r |-> "Exhausted"]

=============================================================================
