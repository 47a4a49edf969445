-------------------------- MODULE ConnectionProofs ---------------------------
(***************************************************************************)
(* What the operators of TcpSocket return - sockets whose fields have      *)
(* their types and whose transmit buffer never holds more than its         *)
(* capacity - and what the methods of a connection return and leave alone. *)
(***************************************************************************)
EXTENDS Connection, TLAPS

-----------------------------------------------------------------------------
(***************************************************************************)
(* The socket.                                                             *)
(***************************************************************************)

\* poll_at answers with one of the library's three answers, and with Time only
\* when the timer is armed.
LEMMA PollAtType == ASSUME NEW t \in Tcp PROVE poll_at(t) \in PollAt
  BY TcpAssumption DEF poll_at, PollAt, Time, Tcp, TcpFields, Off

\* open_socket gives a well-formed socket.
LEMMA ListenType == ListenTcp \in Tcp
  BY TcpAssumption DEF ListenTcp, Tcp, TcpFields, TcpState, Off

\* A socket that lost its connection is well-formed.
LEMMA ClosedType == ASSUME NEW t \in Tcp PROVE ClosedTcp(t) \in Tcp
<1>1. t.rx \in 0..RxCap
  BY DEF Tcp, TcpFields
<1>2. ClosedTcp(t) \in TcpFields
  BY <1>1, ListenType DEF ClosedTcp, Tcp, TcpFields, TcpState
<1>3. ClosedTcp(t).unsent = 0 /\ ClosedTcp(t).flight = 0
  BY DEF ClosedTcp, ListenTcp
<1> QED BY <1>2, <1>3, TcpAssumption DEF Tcp

\* close() keeps the socket within its bounds.
LEMMA CloseType == ASSUME NEW t \in Tcp PROVE tcp_close(t) \in Tcp
  BY ClosedType, TcpAssumption DEF tcp_close, Tcp, TcpFields, TcpState

\* send_slice of what fits does not overflow the transmit buffer.
LEMMA SendType ==
    ASSUME NEW t \in Tcp, NEW n \in 0..(TxCap - t.unsent - t.flight)
    PROVE  send_slice(t, n) \in Tcp
  BY TcpAssumption DEF send_slice, Tcp, TcpFields

\* recv_slice of what is there does not underflow the receive buffer.
LEMMA RecvType ==
    ASSUME NEW t \in Tcp, NEW n \in 0..t.rx
    PROVE  recv_slice(t, n) \in Tcp
<1> DEFINE a == IF /\ t.ack = "none"
                   /\ t.state \in {"Established", "FinWait1", "FinWait2"}
                THEN "window" ELSE t.ack
<1>1. a \in {"none", "window", "owed"} /\ t.rx - n \in 0..RxCap
  BY TcpAssumption DEF Tcp, TcpFields
<1>2. recv_slice(t, n) = [t EXCEPT !.rx = t.rx - n, !.ack = a]
  BY DEF recv_slice, Tcp, TcpFields
<1> HIDE DEF a
<1> QED BY <1>1, <1>2 DEF Tcp, TcpFields

\* A change of what the transmit buffer and the flags hold.
LEMMA TxUpdate ==
    ASSUME NEW t \in Tcp, NEW u \in 0..TxCap, NEW f \in 0..TxCap,
           u + f <= TxCap, NEW k \in {"none", "unsent", "flight"},
           NEW a \in {"none", "window", "owed"}
    PROVE  [t EXCEPT !.unsent = u, !.flight = f, !.ctl = k, !.ack = a] \in Tcp
<1> DEFINE r == [t EXCEPT !.unsent = u, !.flight = f, !.ctl = k, !.ack = a]
<1>1. r \in TcpFields
  BY DEF Tcp, TcpFields
<1>2. r.unsent = u /\ r.flight = f
  BY DEF Tcp, TcpFields
<1> HIDE DEF r
<1>3. r \in Tcp
  BY <1>1, <1>2 DEF Tcp
<1> QED BY <1>3 DEF r

\* Starting over moves what is in flight back, and loses nothing of the bound.
LEMMA RewoundType == ASSUME NEW t \in Tcp PROVE Rewound(t) \in Tcp
<1> DEFINE k == IF t.ctl = "flight" THEN "unsent" ELSE t.ctl
<1>1. k \in {"none", "unsent", "flight"} /\ t.unsent + t.flight \in 0..TxCap
  BY TcpAssumption DEF Tcp, TcpFields
<1>2. /\ t.ack \in {"none", "window", "owed"}
      /\ 0 \in 0..TxCap /\ (t.unsent + t.flight) + 0 <= TxCap
  BY TcpAssumption DEF Tcp, TcpFields
<1> DEFINE r == [t EXCEPT !.unsent = t.unsent + t.flight, !.flight = 0,
                          !.ctl = k, !.ack = t.ack]
<1> HIDE DEF k
<1>3. r \in Tcp
  BY <1>1, <1>2, TxUpdate
<1>4. r = [t EXCEPT !.unsent = t.unsent + t.flight, !.flight = 0, !.ctl = k]
  BY DEF Tcp, TcpFields
<1> HIDE DEF r
<1> QED BY <1>3, <1>4 DEF Rewound, k

\* Emitting a segment moves it from unsent to in flight.
LEMMA EmitType == ASSUME NEW t \in Tcp PROVE EmitSeq(t) \in Tcp
<1> DEFINE n == IF t.unsent > 0 THEN 1 ELSE 0
           k == IF t.unsent = n /\ t.ctl = "unsent" THEN "flight" ELSE t.ctl
           s == [t EXCEPT !.unsent = t.unsent - n, !.flight = t.flight + n,
                          !.ctl = k, !.ack = "none"]
           m == IF SeqToTransmit(s) \/ s.timer > 0 THEN s.timer ELSE Rto
<1>1. /\ k \in {"none", "unsent", "flight"}
      /\ t.unsent - n \in 0..TxCap /\ t.flight + n \in 0..TxCap
      /\ (t.unsent - n) + (t.flight + n) <= TxCap
  BY TcpAssumption DEF Tcp, TcpFields
<1> HIDE DEF n, k
<1>2. s \in Tcp
  BY <1>1, TxUpdate
<1> HIDE DEF s
<1>3. m \in Off..Rto
  BY <1>2, TcpAssumption DEF Tcp, TcpFields, Off
<1> HIDE DEF m
<1>4. [s EXCEPT !.timer = m] \in Tcp
  BY <1>2, <1>3 DEF Tcp, TcpFields
<1>5. EmitSeq(t) = [s EXCEPT !.timer = m]
  BY <1>2 DEF EmitSeq, n, k, s, m
<1> QED BY <1>4, <1>5

\* dispatch keeps the socket within its bounds, also when it starts over after
\* the retransmission timer has expired.
LEMMA DispatchType == ASSUME NEW t \in Tcp PROVE tcp_dispatch(t).tcp \in Tcp
<1> DEFINE s == Rewound(t)
<1>1. s \in Tcp
  BY RewoundType
<1>2. EmitSeq(s) \in Tcp
  BY <1>1, EmitType
<1>3. [s EXCEPT !.ack = "none"] \in Tcp
  BY <1>1 DEF Tcp, TcpFields
<1>4. [ClosedTcp(s) EXCEPT !.rx = 0] \in Tcp
  BY <1>1, ClosedType, TcpAssumption DEF Tcp, TcpFields
<1> HIDE DEF s
<1> QED BY <1>1, <1>2, <1>3, <1>4 DEF tcp_dispatch, s

-----------------------------------------------------------------------------
(* Arrival of a segment. *)

\* The extreme values of the fields.
LEMMA Bounds == /\ Off \in Off..Rto /\ Rto \in Off..Rto
                /\ 0 \in 0..TxCap /\ 0 \in 0..RxCap
  BY TcpAssumption DEF Off

\* Completing the handshake keeps the bounds.
LEMMA HandshakeType == ASSUME NEW t \in Tcp PROVE Handshake(t) \in Tcp
<1>1. [t EXCEPT !.state = "Established", !.ctl = "none", !.timer = Off] \in Tcp
  BY Bounds DEF Tcp, TcpFields, TcpState
<1> QED BY <1>1 DEF Handshake

\* An acknowledgement of what is in flight keeps the bounds.
LEMMA AckedType ==
    ASSUME NEW t \in Tcp, NEW n \in 0..t.flight, NEW w \in BOOLEAN
    PROVE  Acked(t, n, w) \in Tcp
<1> DEFINE m == IF n = t.flight /\ t.ctl # "flight" THEN Off ELSE t.timer
           r == [t EXCEPT !.flight = t.flight - n, !.wnd = w, !.timer = m]
<1>1. m \in Off..Rto /\ t.flight - n \in 0..TxCap
  BY TcpAssumption DEF Tcp, TcpFields, Off
<1>2. r = Acked(t, n, w)
  BY DEF Acked, Tcp, TcpFields
<1> HIDE DEF m
<1>3. r \in TcpFields
  BY <1>1 DEF Tcp, TcpFields
<1>4. r.unsent = t.unsent /\ r.flight = t.flight - n
  BY DEF Tcp, TcpFields
<1>5. t.unsent + (t.flight - n) <= TxCap
  BY TcpAssumption DEF Tcp, TcpFields
<1> HIDE DEF r
<1> QED BY <1>2, <1>3, <1>4, <1>5 DEF Tcp

\* So does one of our FIN.
LEMMA FinAckedType == ASSUME NEW t \in Tcp PROVE FinAcked(t) \in Tcp
<1> DEFINE r(s, m) == [t EXCEPT !.state = s, !.flight = 0, !.ctl = "none",
                                !.timer = m]
<1>1. ASSUME NEW s \in TcpState, NEW m \in Off..Rto PROVE r(s, m) \in Tcp
  <2>1. r(s, m) \in TcpFields
    BY Bounds DEF Tcp, TcpFields
  <2>2. r(s, m).unsent = t.unsent /\ r(s, m).flight = 0
    BY DEF Tcp, TcpFields
  <2>3. t.unsent + 0 <= TxCap
    BY TcpAssumption DEF Tcp, TcpFields
  <2> HIDE DEF r
  <2> QED BY <2>1, <2>2, <2>3 DEF Tcp
<1>3. "FinWait2" \in TcpState /\ "TimeWait" \in TcpState
  BY DEF TcpState
<1>4. r("FinWait2", Off) \in Tcp /\ r("TimeWait", Rto) \in Tcp
  BY <1>1, <1>3, Bounds
<1> QED BY <1>4, ClosedType DEF FinAcked

\* So does every result of an acknowledgement.
LEMMA AckResultsType ==
    ASSUME NEW t \in Tcp, NEW u \in AckResults(t) PROVE u \in Tcp
<1>1. t.flight \in 0..t.flight
  BY DEF Tcp, TcpFields
<1> QED BY <1>1, HandshakeType, AckedType, FinAckedType DEF AckResults

\* Data that arrives is taken only while there is room.
LEMMA DataType == ASSUME NEW t \in Tcp PROVE DataResult(t).tcp \in Tcp
<1>1. ASSUME t.rx < RxCap PROVE [t EXCEPT !.rx = @ + 1, !.ack = "owed"] \in Tcp
  <2>1. t.rx + 1 \in 0..RxCap
    BY <1>1, TcpAssumption DEF Tcp, TcpFields
  <2> DEFINE n == t.rx + 1
  <2> HIDE DEF n
  <2>2. [t EXCEPT !.rx = n, !.ack = "owed"] \in Tcp
    BY <2>1 DEF Tcp, TcpFields, n
  <2> QED BY <2>2 DEF n
<1> QED BY <1>1 DEF DataResult, Silent, Answer

\* A segment outside the window changes at most the timer.
LEMMA StaleType == ASSUME NEW t \in Tcp PROVE StaleResult(t).tcp \in Tcp
<1>1. [t EXCEPT !.timer = Rto] \in Tcp
  BY TcpAssumption DEF Tcp, TcpFields, Off
<1> QED BY <1>1 DEF StaleResult, Silent, Answer

\* A FIN that arrives keeps the bounds.
LEMMA FinType == ASSUME NEW t \in Tcp PROVE FinResult(t).tcp \in Tcp
<1>1. \A s \in TcpState : [t EXCEPT !.state = s, !.ack = "owed"] \in Tcp
  BY DEF Tcp, TcpFields
<1>2. [t EXCEPT !.state = "TimeWait", !.ack = "owed", !.timer = Rto] \in Tcp
  BY Bounds DEF Tcp, TcpFields, TcpState
<1>3. "CloseWait" \in TcpState /\ "Closing" \in TcpState
  BY DEF TcpState
<1> QED BY <1>1, <1>2, <1>3, StaleType DEF FinResult, Silent

\* A SYN that arrives keeps the bounds.
LEMMA SynType == ASSUME NEW t \in Tcp PROVE SynResult(t).tcp \in Tcp
<1>1. [ListenTcp EXCEPT !.state = "SynReceived", !.remote = TRUE,
                        !.ctl = "unsent"] \in Tcp
  BY ListenType DEF Tcp, TcpFields, TcpState
<1> QED BY <1>1 DEF SynResult, Silent

\* Whatever arrives, the socket stays within its bounds.
LEMMA ProcessType ==
    ASSUME NEW t \in Tcp, NEW kind \in Kinds, NEW r \in tcp_process(t, kind)
    PROVE  r.tcp \in Tcp
<1>1. CASE kind = "syn"
  BY <1>1, SynType DEF tcp_process
<1>2. CASE kind = "ack"
  BY <1>2, AckResultsType DEF tcp_process, Silent
<1>3. CASE kind = "data"
  BY <1>3, DataType, HandshakeType DEF tcp_process
<1>4. CASE kind = "fin"
  BY <1>4, FinType, HandshakeType DEF tcp_process
<1>5. CASE kind = "rst"
  BY <1>5, ListenType, ClosedType DEF tcp_process, RstResult, Silent
<1>6. CASE kind = "stale"
  BY <1>6, StaleType DEF tcp_process
<1> QED BY <1>1, <1>2, <1>3, <1>4, <1>5, <1>6 DEF Kinds

-----------------------------------------------------------------------------
(***************************************************************************)
(* The connection.                                                         *)
(***************************************************************************)

\* The states of a half that the I/O loop never changes.
Settled == {"none", "held", "gone"}

\* From c to d no half is handed over, dropped or marked as dropped.
HalvesKept(c, d) ==
    /\ d.reader_dropped = c.reader_dropped
    /\ d.writer_dropped = c.writer_dropped
    /\ \A s \in Settled : /\ d.reader = s <=> c.reader = s
                          /\ d.writer = s <=> c.writer = s

Undisturbed(c, d) == HalvesKept(c, d) /\ d.polling_active = c.polling_active

\* d is c with its halves in the states r and w.
Moved(c, d, r, w) ==
    /\ d.reader = r /\ d.writer = w
    /\ d.reader_dropped = c.reader_dropped
    /\ d.writer_dropped = c.writer_dropped
    /\ d.polling_active = c.polling_active

\* Handing a half over or dropping it changes nothing but the half.
LEMMA HalfUpdate ==
    ASSUME NEW c \in Conn, NEW r \in Half, NEW w \in Half
    PROVE  /\ [c EXCEPT !.reader = r] \in Conn
           /\ Moved(c, [c EXCEPT !.reader = r], r, c.writer)
           /\ [c EXCEPT !.writer = w] \in Conn
           /\ Moved(c, [c EXCEPT !.writer = w], c.reader, w)
           /\ [c EXCEPT !.reader = r, !.writer = w] \in Conn
           /\ Moved(c, [c EXCEPT !.reader = r, !.writer = w], r, w)
  BY DEF Conn, Moved

\* Waking changes a half only from waiting to running.
LEMMA WokenType == ASSUME NEW half \in Half
                   PROVE  /\ Woken(half) \in Half
                          /\ \A s \in Settled : Woken(half) = s <=> half = s
  BY DEF Woken, Half, Settled

\* Waking the reader touches nothing that the account of the halves counts.
LEMMA WakeReader ==
    ASSUME NEW c \in Conn
    PROVE  /\ wake_reader(c) \in Conn /\ wake_reader(c).tcp = c.tcp
           /\ Undisturbed(c, wake_reader(c))
<1> DEFINE w == Woken(c.reader)
<1>1. w \in Half /\ \A s \in Settled : w = s <=> c.reader = s
  BY WokenType DEF Conn
<1>2. wake_reader(c) = c \/ wake_reader(c) = [c EXCEPT !.rwaker = FALSE, !.reader = w]
  BY DEF wake_reader
<1> HIDE DEF w
<1> QED BY <1>1, <1>2 DEF Conn, Undisturbed, HalvesKept

\* Waking the writer touches nothing that the account of the halves counts.
LEMMA WakeWriter ==
    ASSUME NEW c \in Conn
    PROVE  /\ wake_writer(c) \in Conn /\ wake_writer(c).tcp = c.tcp
           /\ Undisturbed(c, wake_writer(c))
<1> DEFINE w == Woken(c.writer)
<1>1. w \in Half /\ \A s \in Settled : w = s <=> c.writer = s
  BY WokenType DEF Conn
<1>2. wake_writer(c) = c \/ wake_writer(c) = [c EXCEPT !.wwaker = FALSE, !.writer = w]
  BY DEF wake_writer
<1> HIDE DEF w
<1> QED BY <1>1, <1>2 DEF Conn, Undisturbed, HalvesKept

\* Neither does wake_to_close, which may wake both.
LEMMA WakeToClose ==
    ASSUME NEW c \in Conn
    PROVE  /\ wake_to_close(c) \in Conn /\ wake_to_close(c).tcp = c.tcp
           /\ Undisturbed(c, wake_to_close(c))
<1> DEFINE r == IF may_recv(c.tcp) THEN c ELSE wake_reader(c)
<1>1. r \in Conn /\ r.tcp = c.tcp /\ Undisturbed(c, r)
  BY WakeReader DEF Undisturbed, HalvesKept
<1>2. wake_to_close(c) = IF may_send(r.tcp) THEN r ELSE wake_writer(r)
  BY DEF wake_to_close
<1> HIDE DEF r
<1>3. /\ wake_writer(r) \in Conn /\ wake_writer(r).tcp = r.tcp
      /\ Undisturbed(r, wake_writer(r))
  BY <1>1, WakeWriter
<1> QED BY <1>1, <1>2, <1>3 DEF Undisturbed, HalvesKept

\* Connection::process keeps the halves, their marks and polling_active.
LEMMA ProcessConn ==
    ASSUME NEW c \in Conn, NEW result, result.tcp \in Tcp
    PROVE  /\ ConnProcess(c, result) \in Conn
           /\ ConnProcess(c, result).tcp = result.tcp
           /\ Undisturbed(c, ConnProcess(c, result))
<1> DEFINE d == [c EXCEPT !.tcp = result.tcp]
           e == IF can_recv(d.tcp) THEN wake_reader(d) ELSE d
<1>1. d \in Conn /\ d.tcp = result.tcp /\ Undisturbed(c, d)
  BY DEF Conn, Undisturbed, HalvesKept
<1> HIDE DEF d
<1>2. e \in Conn /\ e.tcp = d.tcp /\ Undisturbed(d, e)
  BY <1>1, WakeReader DEF Undisturbed, HalvesKept
<1>3. ConnProcess(c, result) = wake_to_close(e)
  BY DEF ConnProcess, d
<1> HIDE DEF e
<1>4. /\ wake_to_close(e) \in Conn /\ wake_to_close(e).tcp = e.tcp
      /\ Undisturbed(e, wake_to_close(e))
  BY <1>2, WakeToClose
<1> QED BY <1>1, <1>2, <1>3, <1>4 DEF Undisturbed, HalvesKept

\* The answer of Connection::process to the queue is a PollAt.
LEMMA ProcessPollAtType ==
    ASSUME NEW c \in Conn, NEW queued PROVE ProcessPollAt(c, queued) \in PollAt
<1>1. poll_at(c.tcp) \in PollAt
  BY PollAtType DEF Conn
<1> QED BY <1>1 DEF ProcessPollAt, PollAt

\* The wake-ups after a dispatch keep the halves and the socket.
LEMMA DispatchWakesConn ==
    ASSUME NEW c \in Conn
    PROVE  /\ DispatchWakes(c) \in Conn /\ DispatchWakes(c).tcp = c.tcp
           /\ Undisturbed(c, DispatchWakes(c))
<1> DEFINE d == wake_to_close(c)
<1>1. d \in Conn /\ d.tcp = c.tcp /\ Undisturbed(c, d)
  BY WakeToClose
<1>2. DispatchWakes(c) = IF can_send(d.tcp) THEN wake_writer(d) ELSE d
  BY DEF DispatchWakes
<1> HIDE DEF d
<1>3. /\ wake_writer(d) \in Conn /\ wake_writer(d).tcp = d.tcp
      /\ Undisturbed(d, wake_writer(d))
  BY <1>1, WakeWriter
<1> QED BY <1>1, <1>2, <1>3 DEF Undisturbed, HalvesKept

\* A dispatch does not touch the halves, sets polling_active only together with
\* the deadline Now, and does not keep a connection without halves that no
\* deadline would bring back.
LEMMA DispatchConn ==
    ASSUME NEW c \in Conn
    PROVE  LET d == ConnDispatch(c)
           IN  /\ d.conn \in Conn /\ HalvesKept(c, d.conn)
               /\ d.poll \in PollAt
               /\ d.sent \in BOOLEAN
               /\ d.drop \in BOOLEAN
               /\ d.conn.polling_active => d.poll = Now
               /\ d.drop => both_dropped(c)
               /\ both_dropped(c) /\ ~d.drop => d.poll # Ingress
<1> DEFINE x == tcp_dispatch(c.tcp)
           p == poll_at(x.tcp)
           e == [c EXCEPT !.tcp = x.tcp]
           w == DispatchWakes(e)
           a == p = Now
           b == x.r = "Ok"
           r == Removable(c, x)
<1>1. x.tcp \in Tcp
  BY DispatchType DEF Conn
<1>2. p \in PollAt
  BY <1>1, PollAtType
<1>3. e \in Conn /\ Undisturbed(c, e)
  BY <1>1 DEF Conn, Undisturbed, HalvesKept
<1>4. ConnDispatch(c) = [conn |-> [w EXCEPT !.polling_active = a],
                         sent |-> b, poll |-> p, drop |-> r]
  BY DEF ConnDispatch, ActiveNext
<1>5. both_dropped(c) /\ ~r => p # Ingress
  BY DEF Removable
<1>6. r => both_dropped(c)
  BY DEF Removable
<1>7. r \in BOOLEAN
  BY DEF Removable, both_dropped
<1>8. a \in BOOLEAN /\ (a => p = Now) /\ b \in BOOLEAN
  OBVIOUS
<1> HIDE DEF x, p, e, a, b, r
<1>9. w \in Conn /\ Undisturbed(e, w)
  BY <1>3, DispatchWakesConn
<1> HIDE DEF w
<1>10. /\ [w EXCEPT !.polling_active = a] \in Conn
       /\ [w EXCEPT !.polling_active = a].polling_active = a
       /\ HalvesKept(c, [w EXCEPT !.polling_active = a])
  BY <1>3, <1>8, <1>9 DEF Conn, Undisturbed, HalvesKept
<1> DEFINE v == [w EXCEPT !.polling_active = a]
<1> HIDE DEF v
<1>11. /\ ConnDispatch(c).conn = v /\ ConnDispatch(c).sent = b
       /\ ConnDispatch(c).poll = p /\ ConnDispatch(c).drop = r
  BY <1>4 DEF v
<1>12. /\ v \in Conn /\ v.polling_active = a
       /\ HalvesKept(c, v)
  BY <1>10 DEF v
<1> QED BY <1>2, <1>5, <1>6, <1>7, <1>8, <1>11, <1>12

\* drop_half marks one half, and leaves a connection without halves scheduled.
LEMMA DropHalfConn ==
    ASSUME NEW c \in Conn, NEW rw \in {"Read", "Write"}
    PROVE  LET d == ConnDropHalf(c, rw)
           IN  /\ d.conn \in Conn
               /\ Undisturbed(MarkDropped(c, rw), d.conn)
               /\ d.poll \in PollAt
               /\ both_dropped(d.conn) => d.poll # Ingress
<1> DEFINE m == MarkDropped(c, rw)
           e == [m EXCEPT !.tcp = tcp_close(m.tcp)]
           p == poll_at(e.tcp)
<1>1. m \in Conn
  BY DEF MarkDropped, Conn
<1>2. tcp_close(m.tcp) \in Tcp
  BY <1>1, CloseType DEF Conn
<1>3. ConnDropHalf(c, rw) =
        IF ~m.writer_dropped THEN [conn |-> m, poll |-> Ingress]
        ELSE [conn |-> e, poll |-> IF both_dropped(e) /\ p = Ingress THEN Now ELSE p]
  BY DEF ConnDropHalf
<1> HIDE DEF m
<1>4. e \in Conn /\ Undisturbed(m, e)
  BY <1>1, <1>2 DEF Conn, Undisturbed, HalvesKept
<1>5. p \in PollAt
  BY <1>4, PollAtType DEF Conn
<1>6. Now \in PollAt /\ Ingress \in PollAt /\ Now # Ingress
  BY DEF PollAt, Now, Ingress
<1>7. Undisturbed(m, m)
  BY DEF Undisturbed, HalvesKept
<1> HIDE DEF e, p
<1> QED BY <1>1, <1>3, <1>4, <1>5, <1>6, <1>7 DEF both_dropped, m

-----------------------------------------------------------------------------
(* Methods that the application calls. *)

\* A read changes a half that is in use to another state of use.
LEMMA PollReadConn ==
    ASSUME NEW c \in Conn, c.reader \in Running, NEW n \in 0..c.tcp.rx
    PROVE  ConnPollRead(c, n) \in Conn /\ Undisturbed(c, ConnPollRead(c, n))
<1>1. recv_slice(c.tcp, n) \in Tcp
  BY RecvType DEF Conn
<1> DEFINE f == IF c.eof_reached THEN "failed" ELSE "run"
<1>2. f \in Running
  BY DEF Running
<1>3. ConnPollRead(c, n) \in {[c EXCEPT !.tcp = recv_slice(c.tcp, n), !.reader = "run"],
                             [c EXCEPT !.rwaker = TRUE, !.reader = "wait"],
                             [c EXCEPT !.eof_reached = TRUE, !.reader = f]}
  BY DEF ConnPollRead
<1> HIDE DEF f
<1> QED BY <1>1, <1>2, <1>3
        DEF Conn, Half, Running, Settled, Undisturbed, HalvesKept

\* A write that fits into the buffer does so too.
LEMMA PollWriteConn ==
    ASSUME NEW c \in Conn, c.writer \in Running,
           NEW n \in 0..(TxCap - c.tcp.unsent - c.tcp.flight)
    PROVE  ConnPollWrite(c, n) \in Conn /\ Undisturbed(c, ConnPollWrite(c, n))
<1>1. send_slice(c.tcp, n) \in Tcp
  BY SendType DEF Conn
<1>2. ConnPollWrite(c, n) \in {[c EXCEPT !.tcp = send_slice(c.tcp, n), !.writer = "run"],
                              [c EXCEPT !.writer = "failed"],
                              [c EXCEPT !.wwaker = TRUE, !.writer = "wait"]}
  BY DEF ConnPollWrite
<1> QED BY <1>1, <1>2
        DEF Conn, Half, Running, Settled, Undisturbed, HalvesKept

\* So does poll_close.
LEMMA PollCloseConn ==
    ASSUME NEW c \in Conn, c.writer \in Running
    PROVE  ConnPollClose(c) \in Conn /\ Undisturbed(c, ConnPollClose(c))
<1>1. tcp_close(c.tcp) \in Tcp
  BY CloseType DEF Conn
<1>2. ConnPollClose(c) = [c EXCEPT !.tcp = tcp_close(c.tcp), !.writer = "run"]
  BY DEF ConnPollClose
<1> QED BY <1>1, <1>2
        DEF Conn, Half, Running, Settled, Undisturbed, HalvesKept

\* A new connection and the absence of one have nothing dropped or active.
LEMMA NewConnType ==
    /\ NewConn \in Conn /\ NoConn \in Conn
    /\ NewConn.reader = "held" /\ NewConn.writer = "held"
    /\ NoConn.reader = "none" /\ NoConn.writer = "none"
    /\ ~NewConn.reader_dropped /\ ~NewConn.writer_dropped
    /\ ~NoConn.reader_dropped /\ ~NoConn.writer_dropped
    /\ ~NewConn.polling_active /\ ~NoConn.polling_active
  BY ListenType DEF NewConn, NoConn, Conn, Half

=============================================================================
