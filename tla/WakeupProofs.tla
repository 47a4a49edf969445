---------------------------- MODULE WakeupProofs -----------------------------
(***************************************************************************)
(* No work and no wake-up is lost: for any number of pairs, any buffer      *)
(* sizes, any kinds of segments and any bounds, whoever waits is woken by  *)
(* what it waits for, and what is to be sent is in line for a dispatch.    *)
(***************************************************************************)
EXTENDS UstunetProofs

-----------------------------------------------------------------------------
(* The socket. *)

\* How the fields of a socket belong together: without a peer there is nothing
\* to do, there is no data before the handshake is over, and what is in
\* flight has a timer unless there is more to send.
Coherent(t) ==
    /\ ~t.remote => /\ t.state \in {"Closed", "Listen"}
                    /\ t.unsent = 0 /\ t.ctl = "none"
                    /\ t.ack = "none" /\ t.timer = Off
    /\ t.state = "SynReceived" => t.unsent = 0 /\ t.flight = 0
    /\ t.flight > 0 => t.timer # Off \/ (t.unsent > 0 /\ t.wnd)

\* A socket that has nothing to send and no timer says so: poll_at answers
\* Ingress only if there is no work.
LEMMA IngressIsIdle ==
    ASSUME NEW t \in Tcp, Coherent(t), poll_at(t) = Ingress
    PROVE  ~TxWork(t)
  BY DEF Tcp, TcpFields, Coherent, poll_at, Ingress, Now, Time, TxWork,
         SeqToTransmit

\* A socket that listens and one that is closed are coherent and idle.
LEMMA UnconnectedCoherent ==
    ASSUME NEW t \in Tcp
    PROVE  /\ Coherent(ListenTcp) /\ ~TxWork(ListenTcp)
           /\ Coherent(ClosedTcp(t)) /\ ~TxWork(ClosedTcp(t))
  BY DEF Coherent, ListenTcp, ClosedTcp, TxWork, SeqToTransmit, Off

\* close() keeps the socket coherent.  It leaves what was received, and a reader
\* that may wait goes on waiting: only the sending side is closed.
LEMMA CloseCoherent ==
    ASSUME NEW t \in Tcp, Coherent(t)
    PROVE  /\ Coherent(tcp_close(t))
           /\ can_recv(tcp_close(t)) <=> can_recv(t)
           /\ may_recv(t) \/ t.state = "SynReceived" => may_recv(tcp_close(t))
           /\ ~may_send(tcp_close(t))
<1> USE DEF Tcp, TcpFields
<1>1. CASE t.state = "Listen"
  BY <1>1 DEF tcp_close, ClosedTcp, ListenTcp, Coherent, can_recv, may_recv, may_send
<1>2. CASE t.state = "SynReceived"
  BY <1>2 DEF tcp_close, Coherent, can_recv, may_recv, may_send
<1>3. CASE t.state = "Established"
  BY <1>3 DEF tcp_close, Coherent, can_recv, may_recv, may_send
<1>4. CASE t.state = "CloseWait"
  BY <1>4 DEF tcp_close, Coherent, can_recv, may_recv, may_send
<1>5. CASE t.state \notin {"Listen", "SynReceived", "Established", "CloseWait"}
  BY <1>5 DEF tcp_close, Coherent, can_recv, may_recv, may_send
<1> QED BY <1>1, <1>2, <1>3, <1>4, <1>5

\* Data that is put into the buffer of an open connection keeps it coherent.
LEMMA SendCoherent ==
    ASSUME NEW t \in Tcp, Coherent(t), may_send(t), NEW n \in Nat
    PROVE  Coherent(send_slice(t, n))
  BY DEF Tcp, TcpFields, Coherent, may_send, send_slice

\* Reading makes no work for the queue: a window update is not counted.
LEMMA RecvCoherent ==
    ASSUME NEW t \in Tcp, Coherent(t), NEW n \in 0..t.rx
    PROVE  /\ Coherent(recv_slice(t, n))
           /\ TxWork(recv_slice(t, n)) <=> TxWork(t)
           /\ may_send(recv_slice(t, n)) <=> may_send(t)
           /\ can_send(recv_slice(t, n)) <=> can_send(t)
<1> DEFINE a == IF t.ack = "none" /\ t.state \in {"Established", "FinWait1", "FinWait2"}
                THEN "window" ELSE t.ack
<1>1. recv_slice(t, n) = [t EXCEPT !.rx = t.rx - n, !.ack = a]
  BY DEF recv_slice, Tcp, TcpFields
<1>2. (a = "owed" <=> t.ack = "owed") /\ (~t.remote => a = t.ack)
  BY DEF Coherent
<1> HIDE DEF a
<1> QED BY <1>1, <1>2 DEF Tcp, TcpFields, Coherent, TxWork, SeqToTransmit,
                          may_send, can_send

\* Going back to the oldest segment keeps the socket coherent.
LEMMA RewoundCoherent ==
    ASSUME NEW t \in Tcp, Coherent(t)
    PROVE  /\ Coherent(Rewound(t))
           /\ Rewound(t).rx = t.rx /\ Rewound(t).state = t.state
           /\ Rewound(t).remote = t.remote
<1> DEFINE k == IF t.ctl = "flight" THEN "unsent" ELSE t.ctl
<1>1. CASE ~SeqToTransmit(t) /\ t.timer = 0 /\ t.state # "TimeWait"
  <2>1. Rewound(t) = [t EXCEPT !.unsent = t.unsent + t.flight, !.flight = 0,
                               !.ctl = k]
    BY <1>1 DEF Rewound, Tcp, TcpFields
  <2>2. t.remote
    BY <1>1 DEF Coherent, Off
  <2> DEFINE n == t.unsent + t.flight
  <2>3. t.state = "SynReceived" => n = 0
    BY DEF Coherent
  <2> HIDE DEF k, n
  <2>4. Rewound(t) = [t EXCEPT !.unsent = n, !.flight = 0, !.ctl = k]
    BY <2>1 DEF n
  <2>5. /\ Rewound(t).unsent = n /\ Rewound(t).flight = 0
        /\ Rewound(t).rx = t.rx /\ Rewound(t).state = t.state
        /\ Rewound(t).remote = t.remote
    BY <2>4 DEF Tcp, TcpFields
  <2> QED BY <2>2, <2>3, <2>5 DEF Coherent
<1>2. CASE ~(~SeqToTransmit(t) /\ t.timer = 0 /\ t.state # "TimeWait")
  BY <1>2 DEF Rewound
<1> QED BY <1>1, <1>2

\* After a segment has gone out the timer runs, unless more is to follow at once.
LEMMA EmitCoherent ==
    ASSUME NEW t \in Tcp, Coherent(t), t.remote, SeqToTransmit(t)
    PROVE  /\ Coherent(EmitSeq(t))
           /\ EmitSeq(t).rx = t.rx /\ EmitSeq(t).state = t.state
           /\ EmitSeq(t).remote = t.remote
<1> DEFINE n == IF t.unsent > 0 THEN 1 ELSE 0
           k == IF t.unsent = n /\ t.ctl = "unsent" THEN "flight" ELSE t.ctl
           s == [t EXCEPT !.unsent = t.unsent - n, !.flight = t.flight + n,
                          !.ack = "none", !.ctl = k]
           m == IF SeqToTransmit(s) \/ t.timer > 0 THEN t.timer ELSE Rto
<1>1. EmitSeq(t) = [s EXCEPT !.timer = m]
  BY DEF EmitSeq, Tcp, TcpFields
<1>2. /\ n \in {0, 1} /\ t.unsent \in Nat /\ t.flight \in Nat
      /\ t.unsent > 0 <=> n = 1
  BY DEF Tcp, TcpFields
<1>3. /\ s.unsent = t.unsent - n /\ s.flight = t.flight + n /\ s.wnd = t.wnd
      /\ s.ctl = k /\ s.state = t.state /\ s.remote = t.remote /\ s.rx = t.rx
  BY DEF Tcp, TcpFields
<1>4. m = Off => s.unsent > 0 /\ s.wnd
  <2>1. ASSUME m = Off PROVE SeqToTransmit(s)
    BY <2>1, TcpAssumption DEF Off
  <2>2. s.unsent = 0 => s.ctl # "unsent"
    BY <1>2, <1>3
  <2> HIDE DEF m, s, k, n
  <2> QED BY <2>1, <2>2 DEF SeqToTransmit
<1>5. s.state = "SynReceived" => s.unsent = 0 /\ s.flight = 0
  BY <1>2, <1>3 DEF Coherent
<1> DEFINE u == [s EXCEPT !.timer = m]
<1>6. /\ u.unsent = s.unsent /\ u.flight = s.flight /\ u.wnd = s.wnd
      /\ u.state = s.state /\ u.remote = s.remote /\ u.rx = s.rx /\ u.timer = m
  BY DEF Tcp, TcpFields
<1> HIDE DEF u, s, m, k, n
<1>7. EmitSeq(t) = u
  BY <1>1 DEF u
<1> QED BY <1>3, <1>4, <1>5, <1>6, <1>7 DEF Coherent

\* A dispatch keeps the socket coherent and receives nothing.
LEMMA DispatchCoherent ==
    ASSUME NEW t \in Tcp, Coherent(t)
    PROVE  /\ Coherent(tcp_dispatch(t).tcp)
           /\ can_recv(tcp_dispatch(t).tcp) => can_recv(t)
<1> DEFINE s == Rewound(t)
           v == [s EXCEPT !.ack = "none"]
           z == [ClosedTcp(s) EXCEPT !.rx = 0]
<1>1. /\ s \in Tcp /\ Coherent(s)
      /\ s.rx = t.rx /\ s.state = t.state /\ s.remote = t.remote
  BY RewoundType, RewoundCoherent
<1>2. \A u : u.rx = t.rx /\ u.state = t.state => (can_recv(u) <=> can_recv(t))
  BY DEF can_recv, may_recv
<1>3. tcp_dispatch(t).tcp =
        IF ~t.remote THEN t
        ELSE IF SeqToTransmit(s) THEN EmitSeq(s)
        ELSE IF s.ack # "none" THEN v
        ELSE IF s.state = "TimeWait" /\ s.timer = 0 THEN z ELSE s
  BY DEF tcp_dispatch
<1> HIDE DEF s
<1>4. CASE ~t.remote
  BY <1>3, <1>4
<1>5. CASE t.remote /\ SeqToTransmit(s)
  <2>1. Coherent(EmitSeq(s)) /\ EmitSeq(s).rx = t.rx /\ EmitSeq(s).state = t.state
    BY <1>1, <1>5, EmitCoherent
  <2> QED BY <1>2, <1>3, <1>5, <2>1
<1>6. CASE t.remote /\ ~SeqToTransmit(s) /\ s.ack # "none"
  <2>1. Coherent(v) /\ v.rx = t.rx /\ v.state = t.state
    BY <1>1, <1>6 DEF Coherent, Tcp, TcpFields
  <2> HIDE DEF v
  <2> QED BY <1>2, <1>3, <1>6, <2>1
<1>7. CASE /\ t.remote /\ ~SeqToTransmit(s) /\ s.ack = "none"
           /\ s.state = "TimeWait" /\ s.timer = 0
  <2>1. Coherent(z) /\ ~can_recv(z)
    BY DEF Coherent, ClosedTcp, ListenTcp, can_recv, may_recv
  <2> HIDE DEF z
  <2> QED BY <1>3, <1>7, <2>1
<1>8. CASE /\ t.remote /\ ~SeqToTransmit(s) /\ s.ack = "none"
           /\ ~(s.state = "TimeWait" /\ s.timer = 0)
  BY <1>1, <1>2, <1>3, <1>8
<1> QED BY <1>4, <1>5, <1>6, <1>7, <1>8

\* The handshake ends before there is data.
LEMMA HandshakeCoherent ==
    ASSUME NEW t \in Tcp, Coherent(t)
    PROVE  /\ Coherent(Handshake(t))
           /\ may_send(t) => Handshake(t) = t
  BY DEF Tcp, TcpFields, Coherent, Handshake, may_send

\* What a segment may do to a socket that is written: it stays coherent, and
\* room comes only from an acknowledgement of something in flight.
Answered(t, u) ==
    /\ Coherent(u)
    /\ may_send(t) /\ ~can_send(t) /\ can_send(u) => TxWork(t)

\* A socket in which neither the buffer nor the window has changed.
LEMMA AnsweredSame ==
    ASSUME NEW t \in Tcp, NEW u, Coherent(u), u.unsent = t.unsent, u.flight = t.flight
    PROVE  Answered(t, u)
  BY DEF Answered, can_send

\* An acknowledgement frees room only for segments that were in flight, and for
\* those a timer ran or more was to be sent.
LEMMA AckedAnswered ==
    ASSUME NEW t \in Tcp, Coherent(t), NEW n \in 0..t.flight, NEW w \in BOOLEAN,
           n = t.flight \/ w
    PROVE  Answered(t, Acked(t, n, w))
<1> DEFINE m == IF n = t.flight /\ t.ctl # "flight" THEN Off ELSE t.timer
           u == [t EXCEPT !.flight = t.flight - n, !.wnd = w, !.timer = m]
<1>1. Acked(t, n, w) = u
  BY DEF Acked, Tcp, TcpFields
<1>2. /\ u.flight = t.flight - n /\ u.wnd = w /\ u.timer = m
      /\ u.unsent = t.unsent /\ u.state = t.state /\ u.remote = t.remote
      /\ u.ctl = t.ctl /\ u.ack = t.ack
  BY DEF Tcp, TcpFields
<1>3. t.flight \in Nat /\ t.unsent \in Nat /\ n \in Nat
  BY DEF Tcp, TcpFields
<1>4. (t.timer = Off => m = Off) /\ (n # t.flight => m = t.timer)
  OBVIOUS
<1> HIDE DEF u, m
<1>5. Coherent(u)
  BY <1>2, <1>3, <1>4 DEF Coherent
<1>6. may_send(t) /\ ~can_send(t) /\ can_send(u) => t.flight > 0
  BY <1>2, <1>3 DEF can_send, may_send
<1>7. t.flight > 0 => TxWork(t)
  BY DEF Coherent, TxWork, SeqToTransmit
<1> QED BY <1>1, <1>5, <1>6, <1>7 DEF Answered

\* An acknowledgement of our FIN ends the sending side.
LEMMA FinAckedAnswered ==
    ASSUME NEW t \in Tcp, Coherent(t), t.ctl = "flight"
    PROVE  Answered(t, FinAcked(t))
<1> DEFINE f(s, m) == [t EXCEPT !.state = s, !.flight = 0, !.ctl = "none",
                                !.timer = m]
<1>1. t.remote
  BY DEF Coherent
<1>2. ASSUME NEW s \in {"FinWait2", "TimeWait"}, NEW m
      PROVE  Coherent(f(s, m)) /\ ~may_send(f(s, m))
  BY <1>1 DEF Coherent, may_send, Tcp, TcpFields
<1>3. Coherent(ClosedTcp(t)) /\ ~may_send(ClosedTcp(t))
  BY UnconnectedCoherent DEF ClosedTcp, ListenTcp, may_send
<1>4. \/ FinAcked(t) = f("FinWait2", Off) \/ FinAcked(t) = f("TimeWait", Rto)
      \/ FinAcked(t) = ClosedTcp(t)
  BY DEF FinAcked
<1> HIDE DEF f
<1>5. Coherent(FinAcked(t)) /\ ~may_send(FinAcked(t))
  BY <1>2, <1>3, <1>4
<1> QED BY <1>5 DEF Answered, can_send

\* So does every result of an acknowledgement.
LEMMA AckAnswered ==
    ASSUME NEW t \in Tcp, Coherent(t), NEW u \in AckResults(t)
    PROVE  Answered(t, u)
<1>1. CASE u = Handshake(t)
  <2>1. Coherent(Handshake(t)) /\ (may_send(t) => Handshake(t) = t)
    BY HandshakeCoherent
  <2> QED BY <1>1, <2>1 DEF Answered
<1>2. ASSUME NEW n \in 0..t.flight, u = Acked(t, n, TRUE) PROVE Answered(t, u)
  BY <1>2, AckedAnswered
<1>3. CASE u = Acked(t, t.flight, FALSE)
  <2>1. t.flight \in 0..t.flight
    BY DEF Tcp, TcpFields
  <2> QED BY <1>3, <2>1, AckedAnswered
<1>4. CASE t.ctl = "flight" /\ u = FinAcked(t)
  BY <1>4, FinAckedAnswered
<1> QED BY <1>1, <1>2, <1>3, <1>4 DEF AckResults

\* Data that arrives does not touch the transmit buffer.
LEMMA DataAnswered ==
    ASSUME NEW t \in Tcp, Coherent(t) PROVE Answered(t, DataResult(t).tcp)
<1> DEFINE n == t.rx + 1
           u == [t EXCEPT !.rx = n, !.ack = "owed"]
<1>1. \/ DataResult(t).tcp = t
      \/ DataResult(t).tcp = u /\ t.state \in {"Established", "FinWait1", "FinWait2"}
  BY DEF DataResult, Silent, Answer, Tcp, TcpFields
<1> HIDE DEF n
<1>2. ASSUME t.state \in {"Established", "FinWait1", "FinWait2"}
      PROVE  Coherent(u) /\ u.unsent = t.unsent /\ u.flight = t.flight
  BY <1>2 DEF Coherent, Tcp, TcpFields
<1> HIDE DEF u
<1> QED BY <1>1, <1>2, AnsweredSame

\* Neither does a segment outside the window.
LEMMA StaleAnswered ==
    ASSUME NEW t \in Tcp, Coherent(t) PROVE Answered(t, StaleResult(t).tcp)
<1> DEFINE u == [t EXCEPT !.timer = Rto]
<1>1. \/ StaleResult(t).tcp = t
      \/ StaleResult(t).tcp = u /\ t.state = "TimeWait"
  BY DEF StaleResult, Silent, Answer
<1>2. ASSUME t.state = "TimeWait"
      PROVE  Coherent(u) /\ u.unsent = t.unsent /\ u.flight = t.flight
  BY <1>2, TcpAssumption DEF Coherent, Tcp, TcpFields, Off
<1> HIDE DEF u
<1> QED BY <1>1, <1>2, AnsweredSame

\* Nor a FIN.
LEMMA FinAnswered ==
    ASSUME NEW t \in Tcp, Coherent(t) PROVE Answered(t, FinResult(t).tcp)
<1> DEFINE u(s) == [t EXCEPT !.state = s, !.ack = "owed"]
           z == [t EXCEPT !.state = "TimeWait", !.ack = "owed", !.timer = Rto]
<1>1. CASE t.state \in {"Established", "FinWait1"}
  <2>1. PICK s \in {"CloseWait", "Closing"} : FinResult(t).tcp = u(s)
    BY <1>1 DEF FinResult, Silent
  <2>2. Coherent(u(s)) /\ u(s).unsent = t.unsent /\ u(s).flight = t.flight
    BY <1>1 DEF Coherent, Tcp, TcpFields
  <2> HIDE DEF u
  <2> QED BY <2>1, <2>2, AnsweredSame
<1>2. CASE t.state = "FinWait2"
  <2>1. FinResult(t).tcp = z
    BY <1>2 DEF FinResult, Silent
  <2>2. Coherent(z) /\ z.unsent = t.unsent /\ z.flight = t.flight
    BY <1>2, TcpAssumption DEF Coherent, Tcp, TcpFields, Off
  <2> HIDE DEF z
  <2> QED BY <2>1, <2>2, AnsweredSame
<1>3. CASE t.state \notin {"Established", "FinWait1", "FinWait2"}
  <2>1. FinResult(t) = StaleResult(t)
    BY <1>3 DEF FinResult
  <2> QED BY <2>1, StaleAnswered
<1> QED BY <1>1, <1>2, <1>3

\* Whatever arrives, the socket stays coherent, and room for a writer comes only
\* from work that was under way.
LEMMA ProcessAnswered ==
    ASSUME NEW t \in Tcp, Coherent(t), NEW kind \in Kinds,
           NEW r \in tcp_process(t, kind)
    PROVE  Answered(t, r.tcp)
<1>1. CASE kind = "syn"
  <2> DEFINE s == [ListenTcp EXCEPT !.state = "SynReceived",
                                    !.remote = TRUE, !.ctl = "unsent"]
  <2>1. r.tcp = t \/ r.tcp = s
    BY <1>1 DEF tcp_process, SynResult, Silent
  <2>2. Coherent(s) /\ ~may_send(s)
    BY DEF Coherent, ListenTcp, may_send
  <2> HIDE DEF s
  <2> QED BY <2>1, <2>2 DEF Answered, can_send
<1>2. CASE kind = "ack"
  BY <1>2, AckAnswered DEF tcp_process, Silent
<1>3. CASE kind \in {"data", "fin"}
  <2> DEFINE u == Handshake(t)
  <2>1. u \in Tcp /\ Coherent(u) /\ (may_send(t) => u = t)
    BY HandshakeType, HandshakeCoherent
  <2>2. r = DataResult(u) \/ r = FinResult(u)
    BY <1>3 DEF tcp_process
  <2> HIDE DEF u
  <2>3. Answered(u, r.tcp)
    BY <2>1, <2>2, DataAnswered, FinAnswered
  <2> QED BY <2>1, <2>3 DEF Answered
<1>4. CASE kind = "rst"
  <2>1. r.tcp = ListenTcp \/ r.tcp = ClosedTcp(t)
    BY <1>4 DEF tcp_process, RstResult, Silent
  <2>2. /\ Coherent(ListenTcp) /\ ~may_send(ListenTcp)
        /\ Coherent(ClosedTcp(t)) /\ ~may_send(ClosedTcp(t))
    BY UnconnectedCoherent DEF ClosedTcp, ListenTcp, may_send
  <2> QED BY <2>1, <2>2 DEF Answered, can_send
<1>5. CASE kind = "stale"
  BY <1>5, StaleAnswered DEF tcp_process
<1> QED BY <1>1, <1>2, <1>3, <1>4, <1>5 DEF Kinds

\* Time passes: the timer of a socket comes closer but is not switched off, and
\* nothing else changes.
LEMMA TickCoherent ==
    ASSUME NEW t \in Tcp, Coherent(t)
    PROVE  LET u == [t EXCEPT !.timer = Closer(t.timer)]
           IN  /\ Coherent(u) /\ (TxWork(u) <=> TxWork(t))
               /\ u.state = t.state /\ u.rx = t.rx
               /\ u.unsent = t.unsent /\ u.flight = t.flight
               /\ t = ListenTcp => u = ListenTcp
<1> DEFINE m == Closer(t.timer)
           u == [t EXCEPT !.timer = m]
<1>1. m = Off <=> t.timer = Off
  BY CloserType DEF Tcp, TcpFields
<1> HIDE DEF m
<1>2. /\ Coherent(u) /\ (TxWork(u) <=> TxWork(t))
      /\ u.state = t.state /\ u.rx = t.rx
      /\ u.unsent = t.unsent /\ u.flight = t.flight
  BY <1>1 DEF Coherent, TxWork, SeqToTransmit, Tcp, TcpFields
<1>3. t.timer = Off => u = t
  BY <1>1 DEF Tcp, TcpFields
<1>4. ListenTcp.timer = Off
  BY DEF ListenTcp
<1> QED BY <1>2, <1>3, <1>4 DEF m

-----------------------------------------------------------------------------
(* The connection. *)

\* The I/O loop marks a half as dropped only if the application has dropped it.
Marked(c) == /\ c.reader_dropped => c.reader = "gone"
             /\ c.writer_dropped => c.writer = "gone"

\* Whoever waits has left a waker and waits for something that can still come.
\* Only a call with an empty buffer waits for what is already there.
Waiting(c) ==
    /\ c.reader = "wait" => /\ c.rwaker
                            /\ MinBuf = 1 => ~can_recv(c.tcp)
                            /\ may_recv(c.tcp) \/ c.tcp.state = "SynReceived"
    /\ c.writer = "wait" => c.wwaker /\ may_send(c.tcp)

\* The connection has to be dispatched: to send something, or to wake a writer
\* that there is room for.
Needs(c) ==
    \/ TxWork(c.tcp)
    \/ MinBuf = 1 /\ c.writer = "wait" /\ can_send(c.tcp)

\* A half that waits can be woken.
Wakeable(c) == /\ c.reader = "wait" => c.rwaker /\ ~c.reader_dropped
               /\ c.writer = "wait" => c.wwaker /\ ~c.writer_dropped

\* Waking a reader that waits ends its waiting.
LEMMA WakeReaderEnds ==
    ASSUME NEW c \in Conn, Wakeable(c)
    PROVE  LET d == wake_reader(c)
           IN  /\ d.reader # "wait" /\ d.writer = c.writer /\ Wakeable(d)
               /\ d \in Conn /\ d.tcp = c.tcp
<1> DEFINE w == Woken(c.reader)
           d == [c EXCEPT !.rwaker = FALSE, !.reader = w]
<1>1. w # "wait"
  BY DEF Woken
<1>2. CASE ~c.reader_dropped /\ c.rwaker
  <2>1. wake_reader(c) = d
    BY <1>2 DEF wake_reader
  <2> HIDE DEF w
  <2>2. d.reader # "wait" /\ d.writer = c.writer /\ Wakeable(d)
    BY <1>1 DEF Conn, Wakeable
  <2> HIDE DEF d
  <2> QED BY <2>1, <2>2, WakeReader
<1>3. CASE ~(~c.reader_dropped /\ c.rwaker)
  <2>1. wake_reader(c) = c
    BY <1>3 DEF wake_reader
  <2> QED BY <1>3, <2>1 DEF Wakeable
<1> QED BY <1>2, <1>3

\* Waking a writer that waits ends its waiting.
LEMMA WakeWriterEnds ==
    ASSUME NEW c \in Conn, Wakeable(c)
    PROVE  LET d == wake_writer(c)
           IN  /\ d.writer # "wait" /\ d.reader = c.reader /\ Wakeable(d)
               /\ d \in Conn /\ d.tcp = c.tcp
<1> DEFINE w == Woken(c.writer)
           d == [c EXCEPT !.wwaker = FALSE, !.writer = w]
<1>1. w # "wait"
  BY DEF Woken
<1>2. CASE ~c.writer_dropped /\ c.wwaker
  <2>1. wake_writer(c) = d
    BY <1>2 DEF wake_writer
  <2> HIDE DEF w
  <2>2. d.writer # "wait" /\ d.reader = c.reader /\ Wakeable(d)
    BY <1>1 DEF Conn, Wakeable
  <2> HIDE DEF d
  <2> QED BY <2>1, <2>2, WakeWriter
<1>3. CASE ~(~c.writer_dropped /\ c.wwaker)
  <2>1. wake_writer(c) = c
    BY <1>3 DEF wake_writer
  <2> QED BY <1>3, <2>1 DEF Wakeable
<1> QED BY <1>2, <1>3

\* wake_to_close leaves only those waiting who can still be served, and makes
\* nobody wait.
LEMMA WakeToCloseEnds ==
    ASSUME NEW c \in Conn, Wakeable(c)
    PROVE  LET d == wake_to_close(c)
           IN  /\ d.reader = "wait" => c.reader = "wait" /\ may_recv(c.tcp)
               /\ d.writer = "wait" => c.writer = "wait" /\ may_send(c.tcp)
               /\ Wakeable(d) /\ d \in Conn /\ d.tcp = c.tcp
<1> DEFINE r == IF may_recv(c.tcp) THEN c ELSE wake_reader(c)
<1>1. /\ r \in Conn /\ r.tcp = c.tcp /\ Wakeable(r) /\ r.writer = c.writer
      /\ r.reader = "wait" => c.reader = "wait" /\ may_recv(c.tcp)
  BY WakeReaderEnds
<1>2. wake_to_close(c) = IF may_send(r.tcp) THEN r ELSE wake_writer(r)
  BY DEF wake_to_close
<1> HIDE DEF r
<1>3. /\ wake_writer(r) \in Conn /\ wake_writer(r).tcp = r.tcp
      /\ wake_writer(r).writer # "wait" /\ wake_writer(r).reader = r.reader
      /\ Wakeable(wake_writer(r))
  BY <1>1, WakeWriterEnds
<1>4. CASE may_send(r.tcp)
  BY <1>1, <1>2, <1>4
<1>5. CASE ~may_send(r.tcp)
  BY <1>1, <1>2, <1>3, <1>5
<1> QED BY <1>4, <1>5

\* Connection::process wakes the reader for data and for the end of the stream,
\* and the writer when the connection can no longer be written.  If there is
\* room for a writer afterwards, and the socket asks for nothing, then the
\* connection had to be dispatched before.
LEMMA ProcessAttends ==
    ASSUME NEW c \in Conn, Marked(c), Waiting(c), Coherent(c.tcp),
           NEW kind \in Kinds, NEW result \in tcp_process(c.tcp, kind)
    PROVE  LET d == ConnProcess(c, result)
           IN  /\ d \in Conn /\ d.tcp = result.tcp
               /\ Coherent(d.tcp) /\ Waiting(d)
               /\ poll_at(d.tcp) = Ingress /\ Needs(d) => Needs(c)
<1> DEFINE b == [c EXCEPT !.tcp = result.tcp]
           e == IF can_recv(b.tcp) THEN wake_reader(b) ELSE b
           d == wake_to_close(e)
<1>1. c.tcp \in Tcp /\ result.tcp \in Tcp
  BY ProcessType DEF Conn
<1>2. Answered(c.tcp, result.tcp)
  BY <1>1, ProcessAnswered
<1>3. /\ b \in Conn /\ b.tcp = result.tcp /\ Wakeable(b)
      /\ b.reader = c.reader /\ b.writer = c.writer
  BY <1>1 DEF Conn, Wakeable, Marked, Waiting
<1>4. ConnProcess(c, result) = d
  BY DEF ConnProcess
<1> HIDE DEF b
<1>5. /\ e \in Conn /\ e.tcp = result.tcp /\ Wakeable(e)
      /\ e.reader = "wait" => c.reader = "wait" /\ ~can_recv(result.tcp)
      /\ e.writer = c.writer
  BY <1>3, WakeReaderEnds
<1> HIDE DEF e
<1>6. /\ d \in Conn /\ d.tcp = result.tcp /\ Wakeable(d)
      /\ d.reader = "wait" => ~can_recv(result.tcp) /\ may_recv(result.tcp)
      /\ d.writer = "wait" => c.writer = "wait" /\ may_send(result.tcp)
  BY <1>5, WakeToCloseEnds
<1> HIDE DEF d
<1>7. Waiting(d)
  BY <1>6 DEF Waiting, Wakeable
<1>8. ASSUME poll_at(d.tcp) = Ingress, Needs(d) PROVE Needs(c)
  <2>1. ~TxWork(d.tcp)
    BY <1>1, <1>2, <1>6, <1>8, IngressIsIdle DEF Answered
  <2>2. MinBuf = 1 /\ c.writer = "wait" /\ can_send(result.tcp)
    BY <1>6, <1>8, <2>1 DEF Needs
  <2>3. may_send(c.tcp)
    BY <2>2 DEF Waiting
  <2> QED BY <1>2, <2>2, <2>3 DEF Needs, Answered
<1> QED BY <1>2, <1>4, <1>6, <1>7, <1>8 DEF Answered

\* After a dispatch nothing is left to do unless the socket asks to be polled
\* again: it has no work, and no writer waits for room that is there.
LEMMA DispatchAttends ==
    ASSUME NEW c \in Conn, Marked(c), Waiting(c), Coherent(c.tcp)
    PROVE  LET d == ConnDispatch(c)
           IN  /\ Coherent(d.conn.tcp) /\ Waiting(d.conn)
               /\ Needs(d.conn) => d.poll # Ingress
<1> DEFINE t == tcp_dispatch(c.tcp).tcp
           b == [c EXCEPT !.tcp = t]
           e == wake_to_close(b)
           w == IF can_send(e.tcp) THEN wake_writer(e) ELSE e
           a == ActiveNext(c, poll_at(t))
           v == [w EXCEPT !.polling_active = a]
<1>1. /\ c.tcp \in Tcp /\ t \in Tcp /\ Coherent(t)
      /\ can_recv(t) => can_recv(c.tcp)
  BY DispatchType, DispatchCoherent DEF Conn
<1>2. ConnDispatch(c).conn = v /\ ConnDispatch(c).poll = poll_at(t)
  BY DEF ConnDispatch, DispatchWakes
<1> HIDE DEF t
<1>3. /\ b \in Conn /\ b.tcp = t /\ Wakeable(b)
      /\ b.reader = c.reader /\ b.writer = c.writer
  BY <1>1 DEF Conn, Wakeable, Marked, Waiting
<1> HIDE DEF b
<1>4. /\ e \in Conn /\ e.tcp = t /\ Wakeable(e)
      /\ e.reader = "wait" => c.reader = "wait" /\ may_recv(t)
      /\ e.writer = "wait" => may_send(t)
  BY <1>3, WakeToCloseEnds
<1> HIDE DEF e
<1>5. /\ w \in Conn /\ w.tcp = t /\ Wakeable(w)
      /\ w.reader = "wait" => c.reader = "wait" /\ may_recv(t)
      /\ w.writer = "wait" => may_send(t) /\ ~can_send(t)
  <2>1. CASE can_send(e.tcp)
    <3>1. /\ wake_writer(e) \in Conn /\ wake_writer(e).tcp = e.tcp
          /\ Wakeable(wake_writer(e))
          /\ wake_writer(e).writer # "wait" /\ wake_writer(e).reader = e.reader
      BY <1>4, WakeWriterEnds
    <3> QED BY <1>4, <2>1, <3>1
  <2>2. CASE ~can_send(e.tcp)
    BY <1>4, <2>2
  <2> QED BY <2>1, <2>2
<1> HIDE DEF w, a
<1>6. /\ v.tcp = t /\ v.reader = w.reader /\ v.writer = w.writer
      /\ v.rwaker = w.rwaker /\ v.wwaker = w.wwaker
  BY <1>5 DEF Conn
<1> HIDE DEF v
<1>7. Waiting(v)
  BY <1>1, <1>5, <1>6 DEF Waiting, Wakeable
<1>8. Needs(v) => poll_at(t) # Ingress
  BY <1>1, <1>5, <1>6, IngressIsIdle DEF Needs
<1> QED BY <1>1, <1>2, <1>6, <1>7, <1>8

\* drop_half of a half that the application has dropped: a writer that still
\* waits keeps the connection open, a reader that waits is not disturbed.
LEMMA DropHalfAttends ==
    ASSUME NEW c \in Conn, Marked(c), Waiting(c), Coherent(c.tcp),
           NEW rw \in {"Read", "Write"}, HalfOf(c, rw) = "gone"
    PROVE  LET d == ConnDropHalf(c, rw)
           IN  /\ Coherent(d.conn.tcp) /\ Waiting(d.conn)
               /\ d.poll = Ingress /\ Needs(d.conn) => Needs(c)
<1> DEFINE m == MarkDropped(c, rw)
           u == tcp_close(c.tcp)
           e == [m EXCEPT !.tcp = u]
           q == IF both_dropped(e) /\ poll_at(e.tcp) = Ingress THEN Now
                ELSE poll_at(e.tcp)
<1>1. /\ m \in Conn /\ m.tcp = c.tcp /\ m.reader = c.reader /\ m.writer = c.writer
      /\ m.rwaker = c.rwaker /\ m.wwaker = c.wwaker
      /\ m.writer_dropped => c.writer = "gone"
  BY DEF MarkDropped, Conn, Marked, HalfOf
<1>2. c.tcp \in Tcp /\ u \in Tcp
  BY CloseType DEF Conn
<1>3. /\ Coherent(u) /\ (can_recv(u) <=> can_recv(c.tcp))
      /\ may_recv(c.tcp) \/ c.tcp.state = "SynReceived" => may_recv(u)
  BY <1>2, CloseCoherent
<1>4. ConnDropHalf(c, rw) = IF ~m.writer_dropped THEN [conn |-> m, poll |-> Ingress]
                            ELSE [conn |-> e, poll |-> q]
  BY <1>1 DEF ConnDropHalf
<1> HIDE DEF m, u
<1>5. CASE ~m.writer_dropped
  <2>1. ConnDropHalf(c, rw).conn = m
    BY <1>4, <1>5
  <2> QED BY <1>1, <2>1 DEF Waiting, Needs
<1>6. CASE m.writer_dropped
  <2>1. /\ e.tcp = u /\ e.reader = c.reader /\ e.writer = "gone"
        /\ e.rwaker = c.rwaker
    BY <1>1, <1>6 DEF Conn
  <2>2. ConnDropHalf(c, rw).conn = e /\ ConnDropHalf(c, rw).poll = q
    BY <1>4, <1>6
  <2>3. Waiting(e)
    BY <1>3, <2>1 DEF Waiting
  <2>4. q = Ingress => poll_at(u) = Ingress
    BY <2>1 DEF Now, Ingress
  <2> HIDE DEF e, q
  <2>5. q = Ingress => ~Needs(e)
    BY <1>2, <1>3, <2>1, <2>4, IngressIsIdle DEF Needs
  <2> QED BY <1>3, <2>1, <2>2, <2>3, <2>5
<1> QED BY <1>5, <1>6

\* A reader with room in its buffer waits only while there is nothing to read.
LEMMA PollReadAttends ==
    ASSUME NEW c \in Conn, Waiting(c), Coherent(c.tcp), NEW n \in 0..c.tcp.rx,
           MinBuf = 1 /\ can_recv(c.tcp) => n > 0
    PROVE  LET d == ConnPollRead(c, n)
           IN  Coherent(d.tcp) /\ Waiting(d) /\ (Needs(d) => Needs(c))
<1> DEFINE u == recv_slice(c.tcp, n)
           f == IF c.eof_reached THEN "failed" ELSE "run"
<1>1. c.tcp \in Tcp
  BY DEF Conn
<1>2. /\ Coherent(u) /\ (TxWork(u) <=> TxWork(c.tcp))
      /\ may_send(u) <=> may_send(c.tcp)
      /\ can_send(u) <=> can_send(c.tcp)
  BY <1>1, RecvCoherent
<1>3. f # "wait"
  OBVIOUS
<1>4. CASE can_recv(c.tcp) /\ n > 0
  <2>1. ConnPollRead(c, n) = [c EXCEPT !.tcp = u, !.reader = "run"]
    BY <1>4 DEF ConnPollRead
  <2> HIDE DEF u
  <2> QED BY <1>2, <2>1 DEF Conn, Waiting, Needs
<1>5. CASE /\ ~(can_recv(c.tcp) /\ n > 0)
           /\ may_recv(c.tcp) \/ c.tcp.state = "SynReceived"
  <2>1. ConnPollRead(c, n) = [c EXCEPT !.rwaker = TRUE, !.reader = "wait"]
    BY <1>5 DEF ConnPollRead
  <2> QED BY <1>5, <2>1 DEF Conn, Waiting, Needs
<1>6. CASE /\ ~(can_recv(c.tcp) /\ n > 0)
           /\ ~(may_recv(c.tcp) \/ c.tcp.state = "SynReceived")
  <2>1. ConnPollRead(c, n) = [c EXCEPT !.eof_reached = TRUE, !.reader = f]
    BY <1>6 DEF ConnPollRead
  <2> HIDE DEF f
  <2> QED BY <1>3, <2>1 DEF Conn, Waiting, Needs
<1> QED BY <1>4, <1>5, <1>6

\* A writer with something in its buffer waits only while there is no room, and
\* the queue is told of everything it has put into the buffer.
LEMMA PollWriteAttends ==
    ASSUME NEW c \in Conn, Waiting(c), Coherent(c.tcp),
           NEW n \in 0..Room(c.tcp), MinBuf = 1 /\ can_send(c.tcp) => n > 0
    PROVE  LET d == ConnPollWrite(c, n)
           IN  /\ Coherent(d.tcp) /\ Waiting(d)
               /\ Needs(d) => poll_at(d.tcp) # Ingress
<1> DEFINE u == send_slice(c.tcp, n)
<1>1. c.tcp \in Tcp /\ u \in Tcp /\ n \in Nat
  BY SendType DEF Conn, Room
<1>2. may_send(c.tcp) => Coherent(u)
  BY <1>1, SendCoherent
<1>3. may_recv(u) = may_recv(c.tcp) /\ can_recv(u) = can_recv(c.tcp)
      /\ u.state = c.tcp.state
  BY <1>1 DEF send_slice, may_recv, can_recv, Tcp, TcpFields
<1>4. CASE can_send(c.tcp) /\ n > 0
  <2>1. ConnPollWrite(c, n) = [c EXCEPT !.tcp = u, !.writer = "run"]
    BY <1>4 DEF ConnPollWrite
  <2> DEFINE d == [c EXCEPT !.tcp = u, !.writer = "run"]
  <2> HIDE DEF u
  <2>2. /\ d.tcp = u /\ d.writer = "run" /\ d.reader = c.reader
        /\ d.rwaker = c.rwaker
    BY DEF Conn
  <2>3. Coherent(u)
    BY <1>2, <1>4 DEF can_send
  <2> HIDE DEF d
  <2>4. Waiting(d)
    BY <1>3, <2>2 DEF Waiting
  <2>5. Needs(d) => poll_at(u) # Ingress
    BY <1>1, <2>2, <2>3, IngressIsIdle DEF Needs
  <2> QED BY <2>1, <2>2, <2>3, <2>4, <2>5 DEF d
<1>5. CASE ~(can_send(c.tcp) /\ n > 0) /\ ~may_send(c.tcp)
  <2>1. ConnPollWrite(c, n) = [c EXCEPT !.writer = "failed"]
    BY <1>5 DEF ConnPollWrite
  <2> QED BY <1>1, <2>1, IngressIsIdle DEF Conn, Waiting, Needs
<1>6. CASE ~(can_send(c.tcp) /\ n > 0) /\ may_send(c.tcp)
  <2>1. ConnPollWrite(c, n) = [c EXCEPT !.wwaker = TRUE, !.writer = "wait"]
    BY <1>6 DEF ConnPollWrite
  <2> QED BY <1>1, <1>6, <2>1, IngressIsIdle DEF Conn, Waiting, Needs
<1> QED BY <1>4, <1>5, <1>6

\* poll_close leaves the reader waiting, and the queue is told of the FIN.
LEMMA PollCloseAttends ==
    ASSUME NEW c \in Conn, Waiting(c), Coherent(c.tcp)
    PROVE  LET d == ConnPollClose(c)
           IN  /\ Coherent(d.tcp) /\ Waiting(d)
               /\ Needs(d) => poll_at(d.tcp) # Ingress
<1> DEFINE u == tcp_close(c.tcp)
           d == [c EXCEPT !.tcp = u, !.writer = "run"]
<1>1. c.tcp \in Tcp /\ u \in Tcp
  BY CloseType DEF Conn
<1>2. /\ Coherent(u) /\ (can_recv(u) <=> can_recv(c.tcp))
      /\ may_recv(c.tcp) \/ c.tcp.state = "SynReceived" => may_recv(u)
  BY <1>1, CloseCoherent
<1>3. ConnPollClose(c) = d
  BY DEF ConnPollClose
<1> HIDE DEF u
<1>4. d.tcp = u /\ d.writer = "run" /\ d.reader = c.reader /\ d.rwaker = c.rwaker
  BY DEF Conn
<1> HIDE DEF d
<1>5. Waiting(d)
  BY <1>2, <1>4 DEF Waiting
<1>6. Needs(d) => poll_at(u) # Ingress
  BY <1>1, <1>2, <1>4, IngressIsIdle DEF Needs
<1> QED BY <1>2, <1>3, <1>4, <1>5, <1>6

\* A half that is handed over, dropped or gives up no longer waits.
LEMMA HalfAttends ==
    ASSUME NEW c, NEW d, Waiting(c), d.tcp = c.tcp,
           d.rwaker = c.rwaker, d.wwaker = c.wwaker,
           d.reader = c.reader \/ d.reader # "wait",
           d.writer = c.writer \/ d.writer # "wait"
    PROVE  Waiting(d) /\ (Needs(d) => Needs(c))
  BY DEF Waiting, Needs

-----------------------------------------------------------------------------
(* The crate. *)

\* A dispatch of the pair is coming.
Coming(h) == Scheduled(h) \/ PollOnTheWay(h)

\* Nobody waits in vain at the pair, and what it needs is coming.
Attended(h) == /\ Coherent(conn[h].tcp)
               /\ Waiting(conn[h])
               /\ Needs(conn[h]) => Coming(h)

\* The inductive invariant, together with the one of the account of the halves.
\* A pair comes into the pool without work because outside the pool its socket
\* only listens.
WakeInv == /\ Gone => sockets = {}
           /\ ~Gone => \A h \in Handles \ sockets : conn[h].tcp = ListenTcp
           /\ \A h \in sockets : Attended(h)

\* While the loop runs, no half of a connection in the pool is marked that the
\* application still holds.
LEMMA PooledMarked ==
    ASSUME IndInv, WakeInv, NEW h \in sockets
    PROVE  h \in Handles /\ conn[h] \in Conn /\ ~Gone /\ Marked(conn[h])
<1>1. h \in Handles /\ conn[h] \in Conn /\ ~Gone
  BY DEF IndInv, TypeOK, WakeInv
<1> QED BY <1>1 DEF IndInv, HalvesAccounted, HalfOf, DroppedOf, Marked

\* A step that changes no connection and calls off no dispatch.
LEMMA QuietStep ==
    ASSUME TypeOK, WakeInv, UNCHANGED <<sockets, conn>>, Gone' <=> Gone,
           \A g \in Handles : Coming(g) => Coming(g)'
    PROVE  WakeInv'
  BY DEF WakeInv, Attended, TypeOK

\* A step that changes one connection of the pool.
LEMMA LocalStep ==
    ASSUME TypeOK, WakeInv, NEW h \in sockets, sockets' = sockets, Gone' <=> Gone,
           \A g \in Handles \ {h} : conn'[g] = conn[g],
           \A g \in Handles \ {h} : Coming(g) => Coming(g)',
           Attended(h)'
    PROVE  WakeInv'
  BY DEF WakeInv, Attended, TypeOK

\* Sending to the queue brings a dispatch, and calls none off.
LEMMA SentComing ==
    ASSUME TypeOK, NEW h \in Handles, NEW p \in PollAt,
           queue' = QueueSend(queue, h, p), UNCHANGED <<next_poll, polls>>
    PROVE  /\ \A g \in Handles : Coming(g) => Coming(g)'
           /\ p # Ingress => Coming(h)'
<1>1. /\ \A g \in Handles : QueueContains(queue, g) => QueueContains(queue', g)
      /\ p # Ingress => QueueContains(queue', h)
  BY QueueSendType DEF TypeOK
<1> QED BY <1>1 DEF Coming, Scheduled, PollOnTheWay

\* A segment that arrives for a connection of the pool.
LEMMA ProcessSegmentAttends ==
    ASSUME IndInv, WakeInv, NEW h \in sockets, NEW kind \in Kinds,
           ProcessSegment(h, kind), UNCHANGED <<sockets, next_poll, polls>>,
           Gone' <=> Gone
    PROVE  WakeInv'
<1>t. TypeOK
  BY DEF IndInv
<1>h. h \in Handles /\ conn[h] \in Conn /\ Marked(conn[h])
  BY PooledMarked
<1>1. CASE ~check_acceptability(conn[h], kind)
  <2>1. UNCHANGED <<conn, queue>>
    BY <1>1 DEF ProcessSegment
  <2>2. \A g \in Handles : Coming(g) => Coming(g)'
    BY <2>1 DEF Coming, Scheduled, PollOnTheWay
  <2> QED BY <1>t, <2>1, <2>2, QuietStep
<1>2. CASE check_acceptability(conn[h], kind)
  <2>1. PICK result \in tcp_process(conn[h].tcp, kind) :
          /\ conn' = [conn EXCEPT ![h] = ConnProcess(conn[h], result)]
          /\ queue' = QueueSend(queue, h,
                          ProcessPollAt(ConnProcess(conn[h], result),
                                        QueueContains(queue, h)))
    BY <1>2 DEF ProcessSegment
  <2> DEFINE c == conn[h]
             d == ConnProcess(c, result)
             p == ProcessPollAt(d, QueueContains(queue, h))
  <2>2. Coherent(c.tcp) /\ Waiting(c) /\ (Needs(c) => Coming(h))
    BY DEF WakeInv, Attended
  <2>3. /\ d \in Conn /\ Coherent(d.tcp) /\ Waiting(d)
        /\ poll_at(d.tcp) = Ingress /\ Needs(d) => Needs(c)
    BY <1>h, <2>2, ProcessAttends
  <2> HIDE DEF d
  <2>4. p \in PollAt /\ (p = Ingress => poll_at(d.tcp) = Ingress)
    BY <2>3, ProcessPollAtType DEF ProcessPollAt, Now, Ingress
  <2> HIDE DEF p
  <2>5. conn' = [conn EXCEPT ![h] = d] /\ queue' = QueueSend(queue, h, p)
    BY <2>1 DEF d, p
  <2>6. conn'[h] = d /\ \A g \in Handles \ {h} : conn'[g] = conn[g]
    BY <1>t, <1>h, <2>5 DEF TypeOK
  <2>7. /\ \A g \in Handles : Coming(g) => Coming(g)'
        /\ p # Ingress => Coming(h)'
    BY <1>t, <1>h, <2>4, <2>5, SentComing
  <2>8. Attended(h)'
    BY <1>h, <2>2, <2>3, <2>4, <2>6, <2>7 DEF Attended
  <2> QED BY <1>t, <2>6, <2>7, <2>8, LocalStep
<1> QED BY <1>1, <1>2

\* A dispatch: the connection is removed, or it is left with nothing to do, or it
\* is queued again.
LEMMA DispatchWake == ASSUME IndInv, WakeInv, Dispatch PROVE WakeInv'
<1>0. PICK h \in sockets : h = next_poll
  BY DEF Dispatch
<1> DEFINE c == conn[h]
           d == ConnDispatch(c)
<1>t. TypeOK
  BY DEF IndInv
<1>1. pc' = "poll_a" /\ next_poll' = NoHandle /\ polls' = polls
  BY DEF Dispatch, chanVars
<1>h. h \in Handles /\ c \in Conn /\ Marked(c) /\ ~Gone /\ ~Gone'
  BY <1>1, PooledMarked DEF Gone
<1>2. Coherent(c.tcp) /\ Waiting(c)
  BY DEF WakeInv, Attended
<1>3. /\ d.conn \in Conn /\ d.poll \in PollAt
      /\ Coherent(d.conn.tcp) /\ Waiting(d.conn)
      /\ Needs(d.conn) => d.poll # Ingress
  BY <1>h, <1>2, DispatchConn, DispatchAttends
<1>4. \/ /\ sockets' = sockets \ {h}
         /\ queue' = QueueRemove(queue, h)
         /\ conn' = [conn EXCEPT ![h] = NoConn]
      \/ /\ sockets' = sockets
         /\ queue' = QueueSend(queue, h, d.poll)
         /\ conn' = [conn EXCEPT ![h] = d.conn]
  BY <1>0 DEF Dispatch
<1> HIDE DEF d
<1>5. \A g \in Handles \ {h} : conn'[g] = conn[g]
  BY <1>t, <1>4 DEF TypeOK
<1>6. /\ \A g \in Handles \ {h} : QueueContains(queue, g) => QueueContains(queue', g)
      /\ sockets' = sockets /\ d.poll # Ingress => QueueContains(queue', h)
  BY <1>t, <1>h, <1>1, <1>3, <1>4, QueueRemoveType, QueueSendType DEF TypeOK
<1>7. \A g \in Handles \ {h} : Coming(g) => Coming(g)'
  BY <1>0, <1>1, <1>6 DEF Coming, Scheduled, PollOnTheWay
<1>8. CASE sockets' = sockets /\ conn' = [conn EXCEPT ![h] = d.conn]
  <2>1. conn'[h] = d.conn
    BY <1>t, <1>h, <1>8 DEF TypeOK
  <2>2. Attended(h)'
    <3>1. Needs(d.conn) => Scheduled(h)'
      BY <1>3, <1>6, <1>8 DEF Scheduled
    <3> QED BY <1>3, <2>1, <3>1 DEF Attended, Coming
  <2> QED BY <1>t, <1>h, <1>1, <1>5, <1>7, <1>8, <2>2, LocalStep
<1>9. CASE sockets' = sockets \ {h} /\ conn' = [conn EXCEPT ![h] = NoConn]
  <2>1. conn'[h].tcp = ListenTcp
    BY <1>t, <1>h, <1>9 DEF TypeOK, NoConn, NewConn
  <2> QED BY <1>t, <1>h, <1>5, <1>7, <1>9, <2>1 DEF WakeInv, Attended, TypeOK
<1> QED BY <1>4, <1>8, <1>9

\* The end of the loop leaves nothing in the pool.
LEMMA EndLoopWake ==
    ASSUME NEW how \in {"exited", "panicked"}, EndLoop(how) PROVE WakeInv'
  BY DEF EndLoop, WakeInv, Gone

\* A new pair: outside the pool it has no work, so it comes into the pool without.
LEMMA OpeningWake ==
    ASSUME IndInv, WakeInv,
           (\E h \in Handles : CreateSyn(h)) \/ SendStream \/ SendStreamFails
    PROVE  WakeInv'
<1>t. TypeOK
  BY DEF IndInv
<1>0. NewConn.tcp = ListenTcp
  BY DEF NewConn
<1>1. ASSUME NEW h \in Handles, CreateSyn(h) PROVE WakeInv'
  <2>1. /\ h \notin sockets /\ ~Gone /\ ~Gone'
        /\ conn' = [conn EXCEPT ![h] = NewConn]
        /\ UNCHANGED <<sockets, queue, polls, next_poll>>
    BY <1>1 DEF CreateSyn, Gone, poolVars, chanVars
  <2>2. \A g \in Handles : Coming(g) => Coming(g)'
    BY <2>1 DEF Coming, Scheduled, PollOnTheWay
  <2> QED BY <1>t, <1>0, <2>1, <2>2 DEF WakeInv, Attended, TypeOK
<1>2. CASE SendStream \/ SendStreamFails
  <2> USE <1>2 DEF SendStream, SendStreamFails
  <2>1. PICK h \in Handles \ sockets : /\ h = cur
                                       /\ conn[h].reader = "held"
                                       /\ conn[h].writer = "held"
    BY DEF IndInv, StreamsInTransit, Gone
  <2>2. /\ ~Gone /\ ~Gone' /\ sockets' = sockets \cup {h}
        /\ UNCHANGED <<queue, polls, next_poll>>
    BY <2>1 DEF Gone
  <2>3. conn[h] \in Conn /\ conn[h].tcp = ListenTcp
    BY <1>t, <2>2 DEF TypeOK, WakeInv
  <2>4. /\ conn'[h].tcp = ListenTcp
        /\ conn'[h].reader # "wait" /\ conn'[h].writer # "wait"
        /\ \A g \in Handles \ {h} : conn'[g] = conn[g]
    <3>1. \/ conn' = conn
          \/ conn' = [conn EXCEPT ![h] = [conn[h] EXCEPT !.reader = "gone",
                                                        !.writer = "gone"]]
      BY <2>1
    <3>2. conn'[h] = conn[h] \/ conn'[h] = [conn[h] EXCEPT !.reader = "gone",
                                                          !.writer = "gone"]
      BY <1>t, <3>1 DEF TypeOK
    <3>3. \A g \in Handles \ {h} : conn'[g] = conn[g]
      BY <1>t, <3>1 DEF TypeOK
    <3> QED BY <2>1, <2>3, <3>2, <3>3 DEF Conn
  <2>5. Attended(h)'
    BY <2>3, <2>4, ListenType, UnconnectedCoherent DEF Attended, Waiting, Needs
  <2>6. \A g \in Handles : Coming(g) => Coming(g)'
    BY <2>2 DEF Coming, Scheduled, PollOnTheWay
  <2> QED BY <1>t, <2>2, <2>4, <2>5, <2>6 DEF WakeInv, Attended, TypeOK
<1> QED BY <1>1, <1>2

\* A half that was dropped is taken out of the channel.
LEMMA DropTcpHalfWake == ASSUME IndInv, WakeInv, DropTcpHalf PROVE WakeInv'
<1>t. TypeOK
  BY DEF IndInv
<1>1. CASE Head(closing).handle \notin sockets
  BY <1>1, EndLoopWake DEF DropTcpHalf
<1>2. CASE Head(closing).handle \in sockets
  <2>1. closing # <<>> /\ closing \in Seq(CloseMsg) /\ pc = "poll_c"
    BY <1>t DEF DropTcpHalf, TypeOK
  <2>2. PICK m \in CloseMsg : m = Head(closing) /\ m = closing[1] /\ 1 \in DOMAIN closing
    BY <2>1
  <2> DEFINE h == m.handle
             c == conn[h]
             d == ConnDropHalf(c, m.rw)
  <2>h. /\ h \in sockets /\ m.rw \in {"Read", "Write"}
        /\ h \in Handles /\ c \in Conn /\ Marked(c) /\ ~Gone
    BY <1>2, <2>2, PooledMarked DEF CloseMsg
  <2>3. HalfOf(c, m.rw) = "gone"
    BY <2>2, <2>h DEF IndInv, HalvesAccounted
  <2>4. Coherent(c.tcp) /\ Waiting(c) /\ (Needs(c) => Coming(h))
    BY <2>h DEF WakeInv, Attended
  <2>5. /\ d.poll \in PollAt /\ Coherent(d.conn.tcp) /\ Waiting(d.conn)
        /\ d.poll = Ingress /\ Needs(d.conn) => Needs(c)
    BY <2>h, <2>3, <2>4, DropHalfConn, DropHalfAttends
  <2>6. /\ conn' = [conn EXCEPT ![h] = d.conn]
        /\ queue' = QueueSend(queue, h, d.poll)
        /\ UNCHANGED <<sockets, next_poll, polls>> /\ pc' = "loop"
    BY <1>2, <2>2 DEF DropTcpHalf
  <2> HIDE DEF d
  <2>7. conn'[h] = d.conn /\ \A g \in Handles \ {h} : conn'[g] = conn[g]
    BY <1>t, <2>h, <2>6 DEF TypeOK
  <2>8. /\ \A g \in Handles : Coming(g) => Coming(g)'
        /\ d.poll # Ingress => Coming(h)'
    BY <1>t, <2>h, <2>5, <2>6, SentComing
  <2>9. Attended(h)'
    BY <2>h, <2>4, <2>5, <2>7, <2>8 DEF Attended
  <2> QED BY <1>t, <2>h, <2>6, <2>7, <2>8, <2>9, LocalStep DEF Gone
<1> QED BY <1>1, <1>2

\* A poll update that is taken out of the channel puts its pair into the queue.
LEMMA PollUpdateWake == ASSUME IndInv, WakeInv, PollUpdate PROVE WakeInv'
<1>t. TypeOK
  BY DEF IndInv
<1>1. /\ polls # <<>> /\ polls \in Seq(PollMsg) /\ polls' = Tail(polls)
      /\ queue' = QueueSend(queue, Head(polls).handle, Head(polls).poll)
      /\ UNCHANGED <<sockets, conn, next_poll>> /\ ~Gone /\ ~Gone'
  BY <1>t DEF PollUpdate, TypeOK, Gone
<1>2. PICK m \in PollMsg : m = Head(polls) /\ m = polls[1]
  BY <1>1
<1>3. m.handle \in Handles /\ m.poll \in PollAt
  BY <1>2 DEF PollMsg
<1>4. /\ \A g \in Handles : QueueContains(queue, g) => QueueContains(queue', g)
      /\ m.poll # Ingress => QueueContains(queue', m.handle)
  BY <1>t, <1>1, <1>2, <1>3, QueueSendType DEF TypeOK
<1>5. ASSUME NEW g \in Handles, PollOnTheWay(g) PROVE Coming(g)'
  <2>1. PICK i \in DOMAIN polls : polls[i].handle = g /\ polls[i].poll.kind # "Ingress"
    BY <1>5 DEF PollOnTheWay
  <2>2. CASE i = 1
    <3>1. m.handle = g /\ m.poll # Ingress
      BY <1>2, <2>1, <2>2 DEF Ingress
    <3> QED BY <1>4, <3>1 DEF Coming, Scheduled
  <2>3. CASE i # 1
    <3>1. i - 1 \in DOMAIN polls' /\ polls'[i - 1] = polls[i]
      BY <1>1, <2>1, <2>3
    <3> QED BY <2>1, <3>1 DEF Coming, PollOnTheWay
  <2> QED BY <2>2, <2>3
<1>6. \A g \in Handles : Coming(g) => Coming(g)'
  BY <1>1, <1>4, <1>5 DEF Coming, Scheduled
<1> QED BY <1>t, <1>1, <1>6, QuietStep

\* A deadline that has passed: the pair leaves the queue for next_poll.
LEMMA ExpireWake ==
    ASSUME IndInv, WakeInv, NEW h \in Handles, Expire(h) PROVE WakeInv'
<1>t. TypeOK
  BY DEF IndInv
<1>1. /\ queue' = QueueRemove(queue, h) /\ next_poll' = h /\ next_poll = NoHandle
      /\ UNCHANGED <<sockets, conn, polls>> /\ ~Gone /\ ~Gone'
  BY DEF Expire, Gone, chanVars
<1>2. \A g \in Handles \ {h} : QueueContains(queue, g) => QueueContains(queue', g)
  BY <1>t, <1>1, QueueRemoveType DEF TypeOK
<1>3. \A g \in Handles : Coming(g) => Coming(g)'
  BY <1>1, <1>2, UstunetAssumption DEF Coming, Scheduled, PollOnTheWay
<1> QED BY <1>t, <1>1, <1>3, QuietStep

\* While the loop runs, a half that is in use belongs to a connection of the pool.
LEMMA UsedIsPooled ==
    ASSUME IndInv, NEW h \in Handles, ~Gone,
           \/ conn[h].reader \in Running \cup {"wait"}
           \/ conn[h].writer \in Running \cup {"wait"}
    PROVE  h \in sockets
  BY DEF IndInv, StreamsInTransit, Running

\* After the end of the loop the pool stays empty, whatever the application does.
LEMMA AfterEndWake ==
    ASSUME WakeInv, Gone, UNCHANGED <<loopVars, sockets>> PROVE WakeInv'
  BY DEF WakeInv, Gone, loopVars

\* A read changes nothing that the queue would have to know.
LEMMA PollReadWake ==
    ASSUME IndInv, WakeInv, NEW h \in Handles, PollRead(h) PROVE WakeInv'
<1> USE DEF loopVars, poolVars, chanVars
<1>t. TypeOK
  BY DEF IndInv
<1>1. CASE Gone
  BY <1>1, AfterEndWake DEF PollRead
<1>2. CASE ~Gone
  <2>1. h \in sockets /\ conn[h] \in Conn
    BY <1>t, <1>2, UsedIsPooled DEF PollRead, TypeOK
  <2> DEFINE c == conn[h]
  <2>2. PICK n \in 0..c.tcp.rx : /\ conn' = [conn EXCEPT ![h] = ConnPollRead(c, n)]
                                 /\ MinBuf = 1 /\ can_recv(c.tcp) => n > 0
    <3>1. MinBuf..c.tcp.rx \subseteq 0..c.tcp.rx /\ 0 \in 0..c.tcp.rx
      BY <2>1, BufferSizes
    <3>2. PICK n \in IF can_recv(c.tcp) THEN MinBuf..c.tcp.rx ELSE {0} :
             conn' = [conn EXCEPT ![h] = ConnPollRead(c, n)]
      BY <1>t DEF PollRead, TypeOK
    <3>3. n \in 0..c.tcp.rx /\ (MinBuf = 1 /\ can_recv(c.tcp) => n > 0)
      BY <3>1, <3>2
    <3> QED BY <3>2, <3>3
  <2> DEFINE d == ConnPollRead(c, n)
  <2>3. Coherent(c.tcp) /\ Waiting(c) /\ (Needs(c) => Coming(h))
    BY <2>1 DEF WakeInv, Attended
  <2>4. Coherent(d.tcp) /\ Waiting(d) /\ (Needs(d) => Needs(c))
    BY <2>1, <2>2, <2>3, PollReadAttends
  <2> HIDE DEF d
  <2>5. conn' = [conn EXCEPT ![h] = d] /\ UNCHANGED <<loopVars, sockets, queue, polls>>
    BY <2>2 DEF d, PollRead
  <2>6. conn'[h] = d /\ \A g \in Handles \ {h} : conn'[g] = conn[g]
    BY <1>t, <2>5 DEF TypeOK
  <2>7. \A g \in Handles : Coming(g) => Coming(g)'
    BY <2>5 DEF Coming, Scheduled, PollOnTheWay
  <2>8. Attended(h)'
    BY <2>3, <2>4, <2>6, <2>7 DEF Attended
  <2> QED BY <1>t, <2>1, <2>5, <2>6, <2>7, <2>8, LocalStep DEF Gone
<1> QED BY <1>1, <1>2

\* A message that is sent to the queue is on its way, and so are those before it.
LEMMA AppendedPoll ==
    ASSUME polls \in Seq(PollMsg), NEW m \in PollMsg, polls' = Append(polls, m)
    PROVE  /\ \A g \in Handles : PollOnTheWay(g) => PollOnTheWay(g)'
           /\ m.poll # Ingress => PollOnTheWay(m.handle)'
<1>1. /\ DOMAIN polls \subseteq DOMAIN polls'
      /\ \A i \in DOMAIN polls : polls'[i] = polls[i]
      /\ Len(polls) + 1 \in DOMAIN polls' /\ polls'[Len(polls) + 1] = m
  OBVIOUS
<1>2. m.poll # Ingress => m.poll.kind # "Ingress"
  BY DEF PollMsg, PollAt, Ingress, Now, Time
<1> QED BY <1>1, <1>2 DEF PollOnTheWay

\* A method of the writer tells the queue what it needs.  If it does not, because
\* polling_active is set, the connection is in line for a dispatch.
LEMMA NotifyWake ==
    ASSUME IndInv, WakeInv, NEW h \in sockets, NEW d \in Conn,
           Coherent(d.tcp), Waiting(d), Needs(d) => poll_at(d.tcp) # Ingress,
           Notify(h, d), UNCHANGED <<loopVars, sockets, queue>>
    PROVE  WakeInv'
<1>t. TypeOK
  BY DEF IndInv
<1>h. h \in Handles /\ ~Gone
  BY PooledMarked
<1>1. conn' = [conn EXCEPT ![h] = d]
  BY <1>h DEF Notify, SendOrPanic
<1>2. conn'[h] = d /\ \A g \in Handles \ {h} : conn'[g] = conn[g]
  BY <1>t, <1>h, <1>1 DEF TypeOK
<1>3. CASE conn[h].polling_active
  <2>1. polls' = polls /\ Scheduled(h)
    BY <1>3 DEF Notify, IndInv, ActiveIsScheduled
  <2>2. \A g \in Handles : Coming(g) => Coming(g)'
    BY <2>1 DEF Coming, Scheduled, PollOnTheWay, loopVars
  <2>3. Attended(h)'
    BY <1>h, <1>2, <2>1, <2>2 DEF Attended, Coming
  <2> QED BY <1>t, <1>2, <2>2, <2>3, LocalStep DEF Gone, loopVars
<1>4. CASE ~conn[h].polling_active
  <2> DEFINE m == [handle |-> h, poll |-> poll_at(d.tcp)]
  <2>1. polls' = Append(polls, m)
    BY <1>h, <1>4 DEF Notify
  <2>2. m \in PollMsg /\ m.handle = h /\ m.poll = poll_at(d.tcp)
    BY <1>h, PollAtType DEF PollMsg, Conn
  <2> HIDE DEF m
  <2>3. /\ \A g \in Handles : PollOnTheWay(g) => PollOnTheWay(g)'
        /\ poll_at(d.tcp) # Ingress => PollOnTheWay(h)'
    BY <1>t, <2>1, <2>2, AppendedPoll DEF TypeOK
  <2>4. \A g \in Handles : Coming(g) => Coming(g)'
    BY <2>3 DEF Coming, Scheduled, loopVars
  <2>5. Attended(h)'
    BY <1>2, <2>3 DEF Attended, Coming
  <2> QED BY <1>t, <1>2, <2>4, <2>5, LocalStep DEF Gone, loopVars
<1> QED BY <1>3, <1>4

\* The writer writes or closes.
LEMMA PollWriteWake ==
    ASSUME IndInv, WakeInv, NEW h \in Handles, PollWrite(h) \/ PollClose(h)
    PROVE  WakeInv'
<1> USE DEF PollWrite, PollClose, poolVars
<1>t. TypeOK
  BY DEF IndInv
<1>1. CASE Gone
  BY <1>1, AfterEndWake
<1>2. CASE ~Gone
  <2> DEFINE c == conn[h]
  <2>1. h \in sockets /\ c \in Conn /\ c.writer \in Running
    BY <1>t, <1>2, UsedIsPooled DEF TypeOK
  <2>2. Coherent(c.tcp) /\ Waiting(c)
    BY <2>1 DEF WakeInv, Attended
  <2>3. CASE PollClose(h)
    <3>1. ConnPollClose(c) \in Conn
      BY <2>1, PollCloseConn
    <3>2. /\ Coherent(ConnPollClose(c).tcp) /\ Waiting(ConnPollClose(c))
          /\ Needs(ConnPollClose(c)) => poll_at(ConnPollClose(c).tcp) # Ingress
      BY <2>1, <2>2, PollCloseAttends
    <3> QED BY <2>1, <2>3, <3>1, <3>2, NotifyWake
  <2>4. CASE PollWrite(h)
    <3>1. MinBuf..Room(c.tcp) \subseteq 0..Room(c.tcp) /\ 0 \in 0..Room(c.tcp)
      BY <2>1, BufferSizes
    <3>2. PICK n \in IF can_send(c.tcp) THEN MinBuf..Room(c.tcp) ELSE {0} :
             Notify(h, ConnPollWrite(c, n))
      BY <2>4
    <3>3. n \in 0..Room(c.tcp) /\ (MinBuf = 1 /\ can_send(c.tcp) => n > 0)
      BY <3>1, <3>2
    <3>4. ConnPollWrite(c, n) \in Conn
      BY <2>1, <3>3, PollWriteConn DEF Room
    <3>5. /\ Coherent(ConnPollWrite(c, n).tcp) /\ Waiting(ConnPollWrite(c, n))
          /\ Needs(ConnPollWrite(c, n)) => poll_at(ConnPollWrite(c, n).tcp) # Ingress
      BY <2>1, <2>2, <3>3, PollWriteAttends
    <3> QED BY <2>1, <2>4, <3>2, <3>4, <3>5, NotifyWake
  <2> QED BY <2>3, <2>4
<1> QED BY <1>1, <1>2

\* One connection has its halves handed over, dropped or taken off the wait.
LEMMA MovedHalves ==
    ASSUME IndInv, WakeInv, NEW h \in Handles, ~Gone => h \in sockets,
           NEW r \in Half, NEW w \in Half,
           r = conn[h].reader \/ r # "wait", w = conn[h].writer \/ w # "wait",
           conn' = [conn EXCEPT ![h] = [@ EXCEPT !.reader = r, !.writer = w]],
           UNCHANGED <<loopVars, poolVars, polls>>
    PROVE  WakeInv'
<1> USE DEF loopVars, poolVars
<1>t. TypeOK
  BY DEF IndInv
<1>1. CASE Gone
  BY <1>1, AfterEndWake
<1>2. CASE ~Gone
  <2> DEFINE c == conn[h]
             d == [c EXCEPT !.reader = r, !.writer = w]
  <2>1. c \in Conn
    BY <1>t DEF TypeOK
  <2>2. conn'[h] = d /\ \A g \in Handles \ {h} : conn'[g] = conn[g]
    BY <1>t DEF TypeOK
  <2>3. Coherent(c.tcp) /\ Waiting(c) /\ (Needs(c) => Coming(h))
    BY <1>2 DEF WakeInv, Attended
  <2>4. /\ d.tcp = c.tcp /\ d.rwaker = c.rwaker /\ d.wwaker = c.wwaker
        /\ d.reader = r /\ d.writer = w
    BY <2>1 DEF Conn
  <2> HIDE DEF d
  <2>5. Waiting(d) /\ (Needs(d) => Needs(c))
    BY <2>3, <2>4, HalfAttends
  <2>6. \A g \in Handles : Coming(g) => Coming(g)'
    BY DEF Coming, Scheduled, PollOnTheWay
  <2>7. Attended(h)'
    BY <2>2, <2>3, <2>4, <2>5, <2>6 DEF Attended
  <2> QED BY <1>t, <1>2, <2>2, <2>6, <2>7, LocalStep DEF Gone
<1> QED BY <1>1, <1>2

\* A half gives up waiting or is dropped.
LEMMA HalfWake ==
    ASSUME IndInv, WakeInv, NEW h \in Handles,
           CancelRead(h) \/ CancelWrite(h) \/ DropReader(h) \/ DropWriter(h)
    PROVE  WakeInv'
<1> DEFINE c == conn[h]
<1>1. c \in Conn /\ c.reader \in Half /\ c.writer \in Half
  BY DEF IndInv, TypeOK, Conn
<1>2. ~Gone => h \in sockets
  BY UsedIsPooled DEF CancelRead, CancelWrite, DropReader, DropWriter
<1>3. UNCHANGED <<loopVars, poolVars, polls>>
  BY DEF CancelRead, CancelWrite, DropReader, DropWriter, chanVars
<1>4. CASE CancelRead(h) \/ DropReader(h)
  <2>1. PICK r \in {"run", "gone", "panicked"} :
            conn' = [conn EXCEPT ![h] = [conn[h] EXCEPT !.reader = r]]
    BY <1>4 DEF CancelRead, DropReader
  <2>2. [c EXCEPT !.reader = r] = [c EXCEPT !.reader = r, !.writer = c.writer]
    BY <1>1 DEF Conn
  <2>3. r \in Half /\ r # "wait"
    BY DEF Half
  <2> QED BY <1>1, <1>2, <1>3, <2>1, <2>2, <2>3, MovedHalves
<1>5. CASE CancelWrite(h) \/ DropWriter(h)
  <2>1. PICK w \in {"run", "gone", "panicked"} :
            conn' = [conn EXCEPT ![h] = [conn[h] EXCEPT !.writer = w]]
    BY <1>5 DEF CancelWrite, DropWriter
  <2>2. [c EXCEPT !.writer = w] = [c EXCEPT !.reader = c.reader, !.writer = w]
    BY <1>1 DEF Conn
  <2>3. w \in Half /\ w # "wait"
    BY DEF Half
  <2> QED BY <1>1, <1>2, <1>3, <2>1, <2>2, <2>3, MovedHalves
<1> QED BY <1>4, <1>5

\* The application takes a stream, or drops its listener with the stream in it.
LEMMA ListenerWake ==
    ASSUME IndInv, WakeInv, Accept \/ DropListener PROVE WakeInv'
<1> USE DEF poolVars
<1>t. TypeOK
  BY DEF IndInv
<1>1. UNCHANGED <<loopVars, poolVars, polls>>
  BY DEF Accept, DropListener
<1>2. CASE incoming = <<>>
  <2>1. conn' = conn
    BY <1>2 DEF Accept, DropListener
  <2>2. \A g \in Handles : Coming(g) => Coming(g)'
    BY <1>1 DEF Coming, Scheduled, PollOnTheWay, loopVars
  <2> QED BY <1>t, <1>1, <2>1, <2>2, QuietStep DEF Gone, loopVars
<1>3. CASE incoming # <<>>
  <2>1. incoming \in Seq(Handles)
    BY <1>t DEF TypeOK
  <2>2. PICK h \in Handles : h = Head(incoming) /\ h = incoming[1] /\ 1 \in DOMAIN incoming
    BY <1>3, <2>1
  <2>3. ~Gone => h \in sockets
    BY <2>2 DEF IndInv, StreamsInTransit
  <2>4. PICK s \in {"run", "gone", "panicked"} :
            conn' = [conn EXCEPT ![h] = [conn[h] EXCEPT !.reader = s, !.writer = s]]
    BY <1>3, <2>2 DEF Accept, DropListener
  <2>5. s \in Half /\ s # "wait"
    BY DEF Half
  <2> QED BY <1>1, <2>3, <2>4, <2>5, MovedHalves
<1> QED BY <1>2, <1>3

\* Time passes: no deadline is lost and no work comes up.
LEMMA TickWake == ASSUME IndInv, WakeInv, Tick PROVE WakeInv'
<1>t. TypeOK
  BY DEF IndInv
<1>1. UNCHANGED <<loopVars, sockets>>
  BY DEF Tick
<1>2. ASSUME NEW g \in Handles, Coming(g) PROVE Coming(g)'
  <2>1. queue[g] # Off => queue'[g] # Off
    BY <1>t, CloserType DEF Tick, TypeOK, Deadlines
  <2>2. PollOnTheWay(g) => PollOnTheWay(g)'
    <3>1. ASSUME NEW i \in DOMAIN polls
          PROVE  /\ i \in DOMAIN polls' /\ polls'[i].handle = polls[i].handle
                 /\ polls'[i].poll.kind = polls[i].poll.kind
      <4>1. polls \in Seq(PollMsg)
        BY <1>t DEF TypeOK
      <4>2. polls[i] \in PollMsg
        BY <4>1
      <4>3. polls[i].poll \in PollAt
        BY <4>2 DEF PollMsg
      <4>4. i \in DOMAIN polls' /\ polls'[i] = [polls[i] EXCEPT !.poll.due = Closer(@)]
        BY DEF Tick
      <4> QED BY <4>2, <4>3, <4>4 DEF PollMsg, PollAt, Now, Ingress, Time
    <3> QED BY <3>1 DEF PollOnTheWay
  <2> QED BY <1>1, <1>2, <2>1, <2>2 DEF Coming, Scheduled, QueueContains, loopVars
<1>3. ASSUME NEW g \in Handles, Coherent(conn[g].tcp)
      PROVE  /\ Coherent(conn'[g].tcp)
             /\ Waiting(conn[g]) => Waiting(conn'[g])
             /\ Needs(conn'[g]) => Needs(conn[g])
             /\ conn[g].tcp = ListenTcp => conn'[g].tcp = ListenTcp
  <2> DEFINE c == conn[g]
             u == [c.tcp EXCEPT !.timer = Closer(c.tcp.timer)]
             d == [c EXCEPT !.tcp = u]
  <2>1. c \in Conn /\ c.tcp \in Tcp
    BY <1>t DEF TypeOK, Conn
  <2>2. conn'[g] = d
    BY <1>t, <2>1 DEF Tick, TypeOK, Conn, Tcp, TcpFields
  <2>3. /\ Coherent(u) /\ (TxWork(u) <=> TxWork(c.tcp))
        /\ u.state = c.tcp.state /\ u.rx = c.tcp.rx
        /\ u.unsent = c.tcp.unsent /\ u.flight = c.tcp.flight
        /\ c.tcp = ListenTcp => u = ListenTcp
    BY <1>3, <2>1, TickCoherent
  <2> HIDE DEF u
  <2>4. /\ d.tcp = u /\ d.rwaker = c.rwaker /\ d.wwaker = c.wwaker
        /\ d.reader = c.reader /\ d.writer = c.writer
    BY <2>1 DEF Conn
  <2>5. /\ can_recv(u) <=> can_recv(c.tcp)
        /\ may_recv(u) <=> may_recv(c.tcp)
        /\ can_send(u) <=> can_send(c.tcp)
        /\ may_send(u) <=> may_send(c.tcp)
    BY <2>3 DEF can_recv, may_recv, can_send, may_send
  <2> HIDE DEF d
  <2> QED BY <2>2, <2>3, <2>4, <2>5 DEF Waiting, Needs
<1>4. Coherent(ListenTcp)
  BY DEF Coherent, ListenTcp
<1>5. ~Gone => \A g \in Handles \ sockets : conn'[g].tcp = ListenTcp
  BY <1>3, <1>4 DEF WakeInv
<1>6. \A g \in sockets : Attended(g)'
  BY <1>t, <1>2, <1>3 DEF WakeInv, Attended, TypeOK
<1> QED BY <1>1, <1>5, <1>6 DEF WakeInv, Gone, loopVars

-----------------------------------------------------------------------------
\* The inductive invariant holds initially.
LEMMA InitWake == Init => WakeInv
  BY DEF Init, WakeInv, Gone, NoConn, NewConn

\* Every step of the I/O loop, the application, the device and the clock keeps it.
LEMMA NextWake == ASSUME IndInv, WakeInv, [Next]_vars PROVE WakeInv'
<1>t. TypeOK
  BY DEF IndInv
<1>1. CASE \/ NothingToWrite \/ PollPending \/ Written \/ WriteReply
           \/ \E h \in Handles, kind \in Segments : Drop(h, kind)
           \/ UNCHANGED vars
  <2> USE <1>1 DEF NothingToWrite, PollPending, Written, WriteReply, Drop, vars,
                   loopVars, poolVars, chanVars
  <2>1. UNCHANGED <<sockets, conn, queue, polls, next_poll>>
    OBVIOUS
  <2>2. Gone' <=> Gone
    BY DEF Gone
  <2>3. \A g \in Handles : Coming(g) => Coming(g)'
    BY <2>1 DEF Coming, Scheduled, PollOnTheWay
  <2> QED BY <1>t, <2>1, <2>2, <2>3, QuietStep
<1>2. CASE Dispatch
  BY <1>2, DispatchWake
<1>3. CASE DispatchPanics \/ DeviceError
  BY <1>3, EndLoopWake DEF DispatchPanics, DeviceError
<1>4. ASSUME NEW h \in Handles, NEW kind \in Segments, Receive(h, kind)
      PROVE  WakeInv'
  <2>1. /\ h \in sockets /\ kind \in Kinds /\ ProcessSegment(h, kind)
        /\ UNCHANGED <<sockets, next_poll, polls>> /\ (Gone' <=> Gone)
    BY <1>4 DEF Receive, chanVars, Gone
  <2> QED BY <2>1, ProcessSegmentAttends
<1>5. CASE ProcessSyn
  <2>1. /\ cur \in sockets /\ "syn" \in Kinds /\ ProcessSegment(cur, "syn")
        /\ UNCHANGED <<sockets, next_poll, polls>> /\ (Gone' <=> Gone)
    BY <1>5 DEF ProcessSyn, chanVars, Gone, Kinds, IndInv, StreamsInTransit
  <2>2. PICK h \in sockets : h = cur
    BY <2>1
  <2> QED BY <2>1, <2>2, ProcessSegmentAttends
<1>6. CASE (\E h \in Handles : CreateSyn(h)) \/ SendStream \/ SendStreamFails
  BY <1>6, OpeningWake
<1>7. CASE DropTcpHalf
  BY <1>7, DropTcpHalfWake
<1>8. CASE PollUpdate
  BY <1>8, PollUpdateWake
<1>9. CASE \E h \in Handles : Expire(h)
  BY <1>9, ExpireWake
<1>10. CASE \E h \in Handles : PollRead(h)
  BY <1>10, PollReadWake
<1>11. CASE \E h \in Handles : PollWrite(h) \/ PollClose(h)
  BY <1>11, PollWriteWake
<1>12. CASE \E h \in Handles : \/ CancelRead(h) \/ CancelWrite(h)
                               \/ DropReader(h) \/ DropWriter(h)
  BY <1>12, HalfWake
<1>13. CASE Accept \/ DropListener
  BY <1>13, ListenerWake
<1>14. CASE Tick
  BY <1>14, TickWake
<1> QED BY <1>1, <1>2, <1>3, <1>4, <1>5, <1>6, <1>7, <1>8, <1>9, <1>10, <1>11,
           <1>12, <1>13, <1>14
        DEF Next, LoopStep, AppStep, EnvStep

\* A connection with something to send, a timer or an acknowledgement that is due
\* is in the delay queue, next in line, or has a poll update on its way.  This
\* holds for an application that writes empty buffers, too.
THEOREM WorkCorrect == Spec => []WorkIsScheduled
<1>1. WakeInv => WorkIsScheduled
  BY DEF WakeInv, Attended, Needs, Coming, WorkIsScheduled
<1> QED BY <1>1, InitInv, NextInv, InitWake, NextWake, PTL DEF Spec

\* A writer that waits has its waker in place on a connection that can still be
\* written, and once there is room, a dispatch that wakes it is coming.  Its
\* buffers are not empty: a write of nothing waits without being told to anyone.
THEOREM WriterCorrect == ASSUME MinBuf = 1 PROVE Spec => []WriterNotStranded
<1>1. WakeInv => WriterNotStranded
  BY DEF WakeInv, Attended, Waiting, Needs, Coming, WriterNotStranded
<1> QED BY <1>1, InitInv, NextInv, InitWake, NextWake, PTL DEF Spec

\* A reader that waits has its waker in place, and there is neither data nor the
\* end of the stream for it.  Its buffers are not empty: a read of nothing waits
\* although there is data.
THEOREM ReaderCorrect == ASSUME MinBuf = 1 PROVE Spec => []ReaderNotStranded
<1>1. WakeInv => ReaderNotStranded
  BY DEF WakeInv, Attended, Waiting, ReaderNotStranded
<1> QED BY <1>1, InitInv, NextInv, InitWake, NextWake, PTL DEF Spec

-----------------------------------------------------------------------------
(* What the methods do for a half, as Handoff has it.                      *)

\* A dispatch brings neither data nor room; at most a direction ends.
LEMMA DispatchConds ==
    ASSUME NEW t \in Tcp, Coherent(t)
    PROVE  LET u == tcp_dispatch(t).tcp
           IN  /\ ReadCond(u) \in {ReadCond(t), "end"}
               /\ WriteCond(u) \in {WriteCond(t), "end"}
<1> DEFINE s == Rewound(t)
           v == [s EXCEPT !.ack = "none"]
           z == [ClosedTcp(s) EXCEPT !.rx = 0]
           Sum(u) == u.unsent + u.flight
           Like(u) == u.rx = t.rx /\ u.state = t.state /\ Sum(u) = Sum(t)
<1>1. s \in Tcp /\ Coherent(s) /\ s.remote = t.remote
  BY RewoundType, RewoundCoherent
<1>2. Like(s)
  <2>1. s.rx = t.rx /\ s.state = t.state
    BY RewoundCoherent
  <2>2. Sum(s) = Sum(t)
    BY DEF Rewound, Tcp, TcpFields
  <2> QED BY <2>1, <2>2
<1>3. \A u : Like(u) => ReadCond(u) = ReadCond(t) /\ WriteCond(u) = WriteCond(t)
  BY DEF ReadCond, WriteCond, can_recv, may_recv, can_send, may_send
<1>4. tcp_dispatch(t).tcp =
        IF ~t.remote THEN t
        ELSE IF SeqToTransmit(s) THEN EmitSeq(s)
        ELSE IF s.ack # "none" THEN v
        ELSE IF s.state = "TimeWait" /\ s.timer = 0 THEN z ELSE s
  BY DEF tcp_dispatch
<1> HIDE DEF s
<1>5. t.remote /\ SeqToTransmit(s) => Like(EmitSeq(s))
  <2> SUFFICES ASSUME t.remote, SeqToTransmit(s) PROVE Like(EmitSeq(s))
    OBVIOUS
  <2>1. EmitSeq(s).rx = s.rx /\ EmitSeq(s).state = s.state
    BY <1>1, EmitCoherent
  <2> DEFINE n == IF s.unsent > 0 THEN 1 ELSE 0
             k == IF s.unsent = n /\ s.ctl = "unsent" THEN "flight" ELSE s.ctl
             e == [s EXCEPT !.unsent = s.unsent - n, !.flight = s.flight + n,
                            !.ack = "none", !.ctl = k]
             m == IF SeqToTransmit(e) \/ s.timer > 0 THEN s.timer ELSE Rto
  <2>2. EmitSeq(s) = [e EXCEPT !.timer = m]
    BY <1>1 DEF EmitSeq, Tcp, TcpFields
  <2>3. n \in {0, 1} /\ s.unsent \in Nat /\ s.flight \in Nat
    BY <1>1 DEF Tcp, TcpFields
  <2> HIDE DEF n, k, m
  <2>4. [e EXCEPT !.timer = m].unsent = s.unsent - n
        /\ [e EXCEPT !.timer = m].flight = s.flight + n
    BY <1>1 DEF Tcp, TcpFields
  <2>5. Sum(EmitSeq(s)) = Sum(s)
    BY <2>2, <2>3, <2>4
  <2> QED BY <1>2, <2>1, <2>5
<1>6. Like(v)
  BY <1>1, <1>2 DEF Tcp, TcpFields
<1>7. ReadCond(z) = "end" /\ WriteCond(z) = "end"
  BY DEF ClosedTcp, ListenTcp, ReadCond, WriteCond, can_recv, may_recv, can_send,
         may_send
<1>8. Like(t)
  OBVIOUS
<1> HIDE DEF v, z, Like
<1> QED BY <1>2, <1>3, <1>4, <1>5, <1>6, <1>7, <1>8

\* close() ends the direction of the writer and no other.
LEMMA CloseConds ==
    ASSUME NEW t \in Tcp, Coherent(t)
    PROVE  /\ ReadCond(tcp_close(t)) = ReadCond(t)
           /\ WriteCond(tcp_close(t)) = "end"
<1> USE DEF Tcp, TcpFields, tcp_close, ReadCond, WriteCond, can_recv, may_recv,
            can_send, may_send
<1>1. CASE t.state = "Listen"
  BY <1>1 DEF ClosedTcp, ListenTcp
<1>2. CASE t.state = "SynReceived"
  BY <1>2
<1>3. CASE t.state = "Established"
  BY <1>3
<1>4. CASE t.state = "CloseWait"
  BY <1>4
<1>5. CASE t.state \notin {"Listen", "SynReceived", "Established", "CloseWait"}
  BY <1>5
<1> QED BY <1>1, <1>2, <1>3, <1>4, <1>5

\* Reading may use up the data and, if the peer has closed its side, come to the
\* end.  It does not concern the writer.
LEMMA RecvConds ==
    ASSUME NEW t \in Tcp, can_recv(t), NEW n \in 0..t.rx
    PROVE  /\ ReadCond(recv_slice(t, n)) \in {"some", "none", "end"}
           /\ WriteCond(recv_slice(t, n)) = WriteCond(t)
<1>1. WriteCond(recv_slice(t, n)) = WriteCond(t)
  BY DEF Tcp, TcpFields, recv_slice, WriteCond, can_send, may_send
<1> QED BY <1>1 DEF ReadCond

\* Writing may fill the buffer, and does not concern the reader.
LEMMA SendConds ==
    ASSUME NEW t \in Tcp, can_send(t), NEW n \in Nat
    PROVE  /\ WriteCond(send_slice(t, n)) \in {"some", "none"}
           /\ ReadCond(send_slice(t, n)) = ReadCond(t)
  BY DEF Tcp, TcpFields, send_slice, ReadCond, WriteCond, can_recv, may_recv,
         can_send, may_send

\* From c to d halves were woken, each by the waker it had left, and nothing else
\* has happened to them.
Roused(c, d) ==
    /\ d.reader_dropped = c.reader_dropped
    /\ d.writer_dropped = c.writer_dropped
    /\ \/ d.rwaker = c.rwaker /\ d.reader = c.reader
       \/ c.rwaker /\ ~d.rwaker /\ d.reader = Woken(c.reader)
    /\ \/ d.wwaker = c.wwaker /\ d.writer = c.writer
       \/ c.wwaker /\ ~d.wwaker /\ d.writer = Woken(c.writer)

\* Waking one half and then others is waking.
LEMMA RousedTwice ==
    ASSUME NEW c, NEW d, NEW e, Roused(c, d), Roused(d, e),
           c \in Conn, d \in Conn, e \in Conn
    PROVE  /\ Roused(c, e)
           /\ ~d.rwaker => ~e.rwaker
           /\ ~d.wwaker => ~e.wwaker
  BY DEF Roused, Conn

\* wake_reader and wake_writer take the waker of a half that is not marked.
LEMMA WakeRouses ==
    ASSUME NEW c \in Conn
    PROVE  /\ Roused(c, wake_reader(c)) /\ Roused(c, wake_writer(c))
           /\ ~c.reader_dropped => ~wake_reader(c).rwaker
           /\ ~c.writer_dropped => ~wake_writer(c).wwaker
<1> DEFINE r == Woken(c.reader)
           w == Woken(c.writer)
<1>1. wake_reader(c) = IF ~c.reader_dropped /\ c.rwaker
                       THEN [c EXCEPT !.rwaker = FALSE, !.reader = r] ELSE c
  BY DEF wake_reader
<1>2. wake_writer(c) = IF ~c.writer_dropped /\ c.wwaker
                       THEN [c EXCEPT !.wwaker = FALSE, !.writer = w] ELSE c
  BY DEF wake_writer
<1>3. /\ \A d : Roused(c, d) <=>
           /\ d.reader_dropped = c.reader_dropped
           /\ d.writer_dropped = c.writer_dropped
           /\ \/ d.rwaker = c.rwaker /\ d.reader = c.reader
              \/ c.rwaker /\ ~d.rwaker /\ d.reader = r
           /\ \/ d.wwaker = c.wwaker /\ d.writer = c.writer
              \/ c.wwaker /\ ~d.wwaker /\ d.writer = w
  BY DEF Roused
<1> HIDE DEF r, w
<1> QED BY <1>1, <1>2, <1>3 DEF Conn

\* wake_to_close takes the wakers of those whose direction has ended.
LEMMA WakeToCloseRouses ==
    ASSUME NEW c \in Conn
    PROVE  LET d == wake_to_close(c)
           IN  /\ d \in Conn /\ d.tcp = c.tcp /\ Roused(c, d)
               /\ ~c.reader_dropped /\ ~may_recv(c.tcp) => ~d.rwaker
               /\ ~c.writer_dropped /\ ~may_send(c.tcp) => ~d.wwaker
               /\ ~c.rwaker => ~d.rwaker
<1> DEFINE r == IF may_recv(c.tcp) THEN c ELSE wake_reader(c)
<1>0. Roused(c, c)
  BY DEF Roused
<1>1. /\ r \in Conn /\ r.tcp = c.tcp /\ Roused(c, r)
      /\ ~c.reader_dropped /\ ~may_recv(c.tcp) => ~r.rwaker
  BY <1>0, WakeRouses, WakeReader
<1>2. wake_to_close(c) = IF may_send(r.tcp) THEN r ELSE wake_writer(r)
  BY DEF wake_to_close
<1> HIDE DEF r
<1>3. r.writer_dropped = c.writer_dropped /\ (~c.rwaker => ~r.rwaker)
  BY <1>1 DEF Roused, Conn
<1>4. CASE may_send(r.tcp)
  BY <1>1, <1>2, <1>3, <1>4
<1>5. CASE ~may_send(r.tcp)
  <2>1. /\ wake_writer(r) \in Conn /\ wake_writer(r).tcp = r.tcp
        /\ Roused(r, wake_writer(r))
        /\ ~r.writer_dropped => ~wake_writer(r).wwaker
    BY <1>1, WakeRouses, WakeWriter
  <2>2. Roused(c, wake_writer(r)) /\ (~r.rwaker => ~wake_writer(r).rwaker)
    BY <1>1, <2>1, RousedTwice
  <2> QED BY <1>1, <1>2, <1>3, <1>5, <2>1, <2>2
<1> QED BY <1>4, <1>5

\* Connection::process wakes a reader that has data or has come to the end, and
\* a writer that has come to the end.
LEMMA ProcessRouses ==
    ASSUME NEW c \in Conn, NEW result, result.tcp \in Tcp
    PROVE  LET d == ConnProcess(c, result)
           IN  /\ d \in Conn /\ d.tcp = result.tcp /\ Roused(c, d)
               /\ ~c.reader_dropped /\ ReadCond(d.tcp) # "none" => ~d.rwaker
               /\ ~c.writer_dropped /\ WriteCond(d.tcp) = "end" => ~d.wwaker
<1> DEFINE b == [c EXCEPT !.tcp = result.tcp]
           e == IF can_recv(b.tcp) THEN wake_reader(b) ELSE b
           d == wake_to_close(e)
<1>1. b \in Conn /\ b.tcp = result.tcp /\ Roused(c, b)
  BY DEF Conn, Roused
<1>2. ConnProcess(c, result) = d
  BY DEF ConnProcess
<1> HIDE DEF b
<1>3. /\ e \in Conn /\ e.tcp = result.tcp /\ Roused(b, e)
      /\ ~b.reader_dropped /\ can_recv(result.tcp) => ~e.rwaker
  BY <1>1, WakeRouses, WakeReader DEF Roused
<1> HIDE DEF e
<1>4. /\ Roused(c, e) /\ e.reader_dropped = c.reader_dropped
      /\ b.reader_dropped = c.reader_dropped /\ e.writer_dropped = c.writer_dropped
  BY <1>1, <1>3, RousedTwice DEF Roused
<1>5. /\ d \in Conn /\ d.tcp = result.tcp /\ Roused(e, d)
      /\ ~c.reader_dropped /\ ~may_recv(result.tcp) => ~d.rwaker
      /\ ~c.writer_dropped /\ ~may_send(result.tcp) => ~d.wwaker
      /\ ~e.rwaker => ~d.rwaker
  BY <1>3, <1>4, WakeToCloseRouses
<1> HIDE DEF d
<1>6. Roused(c, d)
  BY <1>3, <1>4, <1>5, RousedTwice
<1>7. /\ ReadCond(result.tcp) # "none" => can_recv(result.tcp) \/ ~may_recv(result.tcp)
      /\ WriteCond(result.tcp) = "end" => ~may_send(result.tcp)
  BY DEF ReadCond, WriteCond
<1> QED BY <1>2, <1>3, <1>4, <1>5, <1>6, <1>7

\* Connection::dispatch wakes a writer that has room, and whoever has come to the
\* end.
LEMMA DispatchRouses ==
    ASSUME NEW c \in Conn
    PROVE  LET d == ConnDispatch(c).conn
           IN  /\ d \in Conn /\ d.tcp = tcp_dispatch(c.tcp).tcp /\ Roused(c, d)
               /\ ~c.reader_dropped /\ ReadCond(d.tcp) = "end" => ~d.rwaker
               /\ ~c.writer_dropped /\ WriteCond(d.tcp) # "none" => ~d.wwaker
<1> DEFINE t == tcp_dispatch(c.tcp).tcp
           b == [c EXCEPT !.tcp = t]
           e == wake_to_close(b)
           w == IF can_send(e.tcp) THEN wake_writer(e) ELSE e
           a == ActiveNext(c, poll_at(t))
           v == [w EXCEPT !.polling_active = a]
<1>1. t \in Tcp
  BY DispatchType DEF Conn
<1>2. ConnDispatch(c).conn = v
  BY DEF ConnDispatch, DispatchWakes
<1>a. a \in BOOLEAN
  BY DEF ActiveNext
<1> HIDE DEF t
<1>3. b \in Conn /\ b.tcp = t /\ Roused(c, b)
  BY <1>1 DEF Conn, Roused
<1> HIDE DEF b
<1>4. /\ e \in Conn /\ e.tcp = t /\ Roused(b, e)
      /\ ~b.reader_dropped /\ ~may_recv(t) => ~e.rwaker
      /\ ~b.writer_dropped /\ ~may_send(t) => ~e.wwaker
  BY <1>3, WakeToCloseRouses
<1> HIDE DEF e
<1>5. /\ Roused(c, e) /\ b.reader_dropped = c.reader_dropped
      /\ b.writer_dropped = c.writer_dropped /\ e.writer_dropped = c.writer_dropped
  BY <1>3, <1>4, RousedTwice DEF Roused
<1>6. /\ w \in Conn /\ w.tcp = t /\ Roused(e, w)
      /\ ~e.writer_dropped /\ can_send(t) => ~w.wwaker
  BY <1>4, WakeRouses, WakeWriter DEF Roused
<1> HIDE DEF w, a
<1>7. /\ Roused(c, w)
      /\ ~c.reader_dropped /\ ~may_recv(t) => ~w.rwaker
      /\ ~c.writer_dropped /\ (~may_send(t) \/ can_send(t)) => ~w.wwaker
  BY <1>4, <1>5, <1>6, RousedTwice
<1>8. /\ v \in Conn /\ v.tcp = t /\ v.rwaker = w.rwaker /\ v.wwaker = w.wwaker
      /\ v.reader = w.reader /\ v.writer = w.writer
      /\ v.reader_dropped = w.reader_dropped /\ v.writer_dropped = w.writer_dropped
  BY <1>6, <1>a DEF Conn
<1> HIDE DEF v
<1>9. Roused(c, v)
  BY <1>7, <1>8 DEF Roused
<1>10. /\ ReadCond(t) = "end" => ~may_recv(t)
       /\ WriteCond(t) # "none" => can_send(t) \/ ~may_send(t)
  BY DEF ReadCond, WriteCond, can_recv
<1> QED BY <1>2, <1>7, <1>8, <1>9, <1>10 DEF t

\* drop_half moves no half and takes no waker; it closes the socket only if the
\* writer is marked.
LEMMA DropHalfSeen ==
    ASSUME NEW c \in Conn, NEW rw \in {"Read", "Write"}
    PROVE  LET d == ConnDropHalf(c, rw).conn
           IN  /\ d.reader = c.reader /\ d.writer = c.writer
               /\ d.rwaker = c.rwaker /\ d.wwaker = c.wwaker
               /\ \/ d.tcp = c.tcp
                  \/ /\ d.tcp = tcp_close(c.tcp)
                     /\ rw = "Write" \/ c.writer_dropped
<1> DEFINE m == MarkDropped(c, rw)
           u == tcp_close(c.tcp)
           e == [m EXCEPT !.tcp = u]
<1>1. /\ m \in Conn /\ m.tcp = c.tcp /\ m.reader = c.reader /\ m.writer = c.writer
      /\ m.rwaker = c.rwaker /\ m.wwaker = c.wwaker
      /\ m.writer_dropped => rw = "Write" \/ c.writer_dropped
  BY DEF MarkDropped, Conn
<1>2. ConnDropHalf(c, rw).conn = IF ~m.writer_dropped THEN m ELSE e
  BY <1>1 DEF ConnDropHalf
<1> HIDE DEF m, u
<1>3. /\ e.tcp = u /\ e.reader = m.reader /\ e.writer = m.writer
      /\ e.rwaker = m.rwaker /\ e.wwaker = m.wwaker
  BY <1>1 DEF Conn
<1> HIDE DEF e
<1> QED BY <1>1, <1>2, <1>3 DEF u

-----------------------------------------------------------------------------
(* The steps of Ustunet as steps of Handoff.                               *)

\* What Handoff sees of a connection.
View(c) == <<CondOf(c), WakerOf(c), AsleepOf(c)>>

\* A step of Handoff at the pair, or none.
HandStep(h) == Methods(h)!HandoffNext \/ UNCHANGED Methods(h)!handoffVars

\* What is not seen of a connection may change.
LEMMA UnseenStep ==
    ASSUME NEW h, View(conn'[h]) = View(conn[h])
    PROVE  HandStep(h)
  BY DEF HandStep, View, Methods!handoffVars

\* A wake-up of the I/O loop that passes over nobody it has to wake is a step
\* Serve of Handoff.
LEMMA ServeStep ==
    ASSUME NEW h, NEW kind \in {"process", "dispatch"},
           conn[h] \in Conn, conn'[h] \in Conn,
           Marked(conn[h]), Roused(conn[h], conn'[h]),
           LET c == conn[h]
               d == conn'[h]
           IN  /\ ~c.reader_dropped /\ d.rwaker => ReadCond(d.tcp) # "end"
               /\ ~c.writer_dropped /\ d.wwaker => WriteCond(d.tcp) # "end"
               /\ kind = "process" =>
                     (~c.reader_dropped /\ d.rwaker => ReadCond(d.tcp) = "none")
               /\ kind = "dispatch" =>
                     /\ ~c.writer_dropped /\ d.wwaker => WriteCond(d.tcp) = "none"
                     /\ ReadCond(d.tcp) \in {ReadCond(c.tcp), "end"}
                     /\ WriteCond(d.tcp) \in {WriteCond(c.tcp), "end"}
    PROVE  HandStep(h)
<1> DEFINE c == conn[h]
           d == conn'[h]
           woken == WakerOf(c) \ WakerOf(d)
<1>1. \A half : Woken(half) = "gone" <=> half = "gone"
  BY DEF Woken
<1>2. \A half : Woken(half) # "wait" /\ (half # "wait" => Woken(half) = half)
  BY DEF Woken
<1>3. WakerOf(d) = WakerOf(c) \ woken
  <2>1. WakerOf(d) \subseteq WakerOf(c)
    BY <1>1 DEF Roused, WakerOf, Conn
  <2> QED BY <2>1
<1>4. AsleepOf(d) = AsleepOf(c) \ woken
  BY <1>1, <1>2 DEF Roused, WakerOf, AsleepOf, Conn
<1>5. CondOf(d) \in Methods(h)!Changes(kind, CondOf(c))
  BY DEF Methods!Changes, Methods!Halves, Methods!Conds, CondOf, ReadCond, WriteCond
<1>6. Methods(h)!MustWake(kind, CondOf(d)) \cap WakerOf(c) \subseteq woken
  <2>1. WakerOf(d) \cap Methods(h)!MustWake(kind, CondOf(d)) \cap WakerOf(c) = {}
    BY DEF Methods!MustWake, Methods!Halves, CondOf, WakerOf, Marked
  <2> QED BY <2>1
<1> HIDE DEF woken
<1>7. woken \in SUBSET WakerOf(c)
  BY DEF woken
<1>8. Methods(h)!Serve(kind)
  BY <1>3, <1>4, <1>5, <1>6, <1>7 DEF Methods!Serve
<1> QED BY <1>8 DEF HandStep, Methods!HandoffNext


\* A read with room in its buffer is served, or finds nothing and sleeps.
LEMMA ReadStep ==
    ASSUME NEW h, conn[h] \in Conn, conn[h].reader \in Running,
           NEW n \in 0..conn[h].tcp.rx, can_recv(conn[h].tcp) => n > 0,
           conn'[h] = ConnPollRead(conn[h], n)
    PROVE  HandStep(h)
<1> DEFINE c == conn[h]
           d == conn'[h]
           u == recv_slice(c.tcp, n)
           f == IF c.eof_reached THEN "failed" ELSE "run"
<1>1. c.tcp \in Tcp
  BY DEF Conn
<1>2. "read" \notin AsleepOf(c) /\ c.reader # "gone" /\ f \in Running
  BY DEF AsleepOf, Running
<1>3. CASE can_recv(c.tcp)
  <2>1. d = [c EXCEPT !.tcp = u, !.reader = "run"]
    BY <1>3 DEF ConnPollRead
  <2>2. ReadCond(u) \in {"some", "none", "end"} /\ WriteCond(u) = WriteCond(c.tcp)
    BY <1>1, <1>3, RecvConds
  <2> HIDE DEF u
  <2>3. d.tcp = u /\ WakerOf(d) = WakerOf(c) /\ AsleepOf(d) = AsleepOf(c)
    BY <1>2, <2>1 DEF Conn, WakerOf, AsleepOf, Running
  <2>4. ReadCond(c.tcp) = "some" /\ CondOf(c)["read"] = "some"
    BY <1>3 DEF ReadCond, CondOf
  <2>5. CondOf(d) = CondOf(c) \/ CondOf(d) \in {[CondOf(c) EXCEPT !["read"] = x] :
                                                   x \in {"none", "end"}}
    BY <2>2, <2>3, <2>4 DEF CondOf
  <2>6. CondOf(d) \in Methods(h)!Served("read", CondOf(c))
    BY <2>4, <2>5 DEF Methods!Served
  <2>7. Methods(h)!Take("read")
    BY <1>2, <2>3, <2>4, <2>6 DEF Methods!Take
  <2> QED BY <2>7 DEF HandStep, Methods!HandoffNext, Methods!Halves
<1>4. CASE ~can_recv(c.tcp) /\ (may_recv(c.tcp) \/ c.tcp.state = "SynReceived")
  <2>1. d = [c EXCEPT !.rwaker = TRUE, !.reader = "wait"]
    BY <1>4 DEF ConnPollRead
  <2>2. CondOf(c)["read"] = "none"
    BY <1>4 DEF CondOf, ReadCond
  <2>3. /\ WakerOf(d) = WakerOf(c) \cup {"read"}
        /\ AsleepOf(d) = AsleepOf(c) \cup {"read"} /\ d.tcp = c.tcp
    BY <2>1 DEF Conn, WakerOf, AsleepOf
  <2>4. Methods(h)!Park("read")
    BY <1>2, <2>2, <2>3 DEF Methods!Park, CondOf
  <2> QED BY <2>4 DEF HandStep, Methods!HandoffNext, Methods!Halves
<1>5. CASE ~can_recv(c.tcp) /\ ~(may_recv(c.tcp) \/ c.tcp.state = "SynReceived")
  <2>1. d = [c EXCEPT !.eof_reached = TRUE, !.reader = f]
    BY <1>5 DEF ConnPollRead
  <2> HIDE DEF f
  <2>2. View(d) = View(c)
    BY <1>2, <2>1 DEF View, Conn, CondOf, WakerOf, AsleepOf, Running
  <2> QED BY <2>2, UnseenStep
<1> QED BY <1>3, <1>4, <1>5

\* A write of something is served, fails, or finds no room and sleeps.
LEMMA WriteStep ==
    ASSUME NEW h, conn[h] \in Conn, conn[h].writer \in Running,
           NEW n \in Nat, can_send(conn[h].tcp) => n > 0,
           conn'[h] = ConnPollWrite(conn[h], n)
    PROVE  HandStep(h)
<1> DEFINE c == conn[h]
           d == conn'[h]
           u == send_slice(c.tcp, n)
<1>1. c.tcp \in Tcp
  BY DEF Conn
<1>2. "write" \notin AsleepOf(c) /\ c.writer # "gone"
  BY DEF AsleepOf, Running
<1>3. CASE can_send(c.tcp)
  <2>1. d = [c EXCEPT !.tcp = u, !.writer = "run"]
    BY <1>3 DEF ConnPollWrite
  <2>2. WriteCond(u) \in {"some", "none"} /\ ReadCond(u) = ReadCond(c.tcp)
    BY <1>1, <1>3, SendConds
  <2> HIDE DEF u
  <2>3. d.tcp = u /\ WakerOf(d) = WakerOf(c) /\ AsleepOf(d) = AsleepOf(c)
    BY <1>2, <2>1 DEF Conn, WakerOf, AsleepOf, Running
  <2>4. WriteCond(c.tcp) = "some" /\ CondOf(c)["write"] = "some"
    BY <1>3 DEF WriteCond, CondOf
  <2>5. CondOf(d) = CondOf(c) \/ CondOf(d) = [CondOf(c) EXCEPT !["write"] = "none"]
    BY <2>2, <2>3, <2>4 DEF CondOf
  <2>6. CondOf(d) \in Methods(h)!Served("write", CondOf(c))
    BY <2>4, <2>5 DEF Methods!Served
  <2>7. Methods(h)!Take("write")
    BY <1>2, <2>3, <2>4, <2>6 DEF Methods!Take
  <2> QED BY <2>7 DEF HandStep, Methods!HandoffNext, Methods!Halves
<1>4. CASE ~can_send(c.tcp) /\ ~may_send(c.tcp)
  <2>1. d = [c EXCEPT !.writer = "failed"]
    BY <1>4 DEF ConnPollWrite
  <2>2. View(d) = View(c)
    BY <1>2, <2>1 DEF View, Conn, CondOf, WakerOf, AsleepOf, Running
  <2> QED BY <2>2, UnseenStep
<1>5. CASE ~can_send(c.tcp) /\ may_send(c.tcp)
  <2>1. d = [c EXCEPT !.wwaker = TRUE, !.writer = "wait"]
    BY <1>5 DEF ConnPollWrite
  <2>2. CondOf(c)["write"] = "none"
    BY <1>5 DEF CondOf, WriteCond
  <2>3. /\ WakerOf(d) = WakerOf(c) \cup {"write"}
        /\ AsleepOf(d) = AsleepOf(c) \cup {"write"} /\ d.tcp = c.tcp
    BY <2>1 DEF Conn, WakerOf, AsleepOf
  <2>4. Methods(h)!Park("write")
    BY <1>2, <2>2, <2>3 DEF Methods!Park, CondOf
  <2> QED BY <2>4 DEF HandStep, Methods!HandoffNext, Methods!Halves
<1> QED BY <1>3, <1>4, <1>5

\* Closing a socket whose writer does not sleep disturbs nobody.
LEMMA CloseStep ==
    ASSUME NEW h, conn[h].tcp \in Tcp, Coherent(conn[h].tcp),
           conn'[h].tcp = tcp_close(conn[h].tcp), conn[h].writer # "wait",
           WakerOf(conn'[h]) = WakerOf(conn[h]),
           AsleepOf(conn'[h]) = AsleepOf(conn[h])
    PROVE  HandStep(h)
<1>1. /\ ReadCond(conn'[h].tcp) = ReadCond(conn[h].tcp)
      /\ WriteCond(conn'[h].tcp) = "end"
  BY CloseConds
<1>2. CondOf(conn'[h]) = [CondOf(conn[h]) EXCEPT !["write"] = "end"]
  BY <1>1 DEF CondOf
<1>3. "write" \notin AsleepOf(conn[h])
  BY DEF AsleepOf
<1>4. Methods(h)!Close
  BY <1>2, <1>3 DEF Methods!Close
<1> QED BY <1>4 DEF HandStep, Methods!HandoffNext

\* A half that gives up waiting keeps its waker with the loop; one that is dropped
\* takes no more notice of it.
LEMMA HalfEnds ==
    ASSUME NEW h, conn[h] \in Conn,
           \/ conn[h].reader = "wait" /\ conn'[h] = [conn[h] EXCEPT !.reader = "run"]
           \/ conn[h].writer = "wait" /\ conn'[h] = [conn[h] EXCEPT !.writer = "run"]
           \/ conn'[h] = [conn[h] EXCEPT !.reader = "gone"]
           \/ conn'[h] = [conn[h] EXCEPT !.writer = "gone"]
    PROVE  HandStep(h)
<1> DEFINE c == conn[h]
           d == conn'[h]
<1> USE DEF HandStep, Methods!HandoffNext, Methods!Halves, Methods!Cancel, Methods!Leave
<1>1. CASE c.reader = "wait" /\ d = [c EXCEPT !.reader = "run"]
  <2>1. /\ "read" \in AsleepOf(c) /\ AsleepOf(d) = AsleepOf(c) \ {"read"}
        /\ WakerOf(d) = WakerOf(c) /\ CondOf(d) = CondOf(c)
    BY <1>1 DEF Conn, AsleepOf, WakerOf, CondOf
  <2> QED BY <2>1
<1>2. CASE c.writer = "wait" /\ d = [c EXCEPT !.writer = "run"]
  <2>1. /\ "write" \in AsleepOf(c) /\ AsleepOf(d) = AsleepOf(c) \ {"write"}
        /\ WakerOf(d) = WakerOf(c) /\ CondOf(d) = CondOf(c)
    BY <1>2 DEF Conn, AsleepOf, WakerOf, CondOf
  <2> QED BY <2>1
<1>3. CASE d = [c EXCEPT !.reader = "gone"]
  <2>1. /\ AsleepOf(d) = AsleepOf(c) \ {"read"}
        /\ WakerOf(d) = WakerOf(c) \ {"read"} /\ CondOf(d) = CondOf(c)
    BY <1>3 DEF Conn, AsleepOf, WakerOf, CondOf
  <2> QED BY <2>1
<1>4. CASE d = [c EXCEPT !.writer = "gone"]
  <2>1. /\ AsleepOf(d) = AsleepOf(c) \ {"write"}
        /\ WakerOf(d) = WakerOf(c) \ {"write"} /\ CondOf(d) = CondOf(c)
    BY <1>4 DEF Conn, AsleepOf, WakerOf, CondOf
  <2> QED BY <2>1
<1> QED BY <1>1, <1>2, <1>3, <1>4


\* A half that the application does not have yet has left no waker.
Fresh(c) == /\ c.reader \in {"none", "held"} => ~c.rwaker
            /\ c.writer \in {"none", "held"} => ~c.wwaker

FreshInv == \A h \in Handles : Fresh(conn[h])

\* Waking, closing and moving a half on leave it so.
LEMMA RousedFresh ==
    ASSUME NEW c, NEW d, Fresh(c), Roused(c, d) PROVE Fresh(d)
<1>1. \A half : Woken(half) \in {"none", "held"} => half \in {"none", "held"}
  BY DEF Woken
<1> QED BY <1>1 DEF Fresh, Roused

\* The halves are new when no half has left a waker.
LEMMA InitFresh == Init => FreshInv
<1>1. Fresh(NoConn)
  BY DEF Fresh, NoConn, NewConn
<1> QED BY <1>1 DEF Init, FreshInv

\* Only a poll leaves a waker, and only the application polls.
LEMMA NextFresh == ASSUME IndInv, FreshInv, [Next]_vars PROVE FreshInv'
<1>t. conn \in [Handles -> Conn]
  BY DEF IndInv, TypeOK
<1>f. \A h \in Handles : Fresh(conn[h])
  BY DEF FreshInv
<1>0. ASSUME NEW h \in Handles, NEW c, conn' = [conn EXCEPT ![h] = c], Fresh(c)
      PROVE  FreshInv'
  BY <1>t, <1>f, <1>0 DEF FreshInv
<1>1. CASE conn' = conn
  BY <1>1, <1>f DEF FreshInv
<1>2. CASE Dispatch
  <2>1. PICK h \in Handles : h = next_poll
    BY <1>2 DEF Dispatch, IndInv, TypeOK
  <2>2. \/ conn' = [conn EXCEPT ![h] = NoConn]
        \/ conn' = [conn EXCEPT ![h] = ConnDispatch(conn[h]).conn]
    BY <1>2, <2>1 DEF Dispatch
  <2>3. Roused(conn[h], ConnDispatch(conn[h]).conn)
    BY <1>t, DispatchRouses
  <2>4. Fresh(NoConn) /\ Fresh(ConnDispatch(conn[h]).conn)
    BY <1>f, <2>3, RousedFresh DEF Fresh, NoConn, NewConn
  <2> QED BY <1>0, <2>2, <2>4
<1>3. ASSUME NEW h \in Handles, NEW kind \in Kinds, ProcessSegment(h, kind)
      PROVE  FreshInv'
  <2>1. CASE conn' = conn
    BY <1>1, <2>1
  <2>2. CASE \E result \in tcp_process(conn[h].tcp, kind) :
                conn' = [conn EXCEPT ![h] = ConnProcess(conn[h], result)]
    <3>1. PICK result \in tcp_process(conn[h].tcp, kind) :
                conn' = [conn EXCEPT ![h] = ConnProcess(conn[h], result)]
      BY <2>2
    <3>2. result.tcp \in Tcp
      BY <1>t, ProcessType DEF Conn
    <3>3. Roused(conn[h], ConnProcess(conn[h], result))
      BY <1>t, <3>2, ProcessRouses
    <3> QED BY <1>0, <1>f, <3>1, <3>3, RousedFresh
  <2> QED BY <1>3, <2>1, <2>2 DEF ProcessSegment
<1>4. CASE ProcessSyn
  <2>1. cur \in Handles /\ "syn" \in Kinds
    BY <1>4 DEF ProcessSyn, IndInv, StreamsInTransit, TypeOK, Gone, Kinds
  <2> QED BY <1>3, <1>4, <2>1 DEF ProcessSyn
<1>5. CASE \E h \in Handles, kind \in Segments : Receive(h, kind)
  BY <1>3, <1>5 DEF Receive
<1>6. CASE \E h \in Handles : CreateSyn(h)
  <2>1. Fresh(NewConn)
    BY DEF Fresh, NewConn
  <2> QED BY <1>0, <1>6, <2>1 DEF CreateSyn
<1>7. CASE DropTcpHalf
  <2>1. CASE Head(closing).handle \notin sockets
    BY <1>1, <1>7, <2>1 DEF DropTcpHalf, EndLoop
  <2>2. CASE Head(closing).handle \in sockets
    <3>1. PICK m \in CloseMsg : m = Head(closing)
      BY <1>7 DEF DropTcpHalf, IndInv, TypeOK
    <3>2. m.handle \in Handles /\ m.rw \in {"Read", "Write"}
      BY DEF CloseMsg
    <3>3. conn' = [conn EXCEPT ![m.handle] = ConnDropHalf(conn[m.handle], m.rw).conn]
      BY <1>7, <2>2, <3>1 DEF DropTcpHalf
    <3>4. Fresh(ConnDropHalf(conn[m.handle], m.rw).conn)
      BY <1>t, <1>f, <3>2, DropHalfSeen DEF Fresh
    <3> QED BY <1>0, <3>2, <3>3, <3>4
  <2> QED BY <2>1, <2>2
<1>8. ASSUME NEW h \in Handles, PollRead(h) PROVE FreshInv'
  <2>1. PICK n : conn' = [conn EXCEPT ![h] = ConnPollRead(conn[h], n)]
    BY <1>8, <1>t DEF PollRead
  <2> DEFINE f == IF conn[h].eof_reached THEN "failed" ELSE "run"
  <2>2. f \notin {"none", "held"}
    OBVIOUS
  <2>3. ConnPollRead(conn[h], n) \in
            {[conn[h] EXCEPT !.tcp = recv_slice(conn[h].tcp, n), !.reader = "run"],
             [conn[h] EXCEPT !.rwaker = TRUE, !.reader = "wait"],
             [conn[h] EXCEPT !.eof_reached = TRUE, !.reader = f]}
    BY DEF ConnPollRead
  <2> HIDE DEF f
  <2>4. Fresh(ConnPollRead(conn[h], n))
    BY <1>t, <1>f, <2>2, <2>3 DEF Fresh, Conn
  <2> QED BY <1>0, <2>1, <2>4
<1>9. ASSUME NEW h \in Handles, PollWrite(h) \/ PollClose(h) PROVE FreshInv'
  <2>1. PICK d : /\ Notify(h, d)
                 /\ d = ConnPollClose(conn[h]) \/ \E n : d = ConnPollWrite(conn[h], n)
    BY <1>9 DEF PollWrite, PollClose
  <2>2. conn' = [conn EXCEPT ![h] = d] \/ conn' = [conn EXCEPT ![h] = SendOrPanic(d)]
    BY <2>1 DEF Notify
  <2>3. /\ d.reader = conn[h].reader /\ d.rwaker = conn[h].rwaker
        /\ d.writer \notin {"none", "held"}
        /\ \A w : [d EXCEPT !.writer = w].reader = d.reader
        /\ \A w : [d EXCEPT !.writer = w].rwaker = d.rwaker
        /\ \A w : [d EXCEPT !.writer = w].writer = w
    BY <1>t, <2>1 DEF ConnPollClose, ConnPollWrite, Conn
  <2>4. Fresh(d) /\ Fresh(SendOrPanic(d))
    BY <1>f, <2>3 DEF Fresh, SendOrPanic
  <2> QED BY <1>0, <2>2, <2>4
<1>10. ASSUME NEW h \in Handles,
              \/ CancelRead(h) \/ CancelWrite(h) \/ DropReader(h) \/ DropWriter(h)
       PROVE  FreshInv'
  <2>1. PICK s : /\ s \notin {"none", "held"}
                 /\ \/ conn' = [conn EXCEPT ![h] = [conn[h] EXCEPT !.reader = s]]
                    \/ conn' = [conn EXCEPT ![h] = [conn[h] EXCEPT !.writer = s]]
    BY <1>10, <1>t DEF CancelRead, CancelWrite, DropReader, DropWriter
  <2>2. Fresh([conn[h] EXCEPT !.reader = s]) /\ Fresh([conn[h] EXCEPT !.writer = s])
    BY <1>t, <1>f, <2>1 DEF Fresh, Conn
  <2> QED BY <1>0, <2>1, <2>2
<1>11. CASE SendStreamFails \/ Accept \/ DropListener
  <2> DEFINE To(h, s) == [conn EXCEPT ![h] = [conn[h] EXCEPT !.reader = s,
                                                             !.writer = s]]
  <2>1. ASSUME NEW h, NEW s, s # "none", s # "held", conn' = To(h, s)
        PROVE  FreshInv'
    BY <1>t, <1>f, <2>1 DEF FreshInv, Fresh, Conn
  <2>2. conn' = To(cur, "gone") => FreshInv'
    BY <2>1
  <2>3. conn' = To(Head(incoming), "run") => FreshInv'
    BY <2>1
  <2>4. conn' = To(Head(incoming), "gone") => FreshInv'
    BY <2>1
  <2>5. conn' = To(Head(incoming), "panicked") => FreshInv'
    BY <2>1
  <2> QED BY <1>1, <1>11, <2>2, <2>3, <2>4, <2>5
          DEF SendStreamFails, Accept, DropListener
<1>12. CASE Tick
  BY <1>12, <1>t, <1>f DEF Tick, FreshInv, Fresh, Conn
<1>13. CASE \/ NothingToWrite \/ PollPending \/ Written \/ WriteReply
            \/ DispatchPanics \/ DeviceError \/ SendStream \/ PollUpdate
            \/ \E h \in Handles, kind \in Segments : Drop(h, kind)
            \/ \E h \in Handles : Expire(h)
            \/ UNCHANGED vars
  BY <1>1, <1>13 DEF NothingToWrite, PollPending, Written, WriteReply,
     DispatchPanics, DeviceError, EndLoop, SendStream, PollUpdate, Drop, Expire, vars
<1> QED BY <1>2, <1>4, <1>5, <1>6, <1>7, <1>8, <1>9, <1>10, <1>11, <1>12, <1>13
        DEF Next, LoopStep, AppStep, EnvStep


\* The I/O loop at a connection of the pool.
LEMMA LoopHands ==
    ASSUME IndInv, WakeInv, NEW h \in sockets, h \in sockets',
           \/ Dispatch
           \/ DropTcpHalf
           \/ \E g \in Handles, kind \in Kinds : ProcessSegment(g, kind)
    PROVE  HandStep(h)
<1>h. h \in Handles /\ conn[h] \in Conn /\ ~Gone /\ Marked(conn[h])
  BY PooledMarked
<1>c. conn[h].tcp \in Tcp /\ Coherent(conn[h].tcp)
  BY <1>h DEF WakeInv, Attended, Conn
<1>t. conn \in [Handles -> Conn]
  BY DEF IndInv, TypeOK
<1>0. CASE conn'[h] = conn[h]
  BY <1>0, UnseenStep
<1>1. CASE Dispatch /\ next_poll # h
  <2>1. conn'[h] = conn[h]
    BY <1>1, <1>t, <1>h DEF Dispatch
  <2> QED BY <1>0, <2>1
<1>2. CASE Dispatch /\ next_poll = h
  <2> DEFINE d == ConnDispatch(conn[h]).conn
  <2>1. conn'[h] = d
    BY <1>2, <1>t, <1>h DEF Dispatch
  <2>2. /\ d \in Conn /\ d.tcp = tcp_dispatch(conn[h].tcp).tcp /\ Roused(conn[h], d)
        /\ ~conn[h].reader_dropped /\ ReadCond(d.tcp) = "end" => ~d.rwaker
        /\ ~conn[h].writer_dropped /\ WriteCond(d.tcp) # "none" => ~d.wwaker
    BY <1>h, DispatchRouses
  <2>3. /\ ReadCond(d.tcp) \in {ReadCond(conn[h].tcp), "end"}
        /\ WriteCond(d.tcp) \in {WriteCond(conn[h].tcp), "end"}
    BY <1>c, <2>2, DispatchConds
  <2> HIDE DEF d
  <2> QED BY <1>h, <2>1, <2>2, <2>3, ServeStep
<1>3. CASE DropTcpHalf
  <2>1. Head(closing).handle \in sockets
    BY <1>3 DEF DropTcpHalf, EndLoop
  <2>2. PICK i \in DOMAIN closing : closing[i] = Head(closing)
    BY <1>3 DEF DropTcpHalf, IndInv, TypeOK
  <2>3. PICK m \in CloseMsg : m = Head(closing)
    BY <1>3 DEF DropTcpHalf, IndInv, TypeOK
  <2>4. m.handle \in Handles /\ m.rw \in {"Read", "Write"}
    BY DEF CloseMsg
  <2>5. conn' = [conn EXCEPT ![m.handle] = ConnDropHalf(conn[m.handle], m.rw).conn]
    BY <1>3, <2>1, <2>3 DEF DropTcpHalf
  <2>6. CASE m.handle # h
    BY <1>0, <1>t, <1>h, <2>5, <2>6
  <2>7. CASE m.handle = h
    <3> DEFINE d == ConnDropHalf(conn[h], m.rw).conn
    <3>1. conn'[h] = d
      BY <1>t, <1>h, <2>5, <2>7
    <3>2. HalfOf(conn[h], m.rw) = "gone"
      BY <1>h, <2>2, <2>3, <2>7 DEF IndInv, HalvesAccounted
    <3>3. /\ d.reader = conn[h].reader /\ d.writer = conn[h].writer
          /\ d.rwaker = conn[h].rwaker /\ d.wwaker = conn[h].wwaker
          /\ \/ d.tcp = conn[h].tcp
             \/ /\ d.tcp = tcp_close(conn[h].tcp)
                /\ m.rw = "Write" \/ conn[h].writer_dropped
      BY <1>h, <2>4, DropHalfSeen
    <3> HIDE DEF d
    <3>4. WakerOf(d) = WakerOf(conn[h]) /\ AsleepOf(d) = AsleepOf(conn[h])
      BY <3>3 DEF WakerOf, AsleepOf
    <3>5. CASE d.tcp = conn[h].tcp
      BY <3>1, <3>4, <3>5, UnseenStep DEF View, CondOf
    <3>6. CASE /\ d.tcp = tcp_close(conn[h].tcp)
               /\ m.rw = "Write" \/ conn[h].writer_dropped
      <4>1. conn[h].writer = "gone"
        BY <1>h, <3>2, <3>6 DEF HalfOf, Marked
      <4> QED BY <1>c, <3>1, <3>4, <3>6, <4>1, CloseStep
    <3> QED BY <3>3, <3>5, <3>6
  <2> QED BY <2>6, <2>7
<1>4. ASSUME NEW g \in Handles, NEW kind \in Kinds, ProcessSegment(g, kind)
      PROVE  HandStep(h)
  <2>1. CASE conn' = conn
    BY <1>0, <2>1
  <2>2. CASE \E result \in tcp_process(conn[g].tcp, kind) :
                conn' = [conn EXCEPT ![g] = ConnProcess(conn[g], result)]
    <3>1. PICK result \in tcp_process(conn[g].tcp, kind) :
                conn' = [conn EXCEPT ![g] = ConnProcess(conn[g], result)]
      BY <2>2
    <3>2. CASE g # h
      BY <1>0, <1>t, <1>h, <3>1, <3>2
    <3>3. CASE g = h
      <4> DEFINE d == ConnProcess(conn[h], result)
      <4>1. conn'[h] = d
        BY <1>t, <1>h, <3>1, <3>3
      <4>2. result.tcp \in Tcp
        BY <1>c, <3>3, ProcessType
      <4>3. /\ d \in Conn /\ Roused(conn[h], d)
            /\ ~conn[h].reader_dropped /\ ReadCond(d.tcp) # "none" => ~d.rwaker
            /\ ~conn[h].writer_dropped /\ WriteCond(d.tcp) = "end" => ~d.wwaker
        BY <1>h, <4>2, ProcessRouses
      <4> HIDE DEF d
      <4> QED BY <1>h, <4>1, <4>3, ServeStep
    <3> QED BY <3>2, <3>3
  <2> QED BY <1>4, <2>1, <2>2 DEF ProcessSegment
<1> QED BY <1>1, <1>2, <1>3, <1>4

\* The application at a connection of the pool.
LEMMA AppHands ==
    ASSUME MinBuf = 1, IndInv, WakeInv, FreshInv, NEW h \in sockets, AppStep
    PROVE  HandStep(h)
<1>h. h \in Handles /\ conn[h] \in Conn /\ ~Gone
  BY PooledMarked
<1>c. conn[h].tcp \in Tcp /\ Coherent(conn[h].tcp)
  BY <1>h DEF WakeInv, Attended, Conn
<1>t. conn \in [Handles -> Conn]
  BY DEF IndInv, TypeOK
<1>0. CASE conn'[h] = conn[h]
  BY <1>0, UnseenStep
<1>1. ASSUME NEW g \in Handles, PollRead(g) PROVE HandStep(h)
  <2>1. PICK n \in IF can_recv(conn[g].tcp) THEN MinBuf..conn[g].tcp.rx ELSE {0} :
            conn' = [conn EXCEPT ![g] = ConnPollRead(conn[g], n)]
    BY <1>1, <1>t DEF PollRead
  <2>2. CASE g # h
    BY <1>0, <1>t, <1>h, <2>1, <2>2
  <2>3. CASE g = h
    <3>1. conn'[h] = ConnPollRead(conn[h], n)
      BY <1>t, <1>h, <2>1, <2>3
    <3>2. n \in 0..conn[h].tcp.rx /\ (can_recv(conn[h].tcp) => n > 0)
      BY <1>c, <2>1, <2>3 DEF Tcp, TcpFields
    <3>3. conn[h].reader \in Running
      BY <1>1, <2>3 DEF PollRead
    <3> QED BY <1>h, <3>1, <3>2, <3>3, ReadStep
  <2> QED BY <2>2, <2>3
<1>2. ASSUME NEW g \in Handles, NEW d, Notify(g, d)
      PROVE  IF g = h THEN conn'[h] = d ELSE conn'[h] = conn[h]
  BY <1>t, <1>h, <1>2 DEF Notify, SendOrPanic
<1>3. ASSUME NEW g \in Handles, PollWrite(g) PROVE HandStep(h)
  <2>1. PICK n \in IF can_send(conn[g].tcp) THEN MinBuf..Room(conn[g].tcp) ELSE {0} :
            Notify(g, ConnPollWrite(conn[g], n))
    BY <1>3 DEF PollWrite
  <2>2. CASE g # h
    BY <1>0, <1>2, <2>1, <2>2
  <2>3. CASE g = h
    <3>1. conn'[h] = ConnPollWrite(conn[h], n)
      BY <1>2, <2>1, <2>3
    <3>2. MinBuf..Room(conn[h].tcp) \subseteq 0..Room(conn[h].tcp)
      BY <1>h, BufferSizes
    <3>3. n \in Nat /\ (can_send(conn[h].tcp) => n > 0)
      BY <2>1, <2>3, <3>2
    <3>4. conn[h].writer \in Running
      BY <1>3, <2>3 DEF PollWrite
    <3> QED BY <1>h, <3>1, <3>3, <3>4, WriteStep
  <2> QED BY <2>2, <2>3
<1>4. ASSUME NEW g \in Handles, PollClose(g) PROVE HandStep(h)
  <2>1. Notify(g, ConnPollClose(conn[g])) /\ conn[g].writer \in Running
    BY <1>4 DEF PollClose
  <2>2. CASE g # h
    BY <1>0, <1>2, <2>1, <2>2
  <2>3. CASE g = h
    <3> DEFINE u == tcp_close(conn[h].tcp)
    <3>1. conn'[h] = [conn[h] EXCEPT !.tcp = u, !.writer = "run"]
      BY <1>2, <2>1, <2>3 DEF ConnPollClose
    <3>2. conn[h].writer # "wait" /\ conn[h].writer # "gone"
      BY <2>1, <2>3 DEF Running
    <3> HIDE DEF u
    <3>3. /\ conn'[h].tcp = u /\ WakerOf(conn'[h]) = WakerOf(conn[h])
          /\ AsleepOf(conn'[h]) = AsleepOf(conn[h])
      BY <1>h, <3>1, <3>2 DEF WakerOf, AsleepOf, Conn
    <3> QED BY <1>c, <3>2, <3>3, CloseStep DEF u
  <2> QED BY <2>2, <2>3
<1>5. ASSUME NEW g \in Handles,
             CancelRead(g) \/ CancelWrite(g) \/ DropReader(g) \/ DropWriter(g)
      PROVE  HandStep(h)
  <2>1. CASE g # h
    <3>1. conn'[h] = conn[h]
      BY <1>5, <1>t, <1>h, <2>1 DEF CancelRead, CancelWrite, DropReader, DropWriter
    <3> QED BY <1>0, <3>1
  <2>2. CASE g = h
    <3>1. \/ /\ conn[h].reader = "wait"
             /\ conn'[h] = [conn[h] EXCEPT !.reader = "run"]
          \/ /\ conn[h].writer = "wait"
             /\ conn'[h] = [conn[h] EXCEPT !.writer = "run"]
          \/ conn'[h] = [conn[h] EXCEPT !.reader = "gone"]
          \/ conn'[h] = [conn[h] EXCEPT !.writer = "gone"]
      BY <1>5, <1>t, <1>h, <2>2 DEF CancelRead, CancelWrite, DropReader, DropWriter
    <3> QED BY <1>h, <3>1, HalfEnds
  <2> QED BY <2>1, <2>2
<1>6. CASE Accept \/ DropListener
  <2> DEFINE To(s) == [conn EXCEPT ![Head(incoming)] =
                         [conn[Head(incoming)] EXCEPT !.reader = s, !.writer = s]]
  <2>1. conn' = conn \/ (incoming # <<>> /\ (conn' = To("run") \/ conn' = To("gone")))
    BY <1>6, <1>h DEF Accept, DropListener
  <2>2. CASE conn' = conn
    BY <1>0, <2>2
  <2>3. CASE incoming # <<>> /\ (conn' = To("run") \/ conn' = To("gone"))
    <3>1. PICK i \in DOMAIN incoming : incoming[i] = Head(incoming)
      BY <2>3 DEF IndInv, TypeOK
    <3>2. CASE Head(incoming) # h
      BY <1>0, <1>t, <1>h, <2>3, <3>2
    <3>3. CASE Head(incoming) = h
      <4>1. conn[h].reader = "held" /\ conn[h].writer = "held"
        BY <1>h, <3>1, <3>3 DEF IndInv, StreamsInTransit
      <4>2. ~conn[h].rwaker /\ ~conn[h].wwaker
        BY <1>h, <4>1 DEF FreshInv, Fresh
      <4>3. \/ conn'[h] = [conn[h] EXCEPT !.reader = "run", !.writer = "run"]
            \/ conn'[h] = [conn[h] EXCEPT !.reader = "gone", !.writer = "gone"]
        BY <1>t, <1>h, <2>3, <3>3
      <4> DEFINE c == conn[h]
                 d == conn'[h]
      <4>4. /\ d.tcp = c.tcp /\ d.rwaker = c.rwaker /\ d.wwaker = c.wwaker
            /\ d.reader # "wait" /\ d.writer # "wait"
        BY <1>h, <4>3 DEF Conn
      <4>5. /\ WakerOf(d) = {} /\ WakerOf(c) = {}
            /\ AsleepOf(d) = {} /\ AsleepOf(c) = {}
        BY <4>1, <4>2, <4>4 DEF WakerOf, AsleepOf
      <4>6. View(d) = View(c)
        BY <4>4, <4>5 DEF View, CondOf
      <4> QED BY <4>6, UnseenStep
    <3> QED BY <3>2, <3>3
  <2> QED BY <2>1, <2>2, <2>3
<1> QED BY <1>1, <1>3, <1>4, <1>5, <1>6 DEF AppStep

\* Every step at a connection that stays in the pool.
LEMMA NextHands ==
    ASSUME MinBuf = 1, IndInv, WakeInv, FreshInv, [Next]_vars,
           NEW h \in sockets, h \in sockets'
    PROVE  HandStep(h)
<1>h. h \in Handles /\ conn[h] \in Conn /\ ~Gone
  BY PooledMarked
<1>t. conn \in [Handles -> Conn]
  BY DEF IndInv, TypeOK
<1>0. CASE conn'[h] = conn[h]
  BY <1>0, UnseenStep
<1>1. CASE Dispatch \/ DropTcpHalf
  BY <1>1, LoopHands
<1>2. CASE \/ \E g \in Handles, kind \in Segments : Receive(g, kind)
           \/ ProcessSyn
  <2>1. ProcessSyn => cur \in Handles /\ "syn" \in Kinds
    BY <1>h DEF ProcessSyn, IndInv, StreamsInTransit, TypeOK, Kinds
  <2>2. \E g \in Handles, kind \in Kinds : ProcessSegment(g, kind)
    BY <1>2, <2>1 DEF Receive, ProcessSyn
  <2> QED BY <2>2, LoopHands
<1>3. CASE AppStep
  BY <1>3, AppHands
<1>4. CASE (\E g \in Handles : CreateSyn(g)) \/ SendStreamFails
  <2>1. SendStreamFails => cur \in Handles \ sockets
    BY <1>h DEF SendStreamFails, IndInv, StreamsInTransit
  <2>2. conn'[h] = conn[h]
    BY <1>4, <1>t, <1>h, <2>1 DEF CreateSyn, SendStreamFails
  <2> QED BY <1>0, <2>2
<1>5. CASE Tick
  <2> DEFINE k == Closer(conn[h].tcp.timer)
  <2>1. conn'[h] = [conn[h] EXCEPT !.tcp.timer = k]
    BY <1>5, <1>h, <1>t DEF Tick
  <2> HIDE DEF k
  <2>2. View(conn'[h]) = View(conn[h])
    BY <1>h, <2>1 DEF View, CondOf, WakerOf, AsleepOf, ReadCond, WriteCond, can_recv,
       may_recv, can_send, may_send, Conn, Tcp, TcpFields
  <2> QED BY <2>2, UnseenStep
<1>6. CASE \/ NothingToWrite \/ PollPending \/ Written \/ WriteReply
           \/ DispatchPanics \/ DeviceError \/ SendStream \/ PollUpdate
           \/ \E g \in Handles, kind \in Segments : Drop(g, kind)
           \/ \E g \in Handles : Expire(g)
           \/ UNCHANGED vars
  <2>1. conn' = conn
    BY <1>6 DEF NothingToWrite, PollPending, Written, WriteReply, DispatchPanics,
       DeviceError, EndLoop, SendStream, PollUpdate, Drop, Expire, vars
  <2> QED BY <1>0, <2>1
<1> QED BY <1>1, <1>2, <1>3, <1>4, <1>5, <1>6 DEF Next, LoopStep, EnvStep

\* A connection that enters the pool listens, nobody sleeps on it, and no waker
\* is left.
LEMMA PoolEntry ==
    ASSUME IndInv, WakeInv, FreshInv, [Next]_vars, NEW h \in sockets' \ sockets
    PROVE  Methods(h)!HandoffInit'
<1>t. conn \in [Handles -> Conn]
  BY DEF IndInv, TypeOK
<1>1. h = cur /\ (SendStream \/ SendStreamFails)
  <2>1. CASE AppStep \/ EnvStep \/ UNCHANGED vars
    BY <2>1 DEF AppStep, EnvStep, PollRead, PollWrite, PollClose, CancelRead,
       CancelWrite, DropReader, DropWriter, Accept, DropListener, Tick, DeviceError,
       EndLoop, vars, poolVars
  <2>2. CASE \/ NothingToWrite \/ PollPending \/ Written \/ WriteReply
             \/ DispatchPanics \/ Dispatch \/ ProcessSyn \/ DropTcpHalf
             \/ PollUpdate
             \/ \E g \in Handles : CreateSyn(g) \/ Expire(g)
             \/ \E g \in Handles, kind \in Segments : Receive(g, kind) \/ Drop(g, kind)
    <3>1. sockets' \subseteq sockets
      BY <2>2 DEF NothingToWrite, PollPending, Written, WriteReply, DispatchPanics,
         Dispatch, EndLoop, ProcessSyn, DropTcpHalf, PollUpdate, CreateSyn, Expire,
         Receive, Drop, poolVars
    <3> QED BY <3>1
  <2>3. CASE SendStream \/ SendStreamFails
    BY <2>3 DEF SendStream, SendStreamFails
  <2> QED BY <2>1, <2>2, <2>3 DEF Next, LoopStep
<1>2. ~Gone /\ pc = "send"
  BY <1>1 DEF SendStream, SendStreamFails, Gone
<1>3. h \in Handles \ sockets /\ conn[h].reader = "held" /\ conn[h].writer = "held"
  BY <1>1, <1>2 DEF IndInv, StreamsInTransit
<1>4. conn[h].tcp = ListenTcp /\ ~conn[h].rwaker /\ ~conn[h].wwaker
  BY <1>2, <1>3 DEF WakeInv, FreshInv, Fresh
<1>5. \/ conn'[h] = conn[h]
      \/ conn'[h] = [conn[h] EXCEPT !.reader = "gone", !.writer = "gone"]
  BY <1>1, <1>3, <1>t DEF SendStream, SendStreamFails
<1>6. conn[h] \in Conn
  BY <1>3, <1>t
<1>7. conn'[h].tcp = ListenTcp /\ ~conn'[h].rwaker /\ ~conn'[h].wwaker
      /\ conn'[h].reader # "wait" /\ conn'[h].writer # "wait"
  BY <1>3, <1>4, <1>5, <1>6 DEF Conn
<1>8. ReadCond(ListenTcp) = "end" /\ WriteCond(ListenTcp) = "end"
  BY DEF ListenTcp, ReadCond, WriteCond, can_recv, may_recv, can_send, may_send
<1>9. /\ CondOf(conn'[h]) = [half \in {"read", "write"} |-> "end"]
      /\ WakerOf(conn'[h]) = {} /\ AsleepOf(conn'[h]) = {}
  BY <1>7, <1>8 DEF CondOf, WakerOf, AsleepOf
<1> QED BY <1>9 DEF Methods!HandoffInit, Methods!Halves

\* From its entry into the pool to its removal a connection takes only the steps
\* of Handoff, if the application uses no empty buffers.  With LockingRefines,
\* the methods as coded, step by step under the lock, do nothing else either.
THEOREM HandOffCorrect == ASSUME MinBuf = 1 PROVE Spec => MethodsHandOff
<1>1. ASSUME IndInv, WakeInv, FreshInv, [Next]_vars
      PROVE  [/\ \A h \in sockets \cap sockets' :
                    Methods(h)!HandoffNext \/ UNCHANGED Methods(h)!handoffVars
              /\ \A h \in sockets' \ sockets : Methods(h)!HandoffInit']_vars
  BY <1>1, NextHands, PoolEntry DEF HandStep
<1> QED BY <1>1, InitInv, NextInv, InitWake, NextWake, InitFresh, NextFresh, PTL
        DEF Spec, MethodsHandOff

=============================================================================
