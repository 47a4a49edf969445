---------------------------- MODULE UstunetProofs ----------------------------
(***************************************************************************)
(* The safety invariants of Ustunet for any number of pairs, any buffer     *)
(* sizes, any kinds of segments and any bounds.                            *)
(***************************************************************************)
EXTENDS Ustunet, ConnectionProofs, SequenceTheorems

\* The inductive invariant.  Types alone are not inductive, as send and process
\* use cur; the account of the halves needs to know which halves are in use; and
\* the schedule needs a connection that is new to be neither dropped nor active.
IndInv == /\ TypeOK
          /\ StreamsInTransit
          /\ HalvesAccounted
          /\ DroppedStaysScheduled
          /\ ActiveIsScheduled

-----------------------------------------------------------------------------
(* The delay queue. *)

\* Sending to the queue takes no pair off it, and anything but Ingress puts the
\* pair on it.
LEMMA QueueSendType ==
    ASSUME NEW q \in Deadlines, NEW h \in Handles, NEW p \in PollAt
    PROVE  /\ QueueSend(q, h, p) \in Deadlines
           /\ \A g \in Handles : QueueContains(q, g) =>
                                 QueueContains(QueueSend(q, h, p), g)
           /\ p # Ingress => QueueContains(QueueSend(q, h, p), h)
<1>1. p = Ingress \/ (p.kind # "Ingress" /\ p.due \in 0..Rto)
  BY TcpAssumption DEF PollAt, Ingress, Now, Time
<1>2. CASE p = Ingress
  BY <1>2 DEF QueueSend, Ingress
<1>3. CASE p.kind # "Ingress" /\ p.due \in 0..Rto
  BY <1>3, TcpAssumption DEF QueueSend, QueueContains, Deadlines, Off
<1> QED BY <1>1, <1>2, <1>3

\* Removing a pair takes no other pair off the queue.
LEMMA QueueRemoveType ==
    ASSUME NEW q \in Deadlines, NEW h \in Handles
    PROVE  /\ QueueRemove(q, h) \in Deadlines
           /\ \A g \in Handles \ {h} : QueueContains(q, g) =>
                                       QueueContains(QueueRemove(q, h), g)
  BY TcpAssumption DEF QueueRemove, QueueContains, Deadlines, Off

\* A tick takes no deadline off.
LEMMA CloserType ==
    ASSUME NEW d \in Off..Rto
    PROVE  Closer(d) \in Off..Rto /\ (Closer(d) = Off <=> d = Off)
  BY TcpAssumption DEF Closer, Off

\* The empty queue has its type.
LEMMA EmptyQueueType == EmptyQueue \in Deadlines
  BY Bounds DEF EmptyQueue, Deadlines

-----------------------------------------------------------------------------
(* Types. *)

\* The inductive invariant holds initially.
LEMMA InitInv == Init => IndInv
<1> SUFFICES ASSUME Init PROVE IndInv
  OBVIOUS
<1> USE DEF Init
<1>1. TypeOK
  <2>1. replies \in 0..MaxReplies
    BY UstunetAssumption
  <2>2. conn \in [Handles -> Conn]
    BY NewConnType
  <2>3. /\ closing \in Seq(CloseMsg) /\ polls \in Seq(PollMsg)
        /\ incoming \in Seq(Handles)
    OBVIOUS
  <2> QED BY <2>1, <2>2, <2>3, EmptyQueueType DEF TypeOK
<1>2. StreamsInTransit
  <2>1. Len(incoming) <= Backlog /\ DOMAIN incoming = {}
    BY DEF Backlog
  <2> QED BY <2>1, NewConnType DEF StreamsInTransit
<1>3. HalvesAccounted
  BY DEF HalvesAccounted
<1>4. DroppedStaysScheduled /\ ActiveIsScheduled
  BY DEF DroppedStaysScheduled, ActiveIsScheduled
<1> QED BY <1>1, <1>2, <1>3, <1>4 DEF IndInv

\* A segment is processed without disturbing a half or taking a pair off the
\* delay queue.
LEMMA ProcessSegmentStep ==
    ASSUME TypeOK, NEW h \in Handles, NEW kind \in Kinds, ProcessSegment(h, kind)
    PROVE  /\ replies' \in 0..MaxReplies
           /\ conn' \in [Handles -> Conn]
           /\ queue' \in Deadlines
           /\ \A g \in Handles : Undisturbed(conn[g], conn'[g])
           /\ \A g \in Handles : QueueContains(queue, g) => QueueContains(queue', g)
<1> USE DEF TypeOK
<1>0. \A g \in Handles : Undisturbed(conn[g], conn[g])
  BY DEF Undisturbed, HalvesKept
<1>1. CASE ~check_acceptability(conn[h], kind)
  BY <1>0, <1>1 DEF ProcessSegment
<1>2. CASE check_acceptability(conn[h], kind)
  <2>1. PICK result \in tcp_process(conn[h].tcp, kind) :
          /\ result.reply => replies < MaxReplies
          /\ replies' = IF result.reply THEN replies + 1 ELSE replies
          /\ conn' = [conn EXCEPT ![h] = ConnProcess(conn[h], result)]
          /\ queue' = QueueSend(queue, h,
                          ProcessPollAt(ConnProcess(conn[h], result),
                                        QueueContains(queue, h)))
    BY <1>2 DEF ProcessSegment
  <2> DEFINE c == ConnProcess(conn[h], result)
             p == ProcessPollAt(c, QueueContains(queue, h))
  <2>2. conn[h] \in Conn /\ conn[h].tcp \in Tcp
    BY DEF Conn
  <2>3. result.tcp \in Tcp
    BY <2>2, ProcessType
  <2>4. c \in Conn /\ Undisturbed(conn[h], c)
    BY <2>2, <2>3, ProcessConn
  <2> HIDE DEF c
  <2>5. p \in PollAt
    BY <2>4, ProcessPollAtType
  <2>6. conn' = [conn EXCEPT ![h] = c] /\ queue' = QueueSend(queue, h, p)
    BY <2>1 DEF c
  <2> HIDE DEF p
  <2>7. replies' \in 0..MaxReplies
    BY <2>1, UstunetAssumption
  <2>8. /\ queue' \in Deadlines
        /\ \A g \in Handles : QueueContains(queue, g) => QueueContains(queue', g)
    BY <2>5, <2>6, QueueSendType
  <2> QED BY <1>0, <2>4, <2>6, <2>7, <2>8
<1> QED BY <1>1, <1>2

\* What a method of the writer changes besides its own connection.
LEMMA NotifyStep ==
    ASSUME TypeOK, NEW h \in Handles, conn[h].writer \in Running,
           NEW c \in Conn, Undisturbed(conn[h], c), Notify(h, c)
    PROVE  /\ conn' \in [Handles -> Conn]
           /\ polls' \in Seq(PollMsg)
           /\ \A g \in Handles : Undisturbed(conn[g], conn'[g])
<1> USE DEF TypeOK
<1>0. \A g \in Handles : Undisturbed(conn[g], conn[g])
  BY DEF Undisturbed, HalvesKept
<1>1. poll_at(c.tcp) \in PollAt
  BY PollAtType DEF Conn
<1>2. [handle |-> h, poll |-> poll_at(c.tcp)] \in PollMsg
  BY <1>1 DEF PollMsg
<1>3. SendOrPanic(c) \in Conn /\ Undisturbed(conn[h], SendOrPanic(c))
  BY DEF SendOrPanic, Conn, Half, Running, Settled, Undisturbed, HalvesKept
<1>4. polls' \in Seq(PollMsg)
  <2> DEFINE m == [handle |-> h, poll |-> poll_at(c.tcp)]
  <2>1. polls' = polls \/ polls' = Append(polls, m)
    BY DEF Notify
  <2> HIDE DEF m
  <2>2. Append(polls, m) \in Seq(PollMsg)
    BY <1>2 DEF m
  <2> QED BY <2>1, <2>2
<1>5. conn' = [conn EXCEPT ![h] = c] \/ conn' = [conn EXCEPT ![h] = SendOrPanic(c)]
  BY DEF Notify
<1> QED BY <1>0, <1>3, <1>4, <1>5

\* The channel of poll updates after a tick.
LEMMA TickPolls ==
    ASSUME polls \in Seq(PollMsg),
           polls' = [i \in DOMAIN polls |->
                       [polls[i] EXCEPT !.poll.due = Closer(@)]]
    PROVE  polls' \in Seq(PollMsg)
<1>1. ASSUME NEW m \in PollMsg
      PROVE  [m EXCEPT !.poll.due = Closer(@)] \in PollMsg
  <2>1. m.poll \in PollAt /\ m.handle \in Handles
    BY DEF PollMsg
  <2>2. [m.poll EXCEPT !.due = Closer(@)] \in PollAt
    <3>1. CASE m.poll = Now
      BY <3>1 DEF Now, PollAt, Closer
    <3>2. CASE m.poll = Ingress
      BY <3>2 DEF Ingress, PollAt, Closer
    <3>3. CASE \E k \in 0..Rto : m.poll = Time(k)
      <4>1. PICK k \in 0..Rto : m.poll = Time(k)
        BY <3>3
      <4>2. [m.poll EXCEPT !.due = Closer(@)] = Time(Closer(k))
        BY <4>1 DEF Time
      <4>3. Closer(k) \in 0..Rto
        BY TcpAssumption DEF Closer
      <4> QED BY <4>2, <4>3 DEF PollAt
    <3> QED BY <2>1, <3>1, <3>2, <3>3 DEF PollAt
  <2> QED BY <2>1, <2>2 DEF PollMsg
<1>2. DOMAIN polls = 1..Len(polls) /\ Len(polls) \in Nat
  OBVIOUS
<1>3. \A i \in 1..Len(polls) : polls[i] \in PollMsg
  OBVIOUS
<1>4. polls' \in [1..Len(polls) -> PollMsg]
  BY <1>1, <1>2, <1>3
<1> QED BY <1>2, <1>4, SeqDef

\* The end of the loop keeps the types.
LEMMA EndLoopType ==
    ASSUME TypeOK, NEW how \in {"exited", "panicked"}, EndLoop(how)
    PROVE  TypeOK' /\ Gone' /\ sockets' = {}
<1>1. replies' \in 0..MaxReplies
  BY UstunetAssumption DEF EndLoop
<1>2. queue' \in Deadlines
  BY EmptyQueueType DEF EndLoop
<1> QED BY <1>1, <1>2 DEF EndLoop, TypeOK, Gone, chanVars

\* How much a reader may take and a writer may add.
LEMMA BufferSizes ==
    ASSUME NEW c \in Conn
    PROVE  /\ MinBuf..c.tcp.rx \subseteq 0..c.tcp.rx /\ 0 \in 0..c.tcp.rx
           /\ MinBuf..Room(c.tcp) \subseteq 0..Room(c.tcp) /\ 0 \in 0..Room(c.tcp)
<1>1. c.tcp \in TcpFields /\ c.tcp.unsent + c.tcp.flight <= TxCap
  BY DEF Conn, Tcp
<1>2. c.tcp.rx \in Nat /\ c.tcp.unsent \in Nat /\ c.tcp.flight \in Nat
  BY <1>1, TcpAssumption DEF TcpFields
<1>3. Room(c.tcp) \in Nat
  BY <1>1, <1>2, TcpAssumption DEF Room
<1> QED BY <1>2, <1>3, UstunetAssumption

\* Every step keeps the types.
LEMMA TypeStep == ASSUME IndInv, [Next]_vars PROVE TypeOK'
<1> USE DEF IndInv, TypeOK, loopVars, poolVars, chanVars, vars
<1>1. CASE NothingToWrite
  BY <1>1 DEF NothingToWrite
<1>2. CASE PollPending
  BY <1>2 DEF PollPending
<1>3. CASE Written
  BY <1>3 DEF Written
<1>4. CASE WriteReply
  BY <1>4, UstunetAssumption DEF WriteReply
<1>5. CASE DispatchPanics
  BY <1>5, EndLoopType DEF DispatchPanics
<1>6. CASE Dispatch
  <2> DEFINE h == next_poll
             d == ConnDispatch(conn[h])
  <2>1. h \in Handles /\ conn[h] \in Conn
    BY <1>6 DEF Dispatch
  <2>2. d.conn \in Conn /\ d.poll \in PollAt /\ d.sent \in BOOLEAN
    BY <2>1, DispatchConn
  <2>3. /\ QueueRemove(queue, h) \in Deadlines
        /\ QueueSend(queue, h, d.poll) \in Deadlines
    BY <2>1, <2>2, QueueRemoveType, QueueSendType
  <2>4. /\ pc' = "poll_a" /\ next_poll' = NoHandle /\ writing' = d.sent
        /\ UNCHANGED <<cur, replies, closing, polls, incoming, listener>>
    BY <1>6 DEF Dispatch
  <2>5. \/ /\ sockets' = sockets \ {h}
           /\ queue' = QueueRemove(queue, h)
           /\ conn' = [conn EXCEPT ![h] = NoConn]
        \/ /\ sockets' = sockets
           /\ queue' = QueueSend(queue, h, d.poll)
           /\ conn' = [conn EXCEPT ![h] = d.conn]
    BY <1>6 DEF Dispatch
  <2> HIDE DEF d, h
  <2>6. conn' \in [Handles -> Conn]
    BY <2>1, <2>2, <2>5, NewConnType
  <2> QED BY <2>2, <2>3, <2>4, <2>5, <2>6
<1>7. ASSUME NEW h \in Handles, NEW kind \in Segments, Receive(h, kind)
      PROVE  TypeOK'
  <2>1. kind \in Kinds /\ ProcessSegment(h, kind)
    BY <1>7 DEF Receive
  <2>2. /\ replies' \in 0..MaxReplies
        /\ conn' \in [Handles -> Conn] /\ queue' \in Deadlines
    BY <2>1, ProcessSegmentStep
  <2> QED BY <1>7, <2>2 DEF Receive
<1>8. ASSUME NEW h \in Handles, NEW kind \in Segments, Drop(h, kind)
      PROVE  TypeOK'
  BY <1>8 DEF Drop
<1>9. ASSUME NEW h \in Handles, CreateSyn(h) PROVE TypeOK'
  BY <1>9, NewConnType DEF CreateSyn
<1>10. ASSUME NEW h \in Handles, Expire(h) PROVE TypeOK'
  BY <1>10, QueueRemoveType DEF Expire
<1>11. CASE SendStream
  <2>1. cur \in Handles
    BY <1>11 DEF SendStream, StreamsInTransit, Gone
  <2>2. Append(incoming, cur) \in Seq(Handles)
    BY <2>1
  <2> QED BY <1>11, <2>1, <2>2 DEF SendStream
<1>12. CASE SendStreamFails
  <2>1. cur \in Handles
    BY <1>12 DEF SendStreamFails, StreamsInTransit, Gone
  <2>2. << [handle |-> cur, rw |-> "Write"], [handle |-> cur, rw |-> "Read"] >>
            \in Seq(CloseMsg)
    BY <2>1 DEF CloseMsg
  <2>3. closing' \in Seq(CloseMsg)
    BY <1>12, <2>2, ConcatProperties DEF SendStreamFails
  <2>4. conn' \in [Handles -> Conn]
    BY <1>12, <2>1, HalfUpdate DEF SendStreamFails, Half
  <2> QED BY <1>12, <2>1, <2>3, <2>4 DEF SendStreamFails
<1>13. CASE ProcessSyn
  <2>1. cur \in Handles
    BY <1>13 DEF ProcessSyn, StreamsInTransit, Gone
  <2>2. ProcessSegment(cur, "syn") /\ "syn" \in Kinds
    BY <1>13 DEF ProcessSyn, Kinds
  <2>3. /\ replies' \in 0..MaxReplies
        /\ conn' \in [Handles -> Conn] /\ queue' \in Deadlines
    BY <2>1, <2>2, ProcessSegmentStep
  <2> QED BY <1>13, <2>3 DEF ProcessSyn
<1>14. CASE DropTcpHalf
  <2>1. Head(closing) \in CloseMsg /\ Tail(closing) \in Seq(CloseMsg)
    BY <1>14 DEF DropTcpHalf
  <2> DEFINE m == Head(closing)
             d == ConnDropHalf(conn[m.handle], m.rw)
  <2>2. m.handle \in Handles /\ m.rw \in {"Read", "Write"} /\ conn[m.handle] \in Conn
    BY <2>1 DEF CloseMsg
  <2>3. d.conn \in Conn /\ d.poll \in PollAt
    BY <2>2, DropHalfConn
  <2>4. QueueSend(queue, m.handle, d.poll) \in Deadlines
    BY <2>2, <2>3, QueueSendType
  <2>5. CASE m.handle \in sockets
    <3>1. /\ conn' = [conn EXCEPT ![m.handle] = d.conn]
          /\ queue' = QueueSend(queue, m.handle, d.poll)
          /\ closing' = Tail(closing) /\ pc' = "loop"
          /\ UNCHANGED <<cur, writing, replies, next_poll, sockets, polls,
                         incoming, listener>>
      BY <1>14, <2>5 DEF DropTcpHalf
    <3> HIDE DEF d, m
    <3> QED BY <2>1, <2>2, <2>3, <2>4, <3>1
  <2>6. CASE m.handle \notin sockets
    <3>1. EndLoop("panicked")
      BY <1>14, <2>6 DEF DropTcpHalf
    <3> QED BY <3>1, EndLoopType
  <2> QED BY <2>5, <2>6
<1>15. CASE PollUpdate
  <2>1. Head(polls) \in PollMsg /\ Tail(polls) \in Seq(PollMsg)
    BY <1>15 DEF PollUpdate
  <2>2. QueueSend(queue, Head(polls).handle, Head(polls).poll) \in Deadlines
    BY <2>1, QueueSendType DEF PollMsg
  <2> QED BY <1>15, <2>1, <2>2 DEF PollUpdate
<1>16. ASSUME NEW h \in Handles, PollRead(h) PROVE TypeOK'
  <2>1. conn[h] \in Conn /\ conn[h].reader \in Running
    BY <1>16 DEF PollRead
  <2>2. PICK n \in 0..conn[h].tcp.rx :
            conn' = [conn EXCEPT ![h] = ConnPollRead(conn[h], n)]
    BY <1>16, <2>1, BufferSizes DEF PollRead
  <2>3. ConnPollRead(conn[h], n) \in Conn
    BY <2>1, PollReadConn
  <2> QED BY <1>16, <2>2, <2>3 DEF PollRead
<1>17. ASSUME NEW h \in Handles, PollWrite(h) PROVE TypeOK'
  <2>1. conn[h] \in Conn /\ conn[h].writer \in Running
    BY <1>17 DEF PollWrite
  <2>2. PICK n \in 0..Room(conn[h].tcp) : Notify(h, ConnPollWrite(conn[h], n))
    BY <1>17, <2>1, BufferSizes DEF PollWrite
  <2>3. /\ ConnPollWrite(conn[h], n) \in Conn
        /\ Undisturbed(conn[h], ConnPollWrite(conn[h], n))
    BY <2>1, PollWriteConn DEF Room
  <2>4. conn' \in [Handles -> Conn] /\ polls' \in Seq(PollMsg)
    BY <2>1, <2>2, <2>3, NotifyStep
  <2> QED BY <1>17, <2>4 DEF PollWrite
<1>18. ASSUME NEW h \in Handles, PollClose(h) PROVE TypeOK'
  <2>1. conn[h] \in Conn /\ conn[h].writer \in Running
    BY <1>18 DEF PollClose
  <2>2. conn' \in [Handles -> Conn] /\ polls' \in Seq(PollMsg)
    BY <1>18, <2>1, PollCloseConn, NotifyStep DEF PollClose
  <2> QED BY <1>18, <2>2 DEF PollClose
<1>19. ASSUME NEW h \in Handles, CancelRead(h) \/ CancelWrite(h) PROVE TypeOK'
  <2>1. \/ conn' = [conn EXCEPT ![h] = [conn[h] EXCEPT !.reader = "run"]]
        \/ conn' = [conn EXCEPT ![h] = [conn[h] EXCEPT !.writer = "run"]]
    BY <1>19 DEF CancelRead, CancelWrite
  <2>3. "run" \in Half
    BY DEF Half
  <2>2. conn' \in [Handles -> Conn]
    <3>1. /\ [conn[h] EXCEPT !.reader = "run"] \in Conn
          /\ [conn[h] EXCEPT !.writer = "run"] \in Conn
      BY <2>3, HalfUpdate
    <3> QED BY <2>1, <3>1
  <2> QED BY <1>19, <2>2 DEF CancelRead, CancelWrite
<1>20. ASSUME NEW h \in Handles, DropReader(h) PROVE TypeOK'
  <2> DEFINE s == IF Gone THEN "panicked" ELSE "gone"
  <2>0. conn' = [conn EXCEPT ![h] = [conn[h] EXCEPT !.reader = s]] /\ s \in Half
    BY <1>20 DEF DropReader, Half
  <2> HIDE DEF s
  <2>1. conn' \in [Handles -> Conn]
    BY <2>0, HalfUpdate
  <2>2. [handle |-> h, rw |-> "Read"] \in CloseMsg
    BY DEF CloseMsg
  <2>3. closing' \in Seq(CloseMsg)
    BY <1>20, <2>2 DEF DropReader
  <2> QED BY <1>20, <2>1, <2>3 DEF DropReader
<1>21. ASSUME NEW h \in Handles, DropWriter(h) PROVE TypeOK'
  <2> DEFINE s == IF Gone THEN "panicked" ELSE "gone"
  <2>0. conn' = [conn EXCEPT ![h] = [conn[h] EXCEPT !.writer = s]] /\ s \in Half
    BY <1>21 DEF DropWriter, Half
  <2> HIDE DEF s
  <2>1. conn' \in [Handles -> Conn]
    BY <2>0, HalfUpdate
  <2>2. [handle |-> h, rw |-> "Write"] \in CloseMsg
    BY DEF CloseMsg
  <2>3. closing' \in Seq(CloseMsg)
    BY <1>21, <2>2 DEF DropWriter
  <2> QED BY <1>21, <2>1, <2>3 DEF DropWriter
<1>22. CASE Accept
  <2>1. Head(incoming) \in Handles /\ Tail(incoming) \in Seq(Handles)
    BY <1>22 DEF Accept
  <2>2. conn' \in [Handles -> Conn]
    BY <1>22, <2>1, HalfUpdate DEF Accept, Half
  <2> QED BY <1>22, <2>1, <2>2 DEF Accept
<1>23. CASE DropListener
  <2>1. CASE incoming = <<>>
    BY <1>23, <2>1 DEF DropListener
  <2>2. CASE incoming # <<>>
    <3>1. Head(incoming) \in Handles
      BY <2>2
    <3> DEFINE s == IF Gone THEN "panicked" ELSE "gone"
    <3>6. /\ conn' = [conn EXCEPT ![Head(incoming)] =
                        [conn[Head(incoming)] EXCEPT !.reader = s, !.writer = s]]
          /\ s \in Half
      BY <1>23, <2>2 DEF DropListener, Half
    <3> HIDE DEF s
    <3>2. conn' \in [Handles -> Conn]
      BY <3>1, <3>6, HalfUpdate
    <3> DEFINE two == << [handle |-> Head(incoming), rw |-> "Write"],
                         [handle |-> Head(incoming), rw |-> "Read"] >>
    <3>3. two \in Seq(CloseMsg)
      BY <3>1 DEF CloseMsg
    <3>4. closing' = closing \/ closing' = closing \o two
      BY <1>23, <2>2 DEF DropListener
    <3> HIDE DEF two
    <3>5. closing' \in Seq(CloseMsg)
      BY <3>3, <3>4, ConcatProperties
    <3>7. /\ incoming' = <<>> /\ listener' = FALSE
          /\ UNCHANGED <<pc, cur, writing, replies, next_poll, sockets, queue, polls>>
      BY <1>23 DEF DropListener
    <3>8. incoming' \in Seq(Handles)
      BY <3>7
    <3> QED BY <3>2, <3>5, <3>7, <3>8
  <2> QED BY <2>1, <2>2
<1>24. CASE Tick
  <2>1. queue' \in Deadlines
    BY <1>24, CloserType DEF Tick, Deadlines
  <2>2. conn' \in [Handles -> Conn]
    <3>1. ASSUME NEW c \in Conn PROVE [c EXCEPT !.tcp.timer = Closer(@)] \in Conn
      <4>1. c.tcp.timer \in Off..Rto
        BY DEF Conn, Tcp, TcpFields
      <4>2. Closer(c.tcp.timer) \in Off..Rto
        BY <4>1, CloserType
      <4>3. [c.tcp EXCEPT !.timer = Closer(@)] \in Tcp
        BY <4>2 DEF Conn, Tcp, TcpFields
      <4> QED BY <4>3 DEF Conn
    <3> QED BY <1>24, <3>1 DEF Tick
  <2>3. polls' \in Seq(PollMsg)
    BY <1>24, TickPolls DEF Tick
  <2> QED BY <1>24, <2>1, <2>2, <2>3 DEF Tick
<1>25. CASE DeviceError
  BY <1>25, EndLoopType DEF DeviceError
<1>26. CASE UNCHANGED vars
  BY <1>26
<1> HIDE DEF IndInv, TypeOK
<1> QED BY <1>1, <1>2, <1>3, <1>4, <1>5, <1>6, <1>7, <1>8, <1>9, <1>10, <1>11,
           <1>12, <1>13, <1>14, <1>15, <1>16, <1>17, <1>18, <1>19, <1>20, <1>21,
           <1>22, <1>23, <1>24, <1>25, <1>26
        DEF Next, LoopStep, AppStep, EnvStep

-----------------------------------------------------------------------------
(* The halves and the schedule. *)

\* What most steps leave alone.
Calm == /\ UNCHANGED <<closing, sockets, incoming>>
        /\ Gone => Gone'
        /\ pc' \in {"send", "process"} => pc' = pc /\ cur' = cur
        /\ \A h \in Handles : Undisturbed(conn[h], conn'[h])
        /\ \A h \in Handles : Scheduled(h) => Scheduled(h)'

\* A calm step keeps the account of the halves and the schedule.
LEMMA CalmStep == ASSUME IndInv, TypeOK', Calm PROVE IndInv'
<1> USE DEF IndInv, Calm, Undisturbed, HalvesKept
<1>1. \A h \in Handles, s \in {"none", "held", "gone"} :
        /\ conn'[h].reader = s <=> conn[h].reader = s
        /\ conn'[h].writer = s <=> conn[h].writer = s
  BY DEF Settled
<1>2. StreamsInTransit'
  <2>1. /\ \A i \in DOMAIN incoming : incoming[i] \in Handles
        /\ pc = "send" /\ ~Gone => cur \in Handles
    BY DEF TypeOK, StreamsInTransit
  <2> QED BY <1>1, <2>1 DEF StreamsInTransit, Gone
<1>3. HalvesAccounted'
  <2>1. \A i \in DOMAIN closing : closing[i] \in CloseMsg
    BY DEF TypeOK
  <2>2. \A h \in Handles, rw \in {"Read", "Write"} :
          /\ HalfOf(conn'[h], rw) = "gone" <=> HalfOf(conn[h], rw) = "gone"
          /\ DroppedOf(conn'[h], rw) = DroppedOf(conn[h], rw)
    BY <1>1 DEF HalfOf, DroppedOf
  <2>3. sockets \subseteq Handles
    BY DEF TypeOK
  <2> QED BY <2>1, <2>2, <2>3 DEF HalvesAccounted, CloseMsg
<1>4. (DroppedStaysScheduled /\ ActiveIsScheduled)'
  <2>1. sockets \subseteq Handles
    BY DEF TypeOK
  <2> QED BY <2>1 DEF DroppedStaysScheduled, ActiveIsScheduled, both_dropped
<1> QED BY <1>2, <1>3, <1>4

\* The steps that are calm.
LEMMA CalmActions ==
    ASSUME IndInv,
           \/ NothingToWrite \/ PollPending \/ Written \/ WriteReply
           \/ \E h \in Handles, kind \in Segments : Receive(h, kind) \/ Drop(h, kind)
           \/ \E h \in Handles : Expire(h)
           \/ ProcessSyn \/ PollUpdate
           \/ \E h \in Handles : \/ PollRead(h) \/ PollWrite(h) \/ PollClose(h)
                                 \/ CancelRead(h) \/ CancelWrite(h)
           \/ Tick \/ UNCHANGED vars
    PROVE  Calm
<1> USE DEF IndInv, loopVars, poolVars, chanVars, vars
<1>t. TypeOK
  OBVIOUS
<1>a. \A h \in Handles : Undisturbed(conn[h], conn[h])
  BY DEF Undisturbed, HalvesKept
<1>1. CASE \/ NothingToWrite \/ PollPending \/ Written \/ WriteReply
           \/ \E h \in Handles, kind \in Segments : Drop(h, kind)
           \/ UNCHANGED vars
  <2>1. UNCHANGED <<closing, sockets, incoming, conn, queue, next_poll, cur>>
    BY <1>1 DEF NothingToWrite, PollPending, Written, WriteReply, Drop
  <2>2. pc' = pc \/ (~Gone /\ pc' \notin {"send", "process"})
    BY <1>1 DEF NothingToWrite, PollPending, Written, WriteReply, Drop, Gone
  <2> QED BY <1>a, <2>1, <2>2 DEF Calm, Gone, Scheduled
<1>2. ASSUME NEW h \in Handles, NEW kind \in Kinds, ProcessSegment(h, kind),
             UNCHANGED <<closing, sockets, incoming, next_poll>>,
             ~Gone, pc' = "loop"
      PROVE  Calm
  <2>1. /\ \A g \in Handles : Undisturbed(conn[g], conn'[g])
        /\ \A g \in Handles : QueueContains(queue, g) => QueueContains(queue', g)
    BY <1>t, <1>2, ProcessSegmentStep
  <2> QED BY <1>2, <2>1 DEF Calm, Gone, Scheduled
<1>3. CASE \E h \in Handles, kind \in Segments : Receive(h, kind)
  <2>1. PICK h \in Handles, kind \in Segments : Receive(h, kind)
    BY <1>3
  <2>2. /\ kind \in Kinds /\ ProcessSegment(h, kind) /\ ~Gone /\ pc' = "loop"
        /\ UNCHANGED <<closing, sockets, incoming, next_poll>>
    BY <2>1 DEF Receive, Gone
  <2> QED BY <1>2, <2>2
<1>4. CASE ProcessSyn
  <2>1. cur \in Handles
    BY <1>4, <1>t DEF ProcessSyn, StreamsInTransit, Gone, TypeOK
  <2>2. /\ "syn" \in Kinds /\ ProcessSegment(cur, "syn") /\ ~Gone /\ pc' = "loop"
        /\ UNCHANGED <<closing, sockets, incoming, next_poll>>
    BY <1>4 DEF ProcessSyn, Gone, Kinds
  <2> QED BY <1>2, <2>1, <2>2
<1>5. CASE \E h \in Handles : Expire(h)
  <2>1. PICK h \in Handles : Expire(h)
    BY <1>5
  <2>2. /\ queue' = QueueRemove(queue, h) /\ next_poll' = h /\ next_poll = NoHandle
        /\ ~Gone /\ pc' = "loop" /\ UNCHANGED <<closing, sockets, incoming, conn>>
    BY <2>1 DEF Expire, Gone
  <2>3. \A g \in Handles \ {h} : QueueContains(queue, g) => QueueContains(queue', g)
    BY <1>t, <2>2, QueueRemoveType DEF TypeOK
  <2> QED BY <1>a, <2>2, <2>3, UstunetAssumption DEF Calm, Gone, Scheduled
<1>6. CASE PollUpdate
  <2>1. Head(polls) \in PollMsg
    BY <1>t, <1>6 DEF PollUpdate, TypeOK
  <2>2. /\ queue' = QueueSend(queue, Head(polls).handle, Head(polls).poll)
        /\ ~Gone /\ pc' = "loop"
        /\ UNCHANGED <<closing, sockets, incoming, conn, next_poll>>
    BY <1>6 DEF PollUpdate, Gone
  <2>3. \A g \in Handles : QueueContains(queue, g) => QueueContains(queue', g)
    BY <1>t, <2>1, <2>2, QueueSendType DEF TypeOK, PollMsg
  <2> QED BY <1>a, <2>2, <2>3 DEF Calm, Gone, Scheduled
<1>7. ASSUME UNCHANGED <<closing, sockets, incoming, pc, cur, queue, next_poll>>,
             \A g \in Handles : Undisturbed(conn[g], conn'[g])
      PROVE  Calm
  BY <1>7 DEF Calm, Gone, Scheduled
<1>8. ASSUME NEW h \in Handles, PollRead(h) PROVE Calm
  <2>1. conn[h] \in Conn /\ conn[h].reader \in Running
    BY <1>t, <1>8 DEF PollRead, TypeOK
  <2>2. PICK n \in 0..conn[h].tcp.rx :
            conn' = [conn EXCEPT ![h] = ConnPollRead(conn[h], n)]
    BY <1>8, <2>1, BufferSizes DEF PollRead
  <2>3. Undisturbed(conn[h], ConnPollRead(conn[h], n))
    BY <2>1, PollReadConn
  <2>4. \A g \in Handles : Undisturbed(conn[g], conn'[g])
    BY <1>t, <1>a, <2>2, <2>3 DEF TypeOK
  <2>5. UNCHANGED <<closing, sockets, incoming, pc, cur, queue, next_poll>>
    BY <1>8 DEF PollRead
  <2> QED BY <1>7, <2>4, <2>5
<1>9. ASSUME NEW h \in Handles, PollWrite(h) \/ PollClose(h) PROVE Calm
  <2>1. conn[h] \in Conn /\ conn[h].writer \in Running
    BY <1>t, <1>9 DEF PollWrite, PollClose, TypeOK
  <2>2. PICK c \in Conn : Undisturbed(conn[h], c) /\ Notify(h, c)
    <3>1. CASE PollWrite(h)
      <4>1. PICK n \in 0..Room(conn[h].tcp) : Notify(h, ConnPollWrite(conn[h], n))
        BY <2>1, <3>1, BufferSizes DEF PollWrite
      <4> QED BY <2>1, <4>1, PollWriteConn DEF Room
    <3>2. CASE PollClose(h)
      BY <2>1, <3>2, PollCloseConn DEF PollClose
    <3> QED BY <1>9, <3>1, <3>2
  <2>3. \A g \in Handles : Undisturbed(conn[g], conn'[g])
    BY <1>t, <2>1, <2>2, NotifyStep
  <2>4. UNCHANGED <<closing, sockets, incoming, pc, cur, queue, next_poll>>
    BY <1>9 DEF PollWrite, PollClose
  <2> QED BY <1>7, <2>3, <2>4
<1>10. ASSUME NEW h \in Handles, CancelRead(h) \/ CancelWrite(h) PROVE Calm
  <2>1. conn[h] \in Conn /\ "run" \in Half
    BY <1>t DEF TypeOK, Half
  <2>2. \/ /\ conn[h].reader = "wait"
           /\ conn' = [conn EXCEPT ![h] = [conn[h] EXCEPT !.reader = "run"]]
        \/ /\ conn[h].writer = "wait"
           /\ conn' = [conn EXCEPT ![h] = [conn[h] EXCEPT !.writer = "run"]]
    BY <1>10 DEF CancelRead, CancelWrite
  <2>3. /\ Moved(conn[h], [conn[h] EXCEPT !.reader = "run"], "run", conn[h].writer)
        /\ Moved(conn[h], [conn[h] EXCEPT !.writer = "run"], conn[h].reader, "run")
    BY <2>1, HalfUpdate
  <2>4. Undisturbed(conn[h], conn'[h])
    BY <1>t, <2>2, <2>3 DEF TypeOK, Moved, Undisturbed, HalvesKept, Settled
  <2>5. \A g \in Handles : Undisturbed(conn[g], conn'[g])
    BY <1>t, <1>a, <2>2, <2>4 DEF TypeOK
  <2>6. UNCHANGED <<closing, sockets, incoming, pc, cur, queue, next_poll>>
    BY <1>10 DEF CancelRead, CancelWrite
  <2> QED BY <1>7, <2>5, <2>6
<1>11. CASE Tick
  <2>1. \A g \in Handles : Undisturbed(conn[g], conn'[g])
    BY <1>t, <1>11 DEF Tick, TypeOK, Conn, Undisturbed, HalvesKept
  <2>2. \A g \in Handles : QueueContains(queue, g) => QueueContains(queue', g)
    BY <1>t, <1>11, CloserType DEF Tick, TypeOK, Deadlines, QueueContains
  <2>3. UNCHANGED <<closing, sockets, incoming, pc, cur, next_poll>>
    BY <1>11 DEF Tick
  <2> QED BY <2>1, <2>2, <2>3 DEF Calm, Gone, Scheduled
<1> HIDE DEF IndInv, vars
<1> QED BY <1>1, <1>3, <1>4, <1>5, <1>6, <1>8, <1>9, <1>10, <1>11

\* Dropping or handing over halves takes no pair off the schedule.
LEMMA ScheduleStep ==
    ASSUME DroppedStaysScheduled, ActiveIsScheduled,
           UNCHANGED <<sockets, queue, next_poll>>,
           \A h \in sockets :
              /\ both_dropped(conn'[h]) => both_dropped(conn[h])
              /\ conn'[h].polling_active => conn[h].polling_active
    PROVE  (DroppedStaysScheduled /\ ActiveIsScheduled)'
  BY DEF DroppedStaysScheduled, ActiveIsScheduled, Scheduled

\* The halves R of the connection of h are dropped and announced.
DropsHalves(h, R) ==
    /\ \A g \in Handles \ {h} : conn'[g] = conn[g]
    /\ \A rw \in {"Read", "Write"} : DroppedOf(conn'[h], rw) = DroppedOf(conn[h], rw)
    /\ \A rw \in {"Read", "Write"} \ R : HalfOf(conn'[h], rw) = HalfOf(conn[h], rw)
    /\ \A rw \in R : /\ HalfOf(conn[h], rw) # "gone" /\ HalfOf(conn'[h], rw) = "gone"
                     /\ ~DroppedOf(conn[h], rw)

Announces(h, R) ==
    /\ \A i \in DOMAIN closing : i \in DOMAIN closing' /\ closing'[i] = closing[i]
    /\ \A i \in DOMAIN closing' \ DOMAIN closing :
          closing'[i].handle = h /\ closing'[i].rw \in R
    /\ \A i, j \in DOMAIN closing' \ DOMAIN closing :
          closing'[i] = closing'[j] => i = j
    /\ \A rw \in R : \E i \in DOMAIN closing' :
          closing'[i] = [handle |-> h, rw |-> rw]

\* Dropping halves and announcing exactly those keeps the account.
LEMMA AnnounceStep ==
    ASSUME TypeOK, TypeOK', HalvesAccounted, ~Gone,
           NEW h \in Handles, NEW R \in SUBSET {"Read", "Write"},
           h \in sockets \/ R = {"Read", "Write"},
           sockets' = sockets \cup {h},
           DropsHalves(h, R), Announces(h, R)
    PROVE  HalvesAccounted'
<1> USE DEF DropsHalves, Announces
<1>1. /\ \A i \in DOMAIN closing : closing[i] \in CloseMsg
      /\ \A i \in DOMAIN closing' : closing'[i] \in CloseMsg
      /\ sockets \subseteq Handles
  BY DEF TypeOK
<1>2. \A i \in DOMAIN closing : closing[i].handle = h => closing[i].rw \notin R
  BY DEF HalvesAccounted
<1>3. ASSUME NEW g \in Handles, NEW rw \in {"Read", "Write"}, g # h
      PROVE  HalfOf(conn'[g], rw) = HalfOf(conn[g], rw) /\ DroppedOf(conn'[g], rw) = DroppedOf(conn[g], rw)
  <2>1. conn'[g] = conn[g]
    BY <1>3
  <2> QED BY <2>1 DEF HalfOf, DroppedOf
<1>4. ASSUME NEW i \in DOMAIN closing'
      PROVE  /\ closing'[i].handle \in sockets'
             /\ HalfOf(conn'[closing'[i].handle], closing'[i].rw) = "gone"
             /\ ~DroppedOf(conn'[closing'[i].handle], closing'[i].rw)
  <2> DEFINE m == closing'[i]
  <2>1. m.handle \in Handles /\ m.rw \in {"Read", "Write"}
    BY <1>1 DEF CloseMsg
  <2>2. CASE i \in DOMAIN closing
    <3>1. /\ m.handle \in sockets /\ HalfOf(conn[m.handle], m.rw) = "gone"
          /\ ~DroppedOf(conn[m.handle], m.rw)
          /\ m.handle = h => m.rw \notin R
      BY <1>2, <2>2 DEF HalvesAccounted
    <3> HIDE DEF m
    <3>2. CASE m.handle = h
      BY <2>1, <3>1, <3>2 DEF m
    <3>3. CASE m.handle # h
      BY <1>3, <2>1, <3>1, <3>3 DEF m
    <3> QED BY <3>1, <3>2, <3>3 DEF m
  <2>3. CASE i \notin DOMAIN closing
    <3>1. m.handle = h /\ m.rw \in R
      BY <2>3
    <3> HIDE DEF m
    <3>2. HalfOf(conn'[h], m.rw) = "gone" /\ ~DroppedOf(conn'[h], m.rw)
      BY <2>1, <3>1
    <3> QED BY <3>1, <3>2 DEF m
  <2> QED BY <2>2, <2>3
<1>5. ASSUME NEW i \in DOMAIN closing', NEW j \in DOMAIN closing',
             closing'[i] = closing'[j]
      PROVE  i = j
  BY <1>2, <1>5 DEF HalvesAccounted
<1>6. ASSUME NEW g \in sockets', NEW rw \in {"Read", "Write"}
      PROVE  /\ DroppedOf(conn'[g], rw) => HalfOf(conn'[g], rw) = "gone"
             /\ HalfOf(conn'[g], rw) = "gone" /\ ~DroppedOf(conn'[g], rw) =>
                  \E i \in DOMAIN closing' : closing'[i] = [handle |-> g, rw |-> rw]
  <2>1. CASE g = h /\ rw \in R
    BY <2>1
  <2>2. CASE ~(g = h /\ rw \in R)
    <3>1. g \in sockets
      BY <2>2
    <3>2. HalfOf(conn'[g], rw) = HalfOf(conn[g], rw) /\ DroppedOf(conn'[g], rw) = DroppedOf(conn[g], rw)
      BY <1>1, <1>3, <2>2, <3>1
    <3>3. /\ DroppedOf(conn[g], rw) => HalfOf(conn[g], rw) = "gone"
          /\ HalfOf(conn[g], rw) = "gone" /\ ~DroppedOf(conn[g], rw) =>
                  \E i \in DOMAIN closing : closing[i] = [handle |-> g, rw |-> rw]
      BY <3>1 DEF HalvesAccounted
    <3> QED BY <3>2, <3>3
  <2> QED BY <2>1, <2>2
<1> QED BY <1>4, <1>5, <1>6 DEF HalvesAccounted

\* The channel of dropped halves after one or two announcements.
LEMMA Announce ==
    ASSUME NEW S, NEW s \in Seq(S), NEW a \in S, NEW b \in S
    PROVE  /\ DOMAIN Append(s, a) = DOMAIN s \cup {Len(s) + 1}
           /\ DOMAIN (s \o <<a, b>>) = DOMAIN s \cup {Len(s) + 1, Len(s) + 2}
           /\ Len(s) + 1 \notin DOMAIN s /\ Len(s) + 2 \notin DOMAIN s
           /\ \A i \in DOMAIN s : Append(s, a)[i] = s[i]
           /\ \A i \in DOMAIN s : (s \o <<a, b>>)[i] = s[i]
           /\ Append(s, a)[Len(s) + 1] = a
           /\ (s \o <<a, b>>)[Len(s) + 1] = a
           /\ (s \o <<a, b>>)[Len(s) + 2] = b
<1>1. Len(s) \in Nat /\ DOMAIN s = 1..Len(s)
  OBVIOUS
<1>2. /\ Append(s, a) \in Seq(S) /\ Len(Append(s, a)) = Len(s) + 1
      /\ \A i \in 1..Len(s) : Append(s, a)[i] = s[i]
      /\ Append(s, a)[Len(s) + 1] = a
  OBVIOUS
<1> DEFINE t == <<a, b>>
<1>3. t \in Seq(S) /\ Len(t) = 2 /\ t[1] = a /\ t[2] = b
  OBVIOUS
<1> HIDE DEF t
<1>4. /\ s \o t \in Seq(S) /\ Len(s \o t) = Len(s) + Len(t)
      /\ \A i \in 1..Len(s) + Len(t) :
            (s \o t)[i] = IF i <= Len(s) THEN s[i] ELSE t[i - Len(s)]
  BY <1>3, ConcatProperties, Zenon
<1>5. /\ s \o t \in Seq(S) /\ Len(s \o t) = Len(s) + 2
      /\ \A i \in 1..Len(s) + 2 :
            (s \o t)[i] = IF i <= Len(s) THEN s[i] ELSE t[i - Len(s)]
  BY <1>3, <1>4
<1>6. DOMAIN Append(s, a) = 1..Len(s) + 1 /\ DOMAIN (s \o t) = 1..Len(s) + 2
  BY <1>2, <1>5
<1>7. /\ \A i \in 1..Len(s) : (s \o t)[i] = s[i]
      /\ (s \o t)[Len(s) + 1] = a /\ (s \o t)[Len(s) + 2] = b
  BY <1>1, <1>3, <1>5
<1> QED BY <1>1, <1>2, <1>6, <1>7 DEF t

\* The channel after one half has been dropped.
LEMMA AnnounceOne ==
    ASSUME closing \in Seq(CloseMsg), NEW h \in Handles, NEW rw \in {"Read", "Write"},
           closing' = Append(closing, [handle |-> h, rw |-> rw])
    PROVE  Announces(h, {rw})
<1> DEFINE a == [handle |-> h, rw |-> rw]
<1>1. a \in CloseMsg /\ a.handle = h /\ a.rw = rw
  BY DEF CloseMsg
<1> HIDE DEF a
<1>2. /\ DOMAIN closing' = DOMAIN closing \cup {Len(closing) + 1}
      /\ \A i \in DOMAIN closing : closing'[i] = closing[i]
      /\ closing'[Len(closing) + 1] = a
  BY <1>1, Announce DEF a
<1>3. \A x \in {rw} : \E i \in DOMAIN closing' : closing'[i] = [handle |-> h, rw |-> x]
  BY <1>2 DEF a
<1> QED BY <1>1, <1>2, <1>3 DEF Announces

\* The same for a stream that is dropped as a whole, writer first.
LEMMA AnnounceBoth ==
    ASSUME closing \in Seq(CloseMsg), NEW h \in Handles,
           closing' = closing \o << [handle |-> h, rw |-> "Write"],
                                    [handle |-> h, rw |-> "Read"] >>
    PROVE  Announces(h, {"Read", "Write"})
<1> DEFINE a == [handle |-> h, rw |-> "Write"]
           b == [handle |-> h, rw |-> "Read"]
           R == {"Read", "Write"}
<1>1. /\ a \in CloseMsg /\ b \in CloseMsg /\ a # b
      /\ a.handle = h /\ b.handle = h /\ a.rw = "Write" /\ b.rw = "Read"
  BY DEF CloseMsg
<1> HIDE DEF a, b
<1>2. /\ DOMAIN closing' = DOMAIN closing \cup {Len(closing) + 1, Len(closing) + 2}
      /\ \A i \in DOMAIN closing : closing'[i] = closing[i]
      /\ closing'[Len(closing) + 1] = a /\ closing'[Len(closing) + 2] = b
  BY <1>1, Announce DEF a, b
<1>3. /\ \A i \in DOMAIN closing' \ DOMAIN closing :
            closing'[i].handle = h /\ closing'[i].rw \in R
      /\ \A i, j \in DOMAIN closing' \ DOMAIN closing :
            closing'[i] = closing'[j] => i = j
  BY <1>1, <1>2
<1>4. \A rw \in R : \E i \in DOMAIN closing' :
            closing'[i] = [handle |-> h, rw |-> rw]
  BY <1>2 DEF a, b
<1>5. \A i \in DOMAIN closing : i \in DOMAIN closing' /\ closing'[i] = closing[i]
  BY <1>2
<1> HIDE DEF R
<1>6. Announces(h, R)
  BY <1>3, <1>4, <1>5 DEF Announces
<1> QED BY <1>6 DEF R

\* When the loop has ended nothing is pooled and nothing is owed.
LEMMA EndLoopStep ==
    ASSUME TypeOK, NEW how \in {"exited", "panicked"}, EndLoop(how) PROVE IndInv'
<1>1. TypeOK' /\ Gone' /\ sockets' = {}
  BY EndLoopType
<1> QED BY <1>1 DEF IndInv, StreamsInTransit, HalvesAccounted,
                    DroppedStaysScheduled, ActiveIsScheduled

\* A dispatch that removes a connection finds no half of it in use and no
\* announcement of it on its way; one that keeps it schedules it if it has to.
LEMMA DispatchStep == ASSUME IndInv, TypeOK', Dispatch PROVE IndInv'
<1> USE DEF IndInv, chanVars
<1>t. TypeOK
  OBVIOUS
<1> DEFINE d == ConnDispatch(conn[next_poll])
<1>1. PICK h \in Handles : h = next_poll
  BY <1>t DEF Dispatch, TypeOK
<1>2. /\ h \in sockets /\ conn[h] \in Conn /\ h # NoHandle
      /\ pc = "loop" /\ pc' = "poll_a" /\ next_poll' = NoHandle
      /\ UNCHANGED <<cur, closing, incoming>>
  BY <1>t, <1>1, UstunetAssumption DEF Dispatch, TypeOK
<1>3. \/ /\ d.drop
         /\ sockets' = sockets \ {h}
         /\ queue' = QueueRemove(queue, h)
         /\ conn' = [conn EXCEPT ![h] = NoConn]
      \/ /\ ~d.drop
         /\ sockets' = sockets
         /\ queue' = QueueSend(queue, h, d.poll)
         /\ conn' = [conn EXCEPT ![h] = d.conn]
  BY <1>1 DEF Dispatch
<1>4. /\ d.conn \in Conn /\ HalvesKept(conn[h], d.conn)
      /\ d.poll \in PollAt
      /\ d.conn.polling_active => d.poll = Now
      /\ d.drop => both_dropped(conn[h])
      /\ both_dropped(conn[h]) /\ ~d.drop => d.poll # Ingress
  BY <1>1, <1>2, DispatchConn
<1> HIDE DEF d
<1>5. \A g \in Handles \ {h} : conn'[g] = conn[g]
  BY <1>t, <1>3 DEF TypeOK
<1>6. ~Gone /\ ~Gone'
  BY <1>2 DEF Gone
<1>7. CASE d.drop
  <2>1. /\ sockets' = sockets \ {h} /\ queue' = QueueRemove(queue, h)
        /\ conn'[h] = NoConn
    BY <1>t, <1>3, <1>7 DEF TypeOK
  <2>2. /\ conn[h].reader = "gone" /\ conn[h].writer = "gone"
        /\ conn[h].reader_dropped /\ conn[h].writer_dropped
    BY <1>2, <1>4, <1>6, <1>7 DEF HalvesAccounted, HalfOf, DroppedOf, both_dropped
  <2>3. \A i \in DOMAIN closing : closing[i] \in CloseMsg /\ closing[i].handle # h
    <3>1. \A i \in DOMAIN closing : closing[i] \in CloseMsg
      BY <1>t DEF TypeOK
    <3>2. \A i \in DOMAIN closing : ~DroppedOf(conn[closing[i].handle], closing[i].rw)
      BY <1>6 DEF HalvesAccounted
    <3>3. \A rw : DroppedOf(conn[h], rw)
      BY <2>2 DEF DroppedOf
    <3> QED BY <3>1, <3>2, <3>3
  <2>4. \A i \in DOMAIN incoming : incoming[i] \in Handles /\ incoming[i] # h
    BY <1>t, <1>6, <2>2 DEF StreamsInTransit, TypeOK
  <2>5. HalvesAccounted'
    <3>1. \A i \in DOMAIN closing : /\ closing[i].handle \in Handles \ {h}
                                    /\ closing[i].handle \in sockets'
      BY <1>6, <2>1, <2>3 DEF HalvesAccounted, CloseMsg
    <3>2. sockets' \subseteq Handles \ {h}
      BY <1>t, <2>1 DEF TypeOK
    <3>3. \A g \in sockets' : g \in sockets /\ conn'[g] = conn[g]
      BY <1>5, <2>1, <3>2
    <3> QED BY <1>2, <1>5, <1>6, <3>1, <3>3 DEF HalvesAccounted
  <2>6. StreamsInTransit'
    BY <1>t, <1>2, <1>5, <1>6, <2>1, <2>4, NewConnType DEF StreamsInTransit, TypeOK
  <2>7. \A g \in Handles \ {h} : QueueContains(queue, g) => QueueContains(queue', g)
    BY <1>t, <2>1, QueueRemoveType DEF TypeOK
  <2>8. (DroppedStaysScheduled /\ ActiveIsScheduled)'
    BY <1>t, <1>1, <1>5, <2>1, <2>7
       DEF DroppedStaysScheduled, ActiveIsScheduled, Scheduled, TypeOK
  <2> QED BY <2>5, <2>6, <2>8
<1>8. CASE ~d.drop
  <2>1. /\ sockets' = sockets /\ queue' = QueueSend(queue, h, d.poll)
        /\ conn'[h] = d.conn
    BY <1>t, <1>3, <1>8 DEF TypeOK
  <2>2. /\ conn'[h].reader_dropped = conn[h].reader_dropped
        /\ conn'[h].writer_dropped = conn[h].writer_dropped
        /\ \A s \in {"none", "held", "gone"} :
              /\ conn'[h].reader = s <=> conn[h].reader = s
              /\ conn'[h].writer = s <=> conn[h].writer = s
    BY <1>4, <2>1 DEF HalvesKept, Settled
  <2>3. \A g \in Handles, rw \in {"Read", "Write"} :
          /\ HalfOf(conn'[g], rw) = "gone" <=> HalfOf(conn[g], rw) = "gone"
          /\ DroppedOf(conn'[g], rw) = DroppedOf(conn[g], rw)
    BY <1>5, <2>2 DEF HalfOf, DroppedOf
  <2>4. HalvesAccounted'
    <3>1. \A i \in DOMAIN closing : closing[i] \in CloseMsg
      BY <1>t DEF TypeOK
    <3>2. sockets \subseteq Handles
      BY <1>t DEF TypeOK
    <3> QED BY <1>2, <1>6, <2>1, <2>3, <3>1, <3>2 DEF HalvesAccounted, CloseMsg
  <2>5. StreamsInTransit'
    <3>1. \A i \in DOMAIN incoming : incoming[i] \in Handles
      BY <1>t DEF TypeOK
    <3>2. \A i \in DOMAIN incoming : /\ conn'[incoming[i]].reader = "held"
                                     /\ conn'[incoming[i]].writer = "held"
      BY <1>5, <1>6, <2>2, <3>1 DEF StreamsInTransit
    <3> QED BY <1>2, <1>5, <1>6, <2>1, <3>2 DEF StreamsInTransit
  <2>6. /\ \A g \in Handles : QueueContains(queue, g) => QueueContains(queue', g)
        /\ d.poll # Ingress => QueueContains(queue', h)
    BY <1>t, <1>4, <2>1, QueueSendType DEF TypeOK
  <2>7. Now # Ingress
    BY DEF Now, Ingress
  <2>8. (DroppedStaysScheduled /\ ActiveIsScheduled)'
    <3>1. both_dropped(conn'[h]) \/ conn'[h].polling_active => QueueContains(queue', h)
      BY <1>4, <1>8, <2>1, <2>2, <2>6, <2>7 DEF both_dropped
    <3> QED BY <1>t, <1>1, <1>5, <2>1, <2>6, <3>1
            DEF DroppedStaysScheduled, ActiveIsScheduled, Scheduled, TypeOK
  <2> QED BY <2>4, <2>5, <2>8
<1> QED BY <1>7, <1>8

\* A SYN of a pair that is not pooled starts a connection nobody knows of.
LEMMA CreateSynStep ==
    ASSUME IndInv, TypeOK', NEW h \in Handles, CreateSyn(h) PROVE IndInv'
<1> USE DEF IndInv, chanVars, poolVars
<1>t. TypeOK
  OBVIOUS
<1>1. /\ h \notin sockets /\ ~Gone /\ pc' = "send" /\ cur' = h
      /\ UNCHANGED <<closing, incoming, sockets, queue, next_poll>>
      /\ conn' = [conn EXCEPT ![h] = NewConn]
  BY DEF CreateSyn, Gone
<1>2. conn'[h] = NewConn /\ \A g \in Handles \ {h} : conn'[g] = conn[g]
  BY <1>t, <1>1 DEF TypeOK
<1>3. /\ sockets \subseteq Handles
      /\ \A i \in DOMAIN incoming : incoming[i] \in Handles
      /\ \A i \in DOMAIN closing : closing[i] \in CloseMsg
  BY <1>t DEF TypeOK
<1>4. \A g \in sockets : conn'[g] = conn[g]
  BY <1>1, <1>2, <1>3
<1>5. StreamsInTransit'
  BY <1>1, <1>2, <1>3, <1>4, NewConnType DEF StreamsInTransit, Gone
<1>6. HalvesAccounted'
  BY <1>1, <1>4 DEF HalvesAccounted, Gone
<1>7. (DroppedStaysScheduled /\ ActiveIsScheduled)'
  BY <1>1, <1>4 DEF DroppedStaysScheduled, ActiveIsScheduled, Scheduled
<1> QED BY <1>5, <1>6, <1>7

\* The connection whose stream is handed over has both its halves.
LEMMA SendStreamStep == ASSUME IndInv, TypeOK', SendStream PROVE IndInv'
<1> USE DEF IndInv
<1>t. TypeOK
  OBVIOUS
<1>1. PICK h \in Handles : h = cur
  BY DEF SendStream, StreamsInTransit, Gone
<1>2. /\ h \notin sockets /\ ~Gone /\ pc' = "process" /\ cur' = h
      /\ UNCHANGED <<closing, queue, next_poll, conn>>
      /\ sockets' = sockets \cup {h} /\ incoming' = Append(incoming, h)
      /\ Len(incoming) < Backlog
  BY <1>1 DEF SendStream, StreamsInTransit, Gone
<1>3. /\ conn[h].reader = "held" /\ conn[h].writer = "held"
      /\ ~conn[h].reader_dropped /\ ~conn[h].writer_dropped
      /\ ~conn[h].polling_active
  BY <1>1, <1>2 DEF SendStream, StreamsInTransit
<1>4. /\ Len(incoming') <= Backlog
      /\ \A i \in DOMAIN incoming' : incoming'[i] = h
  BY <1>t, <1>2 DEF Backlog, TypeOK
<1>5. StreamsInTransit'
  BY <1>2, <1>3, <1>4 DEF StreamsInTransit, Gone
<1>6. HalvesAccounted'
  <2>1. \A rw : HalfOf(conn[h], rw) # "gone" /\ ~DroppedOf(conn[h], rw)
    BY <1>3 DEF HalfOf, DroppedOf
  <2> QED BY <1>2, <2>1 DEF HalvesAccounted, Gone
<1>7. (DroppedStaysScheduled /\ ActiveIsScheduled)'
  BY <1>2, <1>3
     DEF DroppedStaysScheduled, ActiveIsScheduled, Scheduled, both_dropped
<1> QED BY <1>5, <1>6, <1>7

\* Without a listener both halves of the new stream are dropped and announced.
LEMMA SendStreamFailsStep == ASSUME IndInv, TypeOK', SendStreamFails PROVE IndInv'
<1> USE DEF IndInv
<1>t. TypeOK
  OBVIOUS
<1>1. PICK h \in Handles : h = cur
  BY DEF SendStreamFails, StreamsInTransit, Gone
<1> DEFINE c == [conn[h] EXCEPT !.reader = "gone", !.writer = "gone"]
<1>2. /\ h \notin sockets /\ ~Gone /\ pc' = "process" /\ cur' = h
      /\ UNCHANGED <<incoming, queue, next_poll>>
      /\ sockets' = sockets \cup {h} /\ conn' = [conn EXCEPT ![h] = c]
      /\ closing' = closing \o << [handle |-> h, rw |-> "Write"],
                                  [handle |-> h, rw |-> "Read"] >>
  BY <1>1 DEF SendStreamFails, StreamsInTransit, Gone
<1>3. /\ conn[h].reader = "held" /\ conn[h].writer = "held"
      /\ ~conn[h].reader_dropped /\ ~conn[h].writer_dropped
      /\ ~conn[h].polling_active
  BY <1>1, <1>2 DEF SendStreamFails, StreamsInTransit
<1>4. Moved(conn[h], c, "gone", "gone")
  BY <1>t, HalfUpdate DEF TypeOK, Half
<1> HIDE DEF c
<1>6. conn'[h] = c /\ \A g \in Handles \ {h} : conn'[g] = conn[g]
  BY <1>t, <1>2 DEF TypeOK
<1>8. HalvesAccounted'
  <2>1. DropsHalves(h, {"Read", "Write"})
    BY <1>3, <1>4, <1>6 DEF DropsHalves, HalfOf, DroppedOf, Moved
  <2>2. Announces(h, {"Read", "Write"})
    BY <1>t, <1>2, AnnounceBoth DEF TypeOK
  <2> QED BY <1>t, <1>2, <2>1, <2>2, AnnounceStep
<1>9. StreamsInTransit'
  <2>1. \A i \in DOMAIN incoming : incoming[i] \in Handles \ {h}
    BY <1>t, <1>2 DEF StreamsInTransit, TypeOK
  <2> QED BY <1>2, <1>6, <2>1 DEF StreamsInTransit, Gone
<1>10. (DroppedStaysScheduled /\ ActiveIsScheduled)'
  BY <1>t, <1>2, <1>3, <1>4, <1>6
     DEF DroppedStaysScheduled, ActiveIsScheduled, Scheduled, both_dropped, Moved, TypeOK
<1> QED BY <1>8, <1>9, <1>10

\* Marking a half takes its announcement out of the channel, and the connection
\* is scheduled once both halves are marked.
LEMMA DropTcpHalfStep == ASSUME IndInv, TypeOK', DropTcpHalf PROVE IndInv'
<1> USE DEF IndInv
<1>t. TypeOK
  OBVIOUS
<1>g. ~Gone /\ closing # <<>>
  BY DEF DropTcpHalf, Gone
<1>0. closing[1] = Head(closing) /\ 1 \in DOMAIN closing /\ closing[1] \in CloseMsg
  BY <1>t, <1>g DEF TypeOK
<1>1. PICK m \in CloseMsg : m = Head(closing) /\ m = closing[1]
  BY <1>0
<1> DEFINE h == m.handle
           d == ConnDropHalf(conn[h], m.rw)
           e == MarkDropped(conn[h], m.rw)
<1>2. h \in Handles /\ m.rw \in {"Read", "Write"} /\ m = [handle |-> h, rw |-> m.rw]
  BY DEF CloseMsg
<1>3. h \in sockets /\ HalfOf(conn[h], m.rw) = "gone" /\ ~DroppedOf(conn[h], m.rw)
  BY <1>g, <1>0, <1>1 DEF HalvesAccounted
<1>4. /\ conn' = [conn EXCEPT ![h] = d.conn]
      /\ queue' = QueueSend(queue, h, d.poll)
      /\ closing' = Tail(closing) /\ pc' = "loop"
      /\ UNCHANGED <<cur, next_poll, sockets, incoming>>
  BY <1>1, <1>3 DEF DropTcpHalf
<1>5. conn[h] \in Conn
  BY <1>t, <1>2 DEF TypeOK
<1>6. /\ d.conn \in Conn /\ Undisturbed(e, d.conn) /\ d.poll \in PollAt
      /\ both_dropped(d.conn) => d.poll # Ingress
  BY <1>2, <1>5, DropHalfConn
<1>7. /\ e.reader = conn[h].reader /\ e.writer = conn[h].writer
      /\ e.polling_active = conn[h].polling_active
      /\ \A rw \in {"Read", "Write"} : DroppedOf(e, rw) =
            IF rw = m.rw THEN TRUE ELSE DroppedOf(conn[h], rw)
  BY <1>2, <1>5 DEF MarkDropped, Conn, DroppedOf
<1> HIDE DEF d, e, h
<1>8. conn'[h] = d.conn /\ \A g \in Handles \ {h} : conn'[g] = conn[g]
  BY <1>t, <1>2, <1>4 DEF TypeOK
<1>9. /\ conn'[h].polling_active = conn[h].polling_active
      /\ \A rw \in {"Read", "Write"} :
            /\ DroppedOf(conn'[h], rw) = IF rw = m.rw THEN TRUE
                                         ELSE DroppedOf(conn[h], rw)
            /\ HalfOf(conn'[h], rw) = "gone" <=> HalfOf(conn[h], rw) = "gone"
            /\ HalfOf(conn'[h], rw) = "held" <=> HalfOf(conn[h], rw) = "held"
  BY <1>6, <1>7, <1>8 DEF Undisturbed, HalvesKept, HalfOf, DroppedOf, Settled
<1>10. /\ Len(closing) \in Nat /\ Len(closing) > 0
       /\ DOMAIN closing = 1..Len(closing)
       /\ DOMAIN closing' = 1..(Len(closing) - 1)
       /\ \A i \in DOMAIN closing' : closing'[i] = closing[i + 1]
  BY <1>t, <1>g, <1>4 DEF TypeOK
<1>11. HalvesAccounted'
  <2>1. ASSUME NEW i \in DOMAIN closing'
        PROVE  /\ i + 1 \in DOMAIN closing /\ i + 1 # 1
               /\ closing'[i] = closing[i + 1]
               /\ closing'[i] \in CloseMsg /\ closing'[i] # m
    <3>1. i + 1 \in DOMAIN closing /\ i + 1 # 1 /\ closing'[i] = closing[i + 1]
      BY <1>10
    <3>2. closing[i + 1] \in CloseMsg
      BY <1>t, <3>1 DEF TypeOK
    <3>3. closing[i + 1] # closing[1]
      BY <1>g, <1>0, <3>1 DEF HalvesAccounted
    <3> QED BY <1>1, <3>1, <3>2, <3>3
  <2>2. ASSUME NEW i \in DOMAIN closing'
        PROVE  /\ closing'[i].handle \in sockets'
               /\ HalfOf(conn'[closing'[i].handle], closing'[i].rw) = "gone"
               /\ ~DroppedOf(conn'[closing'[i].handle], closing'[i].rw)
    <3> DEFINE n == closing'[i]
    <3>1. /\ n.handle \in sockets /\ HalfOf(conn[n.handle], n.rw) = "gone"
          /\ ~DroppedOf(conn[n.handle], n.rw)
      BY <1>g, <2>1 DEF HalvesAccounted
    <3>2. /\ n.handle \in Handles /\ n.rw \in {"Read", "Write"}
          /\ ~(n.handle = h /\ n.rw = m.rw)
      BY <1>2, <2>1 DEF CloseMsg
    <3> HIDE DEF n
    <3>3. CASE n.handle = h
      BY <1>4, <1>9, <3>1, <3>2, <3>3 DEF n
    <3>4. CASE n.handle # h
      BY <1>4, <1>8, <3>1, <3>2, <3>4 DEF n
    <3> QED BY <3>3, <3>4
  <2>3. ASSUME NEW i \in DOMAIN closing', NEW j \in DOMAIN closing',
               closing'[i] = closing'[j]
        PROVE  i = j
    <3>1. i + 1 = j + 1
      BY <1>g, <2>1, <2>3 DEF HalvesAccounted
    <3> QED BY <1>10, <3>1
  <2>4. ASSUME NEW g \in sockets', NEW rw \in {"Read", "Write"}
        PROVE  /\ DroppedOf(conn'[g], rw) => HalfOf(conn'[g], rw) = "gone"
               /\ HalfOf(conn'[g], rw) = "gone" /\ ~DroppedOf(conn'[g], rw) =>
                    \E i \in DOMAIN closing' : closing'[i] = [handle |-> g, rw |-> rw]
    <3>1. g \in sockets /\ g \in Handles
      BY <1>t, <1>4 DEF TypeOK
    <3>2. CASE g = h /\ rw = m.rw
      BY <1>3, <1>9, <3>2
    <3>3. CASE ~(g = h /\ rw = m.rw)
      <4>1. /\ DroppedOf(conn'[g], rw) = DroppedOf(conn[g], rw)
            /\ HalfOf(conn'[g], rw) = "gone" <=> HalfOf(conn[g], rw) = "gone"
        BY <1>8, <1>9, <3>1, <3>3
      <4>2. DroppedOf(conn[g], rw) => HalfOf(conn[g], rw) = "gone"
        BY <1>g, <3>1 DEF HalvesAccounted
      <4>3. ASSUME HalfOf(conn[g], rw) = "gone" /\ ~DroppedOf(conn[g], rw)
            PROVE  \E i \in DOMAIN closing' : closing'[i] = [handle |-> g, rw |-> rw]
        <5>1. PICK k \in DOMAIN closing : closing[k] = [handle |-> g, rw |-> rw]
          BY <1>g, <3>1, <4>3 DEF HalvesAccounted
        <5>2. k # 1
          BY <1>1, <1>2, <3>3, <5>1
        <5>3. k - 1 \in DOMAIN closing' /\ closing'[k - 1] = closing[k]
          BY <1>10, <5>2
        <5> QED BY <5>1, <5>3
      <4> QED BY <4>1, <4>2, <4>3
    <3> QED BY <3>2, <3>3
  <2> QED BY <2>2, <2>3, <2>4 DEF HalvesAccounted
<1>12. StreamsInTransit'
  <2>1. \A i \in DOMAIN incoming : incoming[i] \in Handles \ {h}
    <3>1. \A i \in DOMAIN incoming : /\ incoming[i] \in Handles
                                     /\ conn[incoming[i]].reader = "held"
                                     /\ conn[incoming[i]].writer = "held"
      BY <1>t, <1>g DEF TypeOK, StreamsInTransit
    <3> QED BY <1>3, <3>1 DEF HalfOf
  <2> QED BY <1>g, <1>3, <1>4, <1>8, <2>1 DEF StreamsInTransit, Gone
<1>13. (DroppedStaysScheduled /\ ActiveIsScheduled)'
  <2>1. /\ \A g \in Handles : QueueContains(queue, g) => QueueContains(queue', g)
        /\ d.poll # Ingress => QueueContains(queue', h)
    BY <1>t, <1>2, <1>4, <1>6, QueueSendType DEF TypeOK
  <2>2. \A g \in Handles : Scheduled(g) => Scheduled(g)'
    BY <1>4, <2>1 DEF Scheduled
  <2>3. both_dropped(conn'[h]) => QueueContains(queue', h)
    BY <1>6, <1>8, <2>1
  <2>4. sockets' = sockets /\ sockets \subseteq Handles
    BY <1>t, <1>4 DEF TypeOK
  <2> QED BY <1>8, <1>9, <2>2, <2>3, <2>4
          DEF DroppedStaysScheduled, ActiveIsScheduled, Scheduled
<1> QED BY <1>11, <1>12, <1>13

\* The application drops a half that it uses: the half belongs to a pooled
\* connection and was not announced before.
LEMMA DropHalfStep ==
    ASSUME IndInv, TypeOK', NEW h \in Handles, DropReader(h) \/ DropWriter(h)
    PROVE  IndInv'
<1> USE DEF IndInv, loopVars, poolVars
<1>t. TypeOK
  OBVIOUS
<1>1. PICK rw \in {"Read", "Write"} :
        \/ rw = "Read" /\ DropReader(h)
        \/ rw = "Write" /\ DropWriter(h)
  OBVIOUS
<1> DEFINE s == IF Gone THEN "panicked" ELSE "gone"
           c == IF rw = "Read" THEN [conn[h] EXCEPT !.reader = s]
                               ELSE [conn[h] EXCEPT !.writer = s]
<1>2. /\ HalfOf(conn[h], rw) \in Running \cup {"wait"}
      /\ conn' = [conn EXCEPT ![h] = c]
      /\ ~Gone => closing' = Append(closing, [handle |-> h, rw |-> rw])
      /\ UNCHANGED <<pc, cur, next_poll, sockets, queue, incoming>>
  BY <1>1 DEF DropReader, DropWriter, HalfOf
<1>3. Moved(conn[h], c, IF rw = "Read" THEN s ELSE conn[h].reader,
                        IF rw = "Write" THEN s ELSE conn[h].writer)
  <2>1. s \in Half /\ conn[h] \in Conn
    BY <1>t DEF Half, TypeOK
  <2> HIDE DEF s
  <2> QED BY <2>1, HalfUpdate
<1>4. ~Gone => s = "gone"
  OBVIOUS
<1> HIDE DEF c, s
<1>5. conn'[h] = c /\ \A g \in Handles \ {h} : conn'[g] = conn[g]
  BY <1>t, <1>2 DEF TypeOK
<1>6. (DroppedStaysScheduled /\ ActiveIsScheduled)'
  <2>1. \A g \in sockets : /\ both_dropped(conn'[g]) => both_dropped(conn[g])
                           /\ conn'[g].polling_active => conn[g].polling_active
    BY <1>t, <1>3, <1>5 DEF Moved, both_dropped, TypeOK
  <2> QED BY <1>2, <2>1, ScheduleStep
<1>7. CASE Gone
  BY <1>2, <1>6, <1>7 DEF Gone, StreamsInTransit, HalvesAccounted
<1>8. CASE ~Gone
  <2>1. /\ HalfOf(conn[h], rw) \notin {"none", "held", "gone"}
        /\ conn[h].reader # "held" \/ conn[h].writer # "held"
    BY <1>2 DEF Running, HalfOf
  <2>2. h \in sockets
    BY <1>8, <2>1 DEF StreamsInTransit, HalfOf
  <2>3. ~DroppedOf(conn[h], rw)
    BY <1>8, <2>1, <2>2 DEF HalvesAccounted
  <2>4. DropsHalves(h, {rw})
    BY <1>3, <1>4, <1>5, <1>8, <2>1, <2>3 DEF DropsHalves, HalfOf, DroppedOf, Moved
  <2>5. Announces(h, {rw})
    BY <1>t, <1>2, <1>8, AnnounceOne DEF TypeOK
  <2>6. HalvesAccounted'
    <3>1. {rw} \in SUBSET {"Read", "Write"} /\ sockets' = sockets \cup {h}
      BY <1>2, <2>2
    <3> QED BY <1>t, <1>8, <2>2, <2>4, <2>5, <3>1, AnnounceStep
  <2>7. StreamsInTransit'
    <3>1. /\ \A i \in DOMAIN incoming : incoming[i] \in Handles \ {h}
          /\ pc = "send" => cur \in Handles \ {h}
      BY <1>t, <1>8, <2>1, <2>2 DEF StreamsInTransit, TypeOK
    <3> QED BY <1>2, <1>5, <1>8, <2>2, <3>1 DEF StreamsInTransit, Gone
  <2> QED BY <1>6, <2>6, <2>7
<1> QED BY <1>7, <1>8

\* An accepted stream belongs to a pooled connection, and its halves come into
\* use; the channel is empty afterwards.
LEMMA AcceptStep == ASSUME IndInv, TypeOK', Accept PROVE IndInv'
<1> USE DEF IndInv, loopVars, poolVars
<1>t. TypeOK
  OBVIOUS
<1>1. PICK h \in Handles : h = Head(incoming) /\ 1 \in DOMAIN incoming /\ h = incoming[1]
  BY <1>t DEF Accept, TypeOK
<1> DEFINE c == [conn[h] EXCEPT !.reader = "run", !.writer = "run"]
<1>2. /\ conn' = [conn EXCEPT ![h] = c] /\ incoming' = Tail(incoming)
      /\ UNCHANGED <<pc, cur, next_poll, sockets, queue, closing>>
  BY <1>1 DEF Accept
<1>3. Moved(conn[h], c, "run", "run")
  BY <1>t, HalfUpdate DEF TypeOK, Half
<1> HIDE DEF c
<1>4. conn'[h] = c /\ \A g \in Handles \ {h} : conn'[g] = conn[g]
  BY <1>t, <1>2 DEF TypeOK
<1>5. (DroppedStaysScheduled /\ ActiveIsScheduled)'
  <2>1. \A g \in sockets : /\ both_dropped(conn'[g]) => both_dropped(conn[g])
                           /\ conn'[g].polling_active => conn[g].polling_active
    BY <1>t, <1>3, <1>4 DEF Moved, both_dropped, TypeOK
  <2> QED BY <1>2, <2>1, ScheduleStep
<1>6. CASE Gone
  BY <1>2, <1>5, <1>6 DEF Gone, StreamsInTransit, HalvesAccounted
<1>7. CASE ~Gone
  <2>1. h \in sockets /\ conn[h].reader = "held" /\ conn[h].writer = "held"
    BY <1>1, <1>7 DEF StreamsInTransit
  <2>2. Len(incoming') <= Backlog /\ DOMAIN incoming' = {}
    <3>1. Len(incoming) = 1
      <4>1. Len(incoming) \in Nat /\ DOMAIN incoming = 1..Len(incoming)
        BY <1>t DEF TypeOK
      <4>2. Len(incoming) <= 1
        BY <1>7 DEF StreamsInTransit, Backlog
      <4> QED BY <1>1, <4>1, <4>2
    <3> QED BY <1>t, <1>1, <1>2, <3>1 DEF Backlog, TypeOK
  <2>3. StreamsInTransit'
    <3>1. pc = "send" => cur \in Handles \ {h}
      BY <1>7, <2>1 DEF StreamsInTransit
    <3> QED BY <1>2, <1>4, <1>7, <2>1, <2>2, <3>1 DEF StreamsInTransit, Gone
  <2>4. \A g \in Handles, rw \in {"Read", "Write"} :
          /\ HalfOf(conn'[g], rw) = "gone" <=> HalfOf(conn[g], rw) = "gone"
          /\ DroppedOf(conn'[g], rw) = DroppedOf(conn[g], rw)
    BY <1>3, <1>4, <2>1 DEF HalfOf, DroppedOf, Moved
  <2>5. HalvesAccounted'
    <3>1. /\ \A i \in DOMAIN closing : closing[i] \in CloseMsg
          /\ sockets \subseteq Handles
      BY <1>t DEF TypeOK
    <3> QED BY <1>2, <1>7, <2>4, <3>1 DEF HalvesAccounted, CloseMsg, Gone
  <2> QED BY <1>5, <2>3, <2>5
<1> QED BY <1>6, <1>7

\* Dropping the listener drops the stream that waits in its channel.
LEMMA DropListenerStep == ASSUME IndInv, TypeOK', DropListener PROVE IndInv'
<1> USE DEF IndInv, loopVars, poolVars
<1>t. TypeOK
  OBVIOUS
<1>0. /\ incoming' = <<>> /\ UNCHANGED <<pc, cur, next_poll, sockets, queue>>
  BY DEF DropListener
<1>1. Len(incoming') <= Backlog /\ DOMAIN incoming' = {}
  BY <1>0 DEF Backlog
<1>2. CASE incoming = <<>>
  <2>1. UNCHANGED <<conn, closing>>
    BY <1>2 DEF DropListener
  <2> QED BY <1>0, <1>1, <2>1
          DEF StreamsInTransit, HalvesAccounted, Gone, DroppedStaysScheduled,
              ActiveIsScheduled, Scheduled
<1>3. CASE incoming # <<>>
  <2>1. PICK h \in Handles : h = Head(incoming) /\ 1 \in DOMAIN incoming
                                                /\ h = incoming[1]
    BY <1>t, <1>3 DEF TypeOK
  <2> DEFINE s == IF Gone THEN "panicked" ELSE "gone"
             c == [conn[h] EXCEPT !.reader = s, !.writer = s]
  <2>2. /\ conn' = [conn EXCEPT ![h] = c]
        /\ ~Gone => closing' = closing \o << [handle |-> h, rw |-> "Write"],
                                             [handle |-> h, rw |-> "Read"] >>
    BY <1>3, <2>1 DEF DropListener
  <2>3. Moved(conn[h], c, s, s)
    <3>1. s \in Half /\ conn[h] \in Conn
      BY <1>t DEF Half, TypeOK
    <3> HIDE DEF s
    <3> QED BY <3>1, HalfUpdate
  <2>4. ~Gone => s = "gone"
    OBVIOUS
  <2> HIDE DEF c, s
  <2>5. conn'[h] = c /\ \A g \in Handles \ {h} : conn'[g] = conn[g]
    BY <1>t, <2>2 DEF TypeOK
  <2>6. (DroppedStaysScheduled /\ ActiveIsScheduled)'
    <3>1. \A g \in sockets : /\ both_dropped(conn'[g]) => both_dropped(conn[g])
                             /\ conn'[g].polling_active => conn[g].polling_active
      BY <1>t, <2>3, <2>5 DEF Moved, both_dropped, TypeOK
    <3> QED BY <1>0, <3>1, ScheduleStep
  <2>7. CASE Gone
    BY <1>0, <2>6, <2>7 DEF Gone, StreamsInTransit, HalvesAccounted
  <2>8. CASE ~Gone
    <3>1. h \in sockets /\ conn[h].reader = "held" /\ conn[h].writer = "held"
      BY <2>1, <2>8 DEF StreamsInTransit
    <3>2. \A rw \in {"Read", "Write"} : ~DroppedOf(conn[h], rw)
      BY <2>8, <3>1 DEF HalvesAccounted, HalfOf
    <3>3. DropsHalves(h, {"Read", "Write"})
      BY <2>3, <2>4, <2>5, <2>8, <3>1, <3>2
         DEF DropsHalves, HalfOf, DroppedOf, Moved
    <3>4. Announces(h, {"Read", "Write"})
      BY <1>t, <2>2, <2>8, AnnounceBoth DEF TypeOK
    <3>5. HalvesAccounted'
      <4>1. sockets' = sockets \cup {h}
        BY <1>0, <3>1
      <4> QED BY <1>t, <2>8, <3>1, <3>3, <3>4, <4>1, AnnounceStep
    <3>6. StreamsInTransit'
      <4>1. pc = "send" => cur \in Handles \ {h}
        BY <2>8, <3>1 DEF StreamsInTransit
      <4> QED BY <1>0, <1>1, <2>5, <2>8, <3>1, <4>1 DEF StreamsInTransit, Gone
    <3> QED BY <2>6, <3>5, <3>6
  <2> QED BY <2>7, <2>8
<1> QED BY <1>2, <1>3

-----------------------------------------------------------------------------
\* Every step of the I/O loop, the application, the device and the clock keeps
\* the inductive invariant.
LEMMA NextInv == ASSUME IndInv, [Next]_vars PROVE IndInv'
<1>1. TypeOK'
  BY TypeStep
<1>t. TypeOK
  BY DEF IndInv
<1>2. CASE \/ NothingToWrite \/ PollPending \/ Written \/ WriteReply
           \/ \E h \in Handles, kind \in Segments : Receive(h, kind) \/ Drop(h, kind)
           \/ \E h \in Handles : Expire(h)
           \/ ProcessSyn \/ PollUpdate
           \/ \E h \in Handles : \/ PollRead(h) \/ PollWrite(h) \/ PollClose(h)
                                 \/ CancelRead(h) \/ CancelWrite(h)
           \/ Tick \/ UNCHANGED vars
  <2>1. Calm
    BY <1>2, CalmActions
  <2> QED BY <1>1, <2>1, CalmStep
<1>3. CASE Dispatch
  BY <1>1, <1>3, DispatchStep
<1>4. CASE DispatchPanics
  BY <1>t, <1>4, EndLoopStep DEF DispatchPanics
<1>5. CASE DeviceError
  BY <1>t, <1>5, EndLoopStep DEF DeviceError
<1>6. CASE \E h \in Handles : CreateSyn(h)
  BY <1>1, <1>6, CreateSynStep
<1>7. CASE SendStream
  BY <1>1, <1>7, SendStreamStep
<1>8. CASE SendStreamFails
  BY <1>1, <1>8, SendStreamFailsStep
<1>9. CASE DropTcpHalf
  BY <1>1, <1>9, DropTcpHalfStep
<1>10. CASE \E h \in Handles : DropReader(h) \/ DropWriter(h)
  BY <1>1, <1>10, DropHalfStep
<1>11. CASE Accept
  BY <1>1, <1>11, AcceptStep
<1>12. CASE DropListener
  BY <1>1, <1>12, DropListenerStep
<1> QED BY <1>2, <1>3, <1>4, <1>5, <1>6, <1>7, <1>8, <1>9, <1>10, <1>11, <1>12
        DEF Next, LoopStep, AppStep, EnvStep

\* Every variable keeps its type: no buffer of a connection overflows, no counter
\* leaves its bounds and every message names a pair.
THEOREM TypeCorrect == Spec => []TypeOK
<1>1. IndInv => TypeOK
  BY DEF IndInv
<1> QED BY <1>1, InitInv, NextInv, PTL DEF Spec

\* A stream that create_syn hands over finds its connection in the pool, and no
\* half of a pair outside the pool is in use.
THEOREM TransitCorrect == Spec => []StreamsInTransit
<1>1. IndInv => StreamsInTransit
  BY DEF IndInv
<1> QED BY <1>1, InitInv, NextInv, PTL DEF Spec

\* Each dropped half is announced or marked, exactly once, so drop_tcp_half
\* always finds the connection it expects.
THEOREM HalvesCorrect == Spec => []HalvesAccounted
<1>1. IndInv => HalvesAccounted
  BY DEF IndInv
<1> QED BY <1>1, InitInv, NextInv, PTL DEF Spec

\* A connection whose two halves are marked as dropped is queued or about to be
\* dispatched, so the pool does not keep it without anything to remove it.
THEOREM DroppedScheduledCorrect == Spec => []DroppedStaysScheduled
<1>1. IndInv => DroppedStaysScheduled
  BY DEF IndInv
<1> QED BY <1>1, InitInv, NextInv, PTL DEF Spec

\* polling_active is never a promise without a deadline: a writer that sees it
\* may leave the queue alone.
THEOREM ActiveCorrect == Spec => []ActiveIsScheduled
<1>1. IndInv => ActiveIsScheduled
  BY DEF IndInv
<1> QED BY <1>1, InitInv, NextInv, PTL DEF Spec

\* SocketPool::dispatch removes a connection only when the application has
\* dropped both halves of it: no live stream loses its connection.
THEOREM RemovalCorrect == Spec => RemovedOnlyWhenDropped
<1>1. ASSUME IndInv, [Next]_vars
      PROVE  [\A h \in sockets \ sockets' :
                 \/ Gone'
                 \/ conn[h].reader = "gone" /\ conn[h].writer = "gone"]_vars
  <2> SUFFICES ASSUME NEW h \in sockets \ sockets', ~Gone'
               PROVE  conn[h].reader = "gone" /\ conn[h].writer = "gone"
    OBVIOUS
  <2>1. TypeOK /\ HalvesAccounted
    BY <1>1 DEF IndInv
  <2>2. ~EndLoop("exited") /\ ~EndLoop("panicked")
    BY DEF EndLoop, Gone
  <2>3. Dispatch
    <3> USE DEF vars, loopVars, poolVars
    <3>1. ~(\/ NothingToWrite \/ PollPending \/ Written \/ WriteReply
            \/ SendStream \/ SendStreamFails \/ ProcessSyn \/ PollUpdate
            \/ Accept \/ DropListener \/ Tick \/ UNCHANGED vars)
      BY DEF NothingToWrite, PollPending, Written, WriteReply, SendStream,
             SendStreamFails, ProcessSyn, PollUpdate, Accept, DropListener, Tick
    <3>2. ~(DispatchPanics \/ DropTcpHalf \/ DeviceError)
      BY <2>2 DEF DispatchPanics, DropTcpHalf, DeviceError
    <3>3. \A g \in Handles, kind \in Segments : ~Receive(g, kind) /\ ~Drop(g, kind)
      BY DEF Receive, Drop
    <3>4. \A g \in Handles :
            ~(\/ CreateSyn(g) \/ Expire(g)
              \/ PollRead(g) \/ PollWrite(g) \/ PollClose(g)
              \/ CancelRead(g) \/ CancelWrite(g)
              \/ DropReader(g) \/ DropWriter(g))
      BY DEF CreateSyn, Expire, PollRead, PollWrite, PollClose, CancelRead,
             CancelWrite, DropReader, DropWriter
    <3> HIDE DEF vars
    <3> QED BY <1>1, <3>1, <3>2, <3>3, <3>4 DEF Next, LoopStep, AppStep, EnvStep
  <2>4. h = next_poll /\ ConnDispatch(conn[h]).drop /\ h \in Handles /\ ~Gone
    BY <2>1, <2>3 DEF Dispatch, Gone, TypeOK
  <2>5. both_dropped(conn[h])
    BY <2>1, <2>4, DispatchConn DEF TypeOK
  <2> QED BY <2>1, <2>4, <2>5 DEF HalvesAccounted, HalfOf, DroppedOf, both_dropped
<1> QED BY <1>1, InitInv, NextInv, PTL DEF Spec, RemovedOnlyWhenDropped

-----------------------------------------------------------------------------
(* Deadlines and timers. *)

\* Something that is due in d ticks is due before the timer of t expires.
OnTime(d, t) == t.timer # Off => d <= t.timer

\* A timer is stopped, left alone or set anew, but never brought forward.
NotAdvanced(t, u) == u.timer \in {Off, t.timer, Rto}

\* DeadlineMeetsTimer, of the pairs outside the pool too: an update of one may
\* wait in the channel while the pair is opened again.
Punctual ==
    \A h \in Handles :
        /\ OnTime(queue[h], conn[h].tcp)
        /\ \A i \in DOMAIN polls :
              polls[i].handle = h => OnTime(polls[i].poll.due, conn[h].tcp)

\* The answer of poll_at is never later than the timer.
LEMMA PollAtOnTime == ASSUME NEW t \in Tcp PROVE OnTime(poll_at(t).due, t)
<1>1. t.timer \in Off..Rto
  BY DEF Tcp, TcpFields
<1> QED BY <1>1, TcpAssumption DEF OnTime, poll_at, Now, Ingress, Time, Off

\* What was on time stays so when the timer is not brought forward.
LEMMA StaysOnTime ==
    ASSUME NEW t \in Tcp, NEW u \in Tcp, NotAdvanced(t, u),
           NEW d \in Off..Rto, OnTime(d, t)
    PROVE  OnTime(d, u)
  BY TcpAssumption DEF OnTime, NotAdvanced, Off

\* close, send_slice and recv_slice do not bring the timer forward.
LEMMA LocalNotAdvanced ==
    ASSUME NEW t \in Tcp
    PROVE  /\ NotAdvanced(t, tcp_close(t))
           /\ \A n \in Nat : /\ NotAdvanced(t, send_slice(t, n))
                             /\ NotAdvanced(t, recv_slice(t, n))
<1>1. ClosedTcp(t).timer = Off
  BY DEF ClosedTcp, ListenTcp
<1>2. tcp_close(t) = ClosedTcp(t) \/ tcp_close(t).timer = t.timer
  BY DEF tcp_close, Tcp, TcpFields
<1>3. \A n \in Nat : send_slice(t, n).timer = t.timer /\ recv_slice(t, n).timer = t.timer
  BY DEF send_slice, recv_slice, Tcp, TcpFields
<1> QED BY <1>1, <1>2, <1>3 DEF NotAdvanced

\* Nor does a dispatch.
LEMMA DispatchNotAdvanced ==
    ASSUME NEW t \in Tcp PROVE NotAdvanced(t, tcp_dispatch(t).tcp)
<1> DEFINE s == Rewound(t)
<1>0. s \in Tcp
  BY RewoundType
<1>1. s.timer = t.timer
  BY DEF Rewound, Tcp, TcpFields
<1> HIDE DEF s
<1>2. EmitSeq(s).timer \in {s.timer, Rto}
  <2> DEFINE n == IF s.unsent > 0 THEN 1 ELSE 0
             k == IF s.unsent = n /\ s.ctl = "unsent" THEN "flight" ELSE s.ctl
             e == [s EXCEPT !.unsent = s.unsent - n, !.flight = s.flight + n,
                            !.ctl = k, !.ack = "none"]
             m == IF SeqToTransmit(e) \/ e.timer > 0 THEN e.timer ELSE Rto
  <2>1. EmitSeq(s) = [e EXCEPT !.timer = m]
    BY <1>0 DEF EmitSeq, Tcp, TcpFields
  <2> HIDE DEF n, k
  <2>2. e.timer = s.timer /\ "timer" \in DOMAIN e
    BY <1>0 DEF Tcp, TcpFields
  <2>3. m \in {s.timer, Rto}
    BY <2>2
  <2> HIDE DEF e, m
  <2> QED BY <2>1, <2>2, <2>3
<1>3. [s EXCEPT !.ack = "none"].timer = s.timer
  BY <1>0 DEF Tcp, TcpFields
<1>4. [ClosedTcp(s) EXCEPT !.rx = 0].timer = Off
  BY DEF ClosedTcp, ListenTcp
<1>5. tcp_dispatch(t).tcp \in {t, EmitSeq(s), [s EXCEPT !.ack = "none"],
                               [ClosedTcp(s) EXCEPT !.rx = 0], s}
  BY DEF tcp_dispatch, s
<1> QED BY <1>1, <1>2, <1>3, <1>4, <1>5 DEF NotAdvanced

\* Nor does a segment that arrives.
LEMMA ProcessNotAdvanced ==
    ASSUME NEW t \in Tcp, NEW kind \in Kinds, NEW r \in tcp_process(t, kind)
    PROVE  NotAdvanced(t, r.tcp)
<1> USE DEF NotAdvanced, Silent, Answer
<1>1. ASSUME NEW s \in Tcp
      PROVE  /\ Handshake(s) \in Tcp /\ Handshake(s).timer \in {Off, s.timer}
             /\ ClosedTcp(s).timer = Off
             /\ StaleResult(s).tcp.timer \in {s.timer, Rto}
             /\ DataResult(s).tcp.timer = s.timer
             /\ FinAcked(s).timer \in {Off, Rto}
  <2>1. Handshake(s) \in Tcp
    BY HandshakeType
  <2>2. Handshake(s).timer \in {Off, s.timer}
    BY DEF Handshake, Tcp, TcpFields
  <2>3. ClosedTcp(s).timer = Off
    BY DEF ClosedTcp, ListenTcp
  <2>4. StaleResult(s).tcp.timer \in {s.timer, Rto}
    BY DEF StaleResult, Tcp, TcpFields
  <2>5. DataResult(s).tcp.timer = s.timer
    BY DEF DataResult, Tcp, TcpFields
  <2>6. FinAcked(s).timer \in {Off, Rto}
    BY <2>3 DEF FinAcked, Tcp, TcpFields
  <2> QED BY <2>1, <2>2, <2>3, <2>4, <2>5, <2>6
<1>2. ASSUME NEW s \in Tcp PROVE FinResult(s).tcp.timer \in {s.timer, Rto}
  BY <1>1 DEF FinResult, Tcp, TcpFields
<1>3. ASSUME NEW n \in 0..t.flight, NEW w \in BOOLEAN
      PROVE  Acked(t, n, w).timer \in {Off, t.timer}
  <2> DEFINE m == IF n = t.flight /\ t.ctl # "flight" THEN Off ELSE t.timer
             f == t.flight - n
  <2>1. Acked(t, n, w) = [t EXCEPT !.flight = f, !.wnd = w, !.timer = m]
    BY DEF Acked, Tcp, TcpFields
  <2>2. m \in {Off, t.timer}
    OBVIOUS
  <2> HIDE DEF m, f
  <2> QED BY <2>1, <2>2 DEF Tcp, TcpFields
<1>4. ListenTcp.timer = Off
  BY DEF ListenTcp
<1>5. CASE kind = "syn"
  <2> DEFINE o == [ListenTcp EXCEPT !.state = "SynReceived", !.remote = TRUE,
                                    !.ctl = "unsent"]
  <2>1. o.timer = Off
    BY DEF ListenTcp
  <2>2. r.tcp = o \/ r.tcp = t
    BY <1>5 DEF tcp_process, SynResult
  <2> QED BY <2>1, <2>2
<1>6. CASE kind = "ack"
  <2>1. PICK u \in AckResults(t) : r.tcp = u
    BY <1>6 DEF tcp_process
  <2>2. t.flight \in 0..t.flight
    BY DEF Tcp, TcpFields
  <2>3. u.timer \in {Off, t.timer, Rto}
    <3>1. CASE u = Handshake(t)
      BY <1>1, <3>1
    <3>2. CASE u = FinAcked(t)
      BY <1>1, <3>2
    <3>3. CASE \E n \in 0..t.flight, w \in BOOLEAN : u = Acked(t, n, w)
      BY <1>3, <3>3
    <3> QED BY <2>2, <3>1, <3>2, <3>3 DEF AckResults
  <2> QED BY <2>1, <2>3
<1>7. CASE kind = "data"
  BY <1>1, <1>7 DEF tcp_process
<1>8. CASE kind = "fin"
  BY <1>1, <1>2, <1>8 DEF tcp_process
<1>9. CASE kind = "rst"
  BY <1>1, <1>4, <1>9 DEF tcp_process, RstResult
<1>10. CASE kind = "stale"
  BY <1>1, <1>10 DEF tcp_process
<1> QED BY <1>5, <1>6, <1>7, <1>8, <1>9, <1>10 DEF Kinds
\* A step keeps everything on time if it brings no timer forward, and if what it
\* puts into the queue or the channel is on time.
LEMMA PunctualStep ==
    ASSUME TypeOK, TypeOK', Punctual,
           \A h \in Handles : NotAdvanced(conn[h].tcp, conn'[h].tcp),
           \A h \in Handles : \/ queue'[h] = queue[h]
                              \/ OnTime(queue'[h], conn'[h].tcp),
           \A j \in DOMAIN polls' :
              \/ \E i \in DOMAIN polls : polls'[j] = polls[i]
              \/ OnTime(polls'[j].poll.due, conn'[polls'[j].handle].tcp)
    PROVE  Punctual'
<1> SUFFICES ASSUME NEW h \in Handles
             PROVE  /\ OnTime(queue'[h], conn'[h].tcp)
                    /\ \A j \in DOMAIN polls' :
                          polls'[j].handle = h =>
                              OnTime(polls'[j].poll.due, conn'[h].tcp)
  BY DEF Punctual
<1>1. /\ conn[h].tcp \in Tcp /\ conn'[h].tcp \in Tcp
      /\ NotAdvanced(conn[h].tcp, conn'[h].tcp)
  BY DEF TypeOK, Conn
<1>2. OnTime(queue'[h], conn'[h].tcp)
  BY <1>1, StaysOnTime DEF Punctual, TypeOK, Deadlines
<1>3. ASSUME NEW j \in DOMAIN polls', polls'[j].handle = h
      PROVE  OnTime(polls'[j].poll.due, conn'[h].tcp)
  <2>1. CASE \E i \in DOMAIN polls : polls'[j] = polls[i]
    <3>1. PICK i \in DOMAIN polls : polls'[j] = polls[i]
      BY <2>1
    <3>0. polls[i] \in PollMsg
      BY DEF TypeOK
    <3>2. polls[i].poll \in PollAt /\ polls[i].handle = h
      BY <1>3, <3>0, <3>1 DEF PollMsg
    <3>3. polls[i].poll.due \in Off..Rto
      <4>1. \E k \in 0..Rto : polls[i].poll.due = k
        BY <3>2, Bounds, TcpAssumption DEF PollAt, Now, Ingress, Time
      <4> QED BY <4>1, TcpAssumption DEF Off
    <3>4. OnTime(polls[i].poll.due, conn[h].tcp)
      BY <3>2 DEF Punctual
    <3> QED BY <1>1, <3>1, <3>3, <3>4, StaysOnTime
  <2> QED BY <1>3, <2>1
<1> QED BY <1>2, <1>3

\* Sending a deadline that is on time leaves every other pair where it was.
LEMMA QueueOnTime ==
    ASSUME TypeOK, NEW h \in Handles, NEW p \in PollAt, NEW g \in Handles,
           NEW t, OnTime(p.due, t)
    PROVE  \/ QueueSend(queue, h, p)[g] = queue[g]
           \/ g = h /\ OnTime(QueueSend(queue, h, p)[g], t)
  BY DEF QueueSend, TypeOK, Deadlines

\* No timer is brought forward where no socket changes but one.
LEMMA OneNotAdvanced ==
    ASSUME TypeOK, NEW h \in Handles, NEW c, conn' = [conn EXCEPT ![h] = c],
           NotAdvanced(conn[h].tcp, c.tcp)
    PROVE  \A g \in Handles : NotAdvanced(conn[g].tcp, conn'[g].tcp)
  BY DEF TypeOK, NotAdvanced

\* A segment is processed on time.
LEMMA ProcessPunctual ==
    ASSUME TypeOK, NEW h \in Handles, NEW kind \in Kinds, ProcessSegment(h, kind)
    PROVE  /\ \A g \in Handles : NotAdvanced(conn[g].tcp, conn'[g].tcp)
           /\ \A g \in Handles : \/ queue'[g] = queue[g]
                                 \/ OnTime(queue'[g], conn'[g].tcp)
<1>1. CASE ~check_acceptability(conn[h], kind)
  BY <1>1 DEF ProcessSegment, NotAdvanced
<1>2. CASE check_acceptability(conn[h], kind)
  <2>1. PICK result \in tcp_process(conn[h].tcp, kind) :
          /\ conn' = [conn EXCEPT ![h] = ConnProcess(conn[h], result)]
          /\ queue' = QueueSend(queue, h,
                          ProcessPollAt(ConnProcess(conn[h], result),
                                        QueueContains(queue, h)))
    BY <1>2 DEF ProcessSegment
  <2> DEFINE c == ConnProcess(conn[h], result)
             p == ProcessPollAt(c, QueueContains(queue, h))
  <2>2. conn[h] \in Conn /\ conn[h].tcp \in Tcp
    BY DEF TypeOK, Conn
  <2>3. result.tcp \in Tcp /\ NotAdvanced(conn[h].tcp, result.tcp)
    BY <2>2, ProcessType, ProcessNotAdvanced
  <2>4. c \in Conn /\ c.tcp = result.tcp
    BY <2>2, <2>3, ProcessConn
  <2> HIDE DEF c
  <2>5. p \in PollAt
    BY <2>4, ProcessPollAtType
  <2>6. OnTime(p.due, c.tcp)
    <3>1. OnTime(poll_at(c.tcp).due, c.tcp)
      BY <2>3, <2>4, PollAtOnTime
    <3>2. c.tcp.timer \in Off..Rto
      BY <2>3, <2>4 DEF Tcp, TcpFields
    <3>3. OnTime(Now.due, c.tcp)
      BY <3>2, TcpAssumption DEF OnTime, Now, Off
    <3> QED BY <3>1, <3>3 DEF ProcessPollAt
  <2>7. conn' = [conn EXCEPT ![h] = c] /\ queue' = QueueSend(queue, h, p)
    BY <2>1 DEF c
  <2> HIDE DEF p
  <2>8. conn'[h] = c
    BY <2>7 DEF TypeOK
  <2> QED BY <2>3, <2>4, <2>5, <2>6, <2>7, <2>8, OneNotAdvanced, QueueOnTime
<1> QED BY <1>1, <1>2

\* A writer's update is on time when it is sent.
LEMMA NotifyPunctual ==
    ASSUME TypeOK, NEW h \in Handles, NEW c \in Conn, Notify(h, c),
           NotAdvanced(conn[h].tcp, c.tcp)
    PROVE  /\ \A g \in Handles : NotAdvanced(conn[g].tcp, conn'[g].tcp)
           /\ \A j \in DOMAIN polls' :
                 \/ \E i \in DOMAIN polls : polls'[j] = polls[i]
                 \/ OnTime(polls'[j].poll.due, conn'[polls'[j].handle].tcp)
<1> DEFINE m == [handle |-> h, poll |-> poll_at(c.tcp)]
<1>1. \E d : conn' = [conn EXCEPT ![h] = d] /\ d.tcp = c.tcp
  <2>1. SendOrPanic(c).tcp = c.tcp
    BY DEF SendOrPanic, Conn
  <2> QED BY <2>1 DEF Notify
<1>2. conn'[h].tcp = c.tcp
  BY <1>1 DEF TypeOK
<1>3. OnTime(m.poll.due, conn'[m.handle].tcp)
  BY <1>2, PollAtOnTime DEF Conn
<1>4. polls' = polls \/ polls' = Append(polls, m)
  BY DEF Notify
<1> HIDE DEF m
<1>5. ASSUME NEW j \in DOMAIN polls'
      PROVE  \/ \E i \in DOMAIN polls : polls'[j] = polls[i]
             \/ OnTime(polls'[j].poll.due, conn'[polls'[j].handle].tcp)
  <2>1. CASE polls' = polls
    BY <2>1
  <2>2. CASE polls' = Append(polls, m)
    <3>1. polls \in Seq(PollMsg)
      BY DEF TypeOK
    <3>2. (j \in DOMAIN polls /\ polls'[j] = polls[j]) \/ polls'[j] = m
      BY <2>2, <3>1
    <3> QED BY <1>3, <3>2
  <2> QED BY <1>4, <2>1, <2>2
<1> QED BY <1>1, <1>5, OneNotAdvanced

\* Every step keeps every deadline and every update on time.
LEMMA NextPunctual ==
    ASSUME IndInv, TypeOK', Punctual, [Next]_vars PROVE Punctual'
<1>t. TypeOK
  BY DEF IndInv
<1> DEFINE Timers == \A h \in Handles : NotAdvanced(conn[h].tcp, conn'[h].tcp)
           Queue == \A h \in Handles : \/ queue'[h] = queue[h]
                                      \/ OnTime(queue'[h], conn'[h].tcp)
           Polls == \A j \in DOMAIN polls' :
                      \/ \E i \in DOMAIN polls : polls'[j] = polls[i]
                      \/ OnTime(polls'[j].poll.due, conn'[polls'[j].handle].tcp)
<1>s. ASSUME Timers, Queue, Polls PROVE Punctual'
  BY <1>t, <1>s, PunctualStep
<1>c. conn' = conn => Timers
  BY DEF NotAdvanced
<1>p. polls' = polls => Polls
  OBVIOUS
<1>q. queue' = queue => Queue
  OBVIOUS
<1>e. ASSUME EndLoop("exited") \/ EndLoop("panicked") PROVE Punctual'
  <2>1. conn' = conn /\ polls' = polls /\ queue' = EmptyQueue
    BY <1>e DEF EndLoop, chanVars
  <2>2. \A h \in Handles : conn'[h].tcp.timer \in Off..Rto
    BY DEF TypeOK, Conn, Tcp, TcpFields
  <2>3. \A h \in Handles : OnTime(queue'[h], conn'[h].tcp)
    BY <2>1, <2>2, TcpAssumption DEF EmptyQueue, OnTime, Off
  <2> QED BY <2>1, <2>3 DEF Punctual
<1>r. ASSUME NEW h \in Handles, queue' = QueueRemove(queue, h) PROVE Queue
  <2>1. \A g \in Handles : conn'[g].tcp.timer \in Off..Rto
    BY DEF TypeOK, Conn, Tcp, TcpFields
  <2>2. \A g \in Handles : queue'[g] = queue[g] \/ queue'[g] = Off
    BY <1>r, <1>t DEF QueueRemove, TypeOK, Deadlines
  <2>3. \A g \in Handles : OnTime(Off, conn'[g].tcp)
    BY <2>1, TcpAssumption DEF OnTime, Off
  <2> QED BY <2>2, <2>3
<1> HIDE DEF Timers, Queue, Polls
<1>1. CASE Dispatch
  <2> DEFINE h == next_poll
             d == ConnDispatch(conn[h])
  <2>1. h \in Handles /\ conn[h] \in Conn /\ conn[h].tcp \in Tcp
    BY <1>1, <1>t DEF Dispatch, TypeOK, Conn
  <2>2. polls' = polls
    BY <1>1 DEF Dispatch, chanVars
  <2>3. \/ /\ queue' = QueueRemove(queue, h)
           /\ conn' = [conn EXCEPT ![h] = NoConn]
        \/ /\ queue' = QueueSend(queue, h, d.poll)
           /\ conn' = [conn EXCEPT ![h] = d.conn]
    BY <1>1 DEF Dispatch
  <2>4. d.poll \in PollAt
    BY <2>1, DispatchConn
  <2>5. /\ d.conn.tcp = tcp_dispatch(conn[h].tcp).tcp
        /\ d.poll = poll_at(tcp_dispatch(conn[h].tcp).tcp)
    <3> DEFINE c == [conn[h] EXCEPT !.tcp = tcp_dispatch(conn[h].tcp).tcp]
               w == DispatchWakes(c)
    <3>1. tcp_dispatch(conn[h].tcp).tcp \in Tcp
      BY <2>1, DispatchType
    <3>2. c \in Conn /\ c.tcp = tcp_dispatch(conn[h].tcp).tcp
      BY <2>1, <3>1 DEF Conn
    <3>3. \E a : d.conn = [w EXCEPT !.polling_active = a]
      BY DEF ConnDispatch
    <3>4. d.poll = poll_at(tcp_dispatch(conn[h].tcp).tcp)
      BY DEF ConnDispatch
    <3> HIDE DEF c
    <3>5. w \in Conn /\ w.tcp = c.tcp
      BY <3>2, DispatchWakesConn
    <3> HIDE DEF w, d
    <3>6. d.conn.tcp = w.tcp
      BY <3>3, <3>5 DEF Conn
    <3> QED BY <3>2, <3>4, <3>5, <3>6
  <2> HIDE DEF d, h
  <2>6. CASE queue' = QueueRemove(queue, h) /\ conn' = [conn EXCEPT ![h] = NoConn]
    <3>1. NoConn.tcp.timer = Off
      BY DEF NoConn, NewConn, ListenTcp
    <3>2. Timers
      BY <1>t, <2>1, <2>6, <3>1, OneNotAdvanced DEF NotAdvanced, Timers
    <3> QED BY <1>s, <1>p, <1>r, <2>1, <2>2, <2>6, <3>2
  <2>7. CASE /\ queue' = QueueSend(queue, h, d.poll)
             /\ conn' = [conn EXCEPT ![h] = d.conn]
    <3>1. NotAdvanced(conn[h].tcp, d.conn.tcp)
      BY <2>1, <2>5, DispatchNotAdvanced
    <3>2. Timers
      BY <1>t, <2>1, <2>7, <3>1, OneNotAdvanced DEF Timers
    <3>3. OnTime(d.poll.due, d.conn.tcp)
      BY <2>1, <2>5, DispatchType, PollAtOnTime
    <3>4. conn'[h] = d.conn
      BY <1>t, <2>1, <2>7 DEF TypeOK
    <3>5. Queue
      BY <1>t, <2>1, <2>4, <2>7, <3>3, <3>4, QueueOnTime DEF Queue
    <3> QED BY <1>s, <1>p, <2>2, <3>2, <3>5
  <2> QED BY <2>3, <2>6, <2>7
<1>2. CASE DispatchPanics \/ DeviceError
  BY <1>2, <1>e DEF DispatchPanics, DeviceError
<1>3. ASSUME NEW h \in Handles, NEW kind \in Kinds, ProcessSegment(h, kind),
             polls' = polls
      PROVE  Punctual'
  <2>1. Timers /\ Queue
    BY <1>t, <1>3, ProcessPunctual DEF Timers, Queue
  <2> QED BY <1>s, <1>p, <1>3, <2>1
<1>4. CASE ProcessSyn
  <2>1. cur \in Handles /\ "syn" \in Kinds
    BY <1>4, <1>t DEF ProcessSyn, IndInv, StreamsInTransit, TypeOK, Gone, Kinds
  <2> QED BY <1>3, <1>4, <2>1 DEF ProcessSyn, chanVars
<1>5. CASE \E h \in Handles, kind \in Segments : Receive(h, kind)
  BY <1>3, <1>5 DEF Receive, chanVars
<1>6. CASE DropTcpHalf
  <2>1. CASE Head(closing).handle \notin sockets
    BY <1>6, <1>e, <2>1 DEF DropTcpHalf
  <2>2. CASE Head(closing).handle \in sockets
    <3>1. PICK m \in CloseMsg : m = Head(closing)
      BY <1>6, <1>t DEF DropTcpHalf, TypeOK
    <3> DEFINE c == conn[m.handle]
               d == ConnDropHalf(c, m.rw)
    <3>2. m.handle \in Handles /\ m.rw \in {"Read", "Write"} /\ c \in Conn
      BY <1>t DEF CloseMsg, TypeOK
    <3>3. /\ conn' = [conn EXCEPT ![m.handle] = d.conn]
          /\ queue' = QueueSend(queue, m.handle, d.poll)
          /\ polls' = polls
      BY <1>6, <2>2, <3>1 DEF DropTcpHalf
    <3> HIDE DEF c
    <3>4. d.poll \in PollAt
      BY <3>2, DropHalfConn
    <3>5. NotAdvanced(c.tcp, d.conn.tcp) /\ OnTime(d.poll.due, d.conn.tcp)
      <4> DEFINE k == MarkDropped(c, m.rw)
                 e == [k EXCEPT !.tcp = tcp_close(k.tcp)]
                 p == poll_at(e.tcp)
      <4>1. k \in Conn /\ k.tcp = c.tcp
        BY <3>2 DEF MarkDropped, Conn
      <4>2. \/ d = [conn |-> k, poll |-> Ingress]
            \/ d = [conn |-> e, poll |-> IF both_dropped(e) /\ p = Ingress
                                        THEN Now ELSE p]
        BY DEF ConnDropHalf
      <4> HIDE DEF k
      <4>3. e.tcp = tcp_close(c.tcp) /\ c.tcp \in Tcp /\ tcp_close(c.tcp) \in Tcp
        BY <3>2, <4>1, CloseType DEF Conn
      <4> HIDE DEF e
      <4>4. NotAdvanced(c.tcp, tcp_close(c.tcp)) /\ NotAdvanced(c.tcp, c.tcp)
        BY <4>3, LocalNotAdvanced DEF NotAdvanced
      <4>5. ASSUME NEW t \in Tcp PROVE OnTime(0, t) /\ OnTime(poll_at(t).due, t)
        <5>1. t.timer \in Off..Rto
          BY DEF Tcp, TcpFields
        <5> QED BY <5>1, PollAtOnTime, TcpAssumption DEF OnTime, Off
      <4>6. Now.due = 0 /\ Ingress.due = 0
        BY DEF Now, Ingress
      <4>7. OnTime(0, c.tcp) /\ OnTime(0, e.tcp) /\ OnTime(p.due, e.tcp)
        BY <4>3, <4>5
      <4> HIDE DEF p, d
      <4>8. CASE d = [conn |-> k, poll |-> Ingress]
        BY <4>1, <4>4, <4>6, <4>7, <4>8
      <4>9. CASE d = [conn |-> e, poll |-> IF both_dropped(e) /\ p = Ingress
                                          THEN Now ELSE p]
        BY <4>3, <4>4, <4>6, <4>7, <4>9
      <4> QED BY <4>2, <4>8, <4>9
    <3> HIDE DEF d
    <3>6. Timers
      BY <1>t, <3>2, <3>3, <3>5, OneNotAdvanced DEF Timers, c
    <3>7. conn'[m.handle] = d.conn
      BY <1>t, <3>2, <3>3 DEF TypeOK
    <3>8. Queue
      <4>1. ASSUME NEW g \in Handles
            PROVE  queue'[g] = queue[g] \/ OnTime(queue'[g], conn'[g].tcp)
        BY <1>t, <3>2, <3>3, <3>4, <3>5, <3>7, QueueOnTime
      <4> QED BY <4>1 DEF Queue
    <3> QED BY <1>s, <1>p, <3>3, <3>6, <3>8
  <2> QED BY <2>1, <2>2
<1>7. CASE PollUpdate
  <2>1. PICK m \in PollMsg : m = Head(polls) /\ polls # <<>>
    BY <1>7, <1>t DEF PollUpdate, TypeOK
  <2>2. m.handle \in Handles /\ m.poll \in PollAt
    BY DEF PollMsg
  <2>3. conn' = conn /\ queue' = QueueSend(queue, m.handle, m.poll)
        /\ polls' = Tail(polls)
    BY <1>7, <2>1 DEF PollUpdate
  <2>4. polls \in Seq(PollMsg)
    BY <1>t DEF TypeOK
  <2>5. OnTime(m.poll.due, conn[m.handle].tcp)
    BY <2>1, <2>2, <2>4 DEF Punctual
  <2>6. Queue
    BY <1>t, <2>2, <2>3, <2>5, QueueOnTime DEF Queue
  <2>7. Polls
    <3>1. \A j \in DOMAIN Tail(polls) :
              j + 1 \in DOMAIN polls /\ Tail(polls)[j] = polls[j + 1]
      BY <2>1, <2>4
    <3> QED BY <2>3, <3>1 DEF Polls
  <2> QED BY <1>s, <1>c, <2>3, <2>6, <2>7
<1>8. ASSUME NEW h \in Handles, Expire(h) PROVE Punctual'
  <2>1. queue' = QueueRemove(queue, h) /\ conn' = conn /\ polls' = polls
    BY <1>8 DEF Expire, chanVars
  <2> QED BY <1>s, <1>c, <1>p, <1>r, <2>1
<1>9. CASE Tick
  <2>1. ASSUME NEW d \in Off..Rto, NEW t \in Tcp, NEW u \in Tcp,
               u.timer = Closer(t.timer), OnTime(d, t)
        PROVE  OnTime(Closer(d), u)
    <3>1. t.timer \in Off..Rto
      BY DEF Tcp, TcpFields
    <3> QED BY <2>1, <3>1, TcpAssumption DEF OnTime, Closer, Off
  <2>2. ASSUME NEW h \in Handles
        PROVE  /\ conn[h].tcp \in Tcp /\ conn'[h].tcp \in Tcp
               /\ conn'[h].tcp.timer = Closer(conn[h].tcp.timer)
    <3>1. conn[h] \in Conn /\ conn'[h] \in Conn
      BY <1>t DEF TypeOK
    <3>2. conn'[h] = [conn[h] EXCEPT !.tcp.timer = Closer(@)]
      BY <1>9 DEF Tick
    <3>3. [conn[h] EXCEPT !.tcp.timer = Closer(@)].tcp.timer = Closer(conn[h].tcp.timer)
      BY <3>1 DEF Conn, Tcp, TcpFields
    <3> QED BY <3>1, <3>2, <3>3 DEF Conn
  <2>3. ASSUME NEW h \in Handles PROVE OnTime(queue'[h], conn'[h].tcp)
    <3>1. queue'[h] = Closer(queue[h]) /\ queue[h] \in Off..Rto
      BY <1>9, <1>t DEF Tick, TypeOK, Deadlines
    <3>2. OnTime(queue[h], conn[h].tcp)
      BY DEF Punctual
    <3> QED BY <2>1, <2>2, <3>1, <3>2
  <2>4. ASSUME NEW h \in Handles, NEW i \in DOMAIN polls', polls'[i].handle = h
        PROVE  OnTime(polls'[i].poll.due, conn'[h].tcp)
    <3>1. /\ i \in DOMAIN polls /\ polls[i] \in PollMsg
          /\ polls'[i] = [polls[i] EXCEPT !.poll.due = Closer(@)]
      BY <1>9, <1>t DEF Tick, TypeOK
    <3>2. polls[i].poll \in PollAt
      BY <3>1 DEF PollMsg
    <3>3. "due" \in DOMAIN polls[i].poll /\ polls[i].poll.due \in Off..Rto
      <4>1. \E k \in 0..Rto : polls[i].poll.due = k
        BY <3>2, Bounds, TcpAssumption DEF PollAt, Now, Ingress, Time
      <4>2. "due" \in DOMAIN polls[i].poll
        BY <3>2 DEF PollAt, Now, Ingress, Time
      <4> QED BY <4>1, <4>2, TcpAssumption DEF Off
    <3>4. /\ polls'[i].poll.due = Closer(polls[i].poll.due)
          /\ polls'[i].handle = polls[i].handle
      BY <3>1, <3>3 DEF PollMsg
    <3>5. OnTime(polls[i].poll.due, conn[h].tcp)
      BY <2>4, <3>1, <3>4 DEF Punctual
    <3> QED BY <2>1, <2>2, <3>3, <3>4, <3>5
  <2> QED BY <2>3, <2>4 DEF Punctual
<1>10. ASSUME NEW h \in Handles, PollRead(h) PROVE Punctual'
  <2>1. conn[h] \in Conn /\ conn[h].tcp \in Tcp
    BY <1>t DEF TypeOK, Conn
  <2>2. PICK n \in 0..conn[h].tcp.rx :
            conn' = [conn EXCEPT ![h] = ConnPollRead(conn[h], n)]
    BY <1>10, <2>1, BufferSizes DEF PollRead
  <2>3. ConnPollRead(conn[h], n).tcp \in {conn[h].tcp, recv_slice(conn[h].tcp, n)}
    BY <2>1 DEF ConnPollRead, Conn
  <2>4. NotAdvanced(conn[h].tcp, ConnPollRead(conn[h], n).tcp)
    BY <2>1, <2>3, LocalNotAdvanced DEF NotAdvanced
  <2>5. Timers
    BY <1>t, <2>2, <2>4, OneNotAdvanced DEF Timers
  <2> QED BY <1>s, <1>p, <1>q, <1>10, <2>5 DEF PollRead, chanVars, poolVars
<1>11. ASSUME NEW h \in Handles, PollWrite(h) PROVE Punctual'
  <2>1. conn[h] \in Conn /\ conn[h].tcp \in Tcp /\ conn[h].writer \in Running
    BY <1>11, <1>t DEF TypeOK, Conn, PollWrite
  <2>2. PICK n \in 0..Room(conn[h].tcp) : Notify(h, ConnPollWrite(conn[h], n))
    BY <1>11, <2>1, BufferSizes DEF PollWrite
  <2>3. ConnPollWrite(conn[h], n) \in Conn
    BY <2>1, PollWriteConn DEF Room
  <2>4. ConnPollWrite(conn[h], n).tcp \in {conn[h].tcp, send_slice(conn[h].tcp, n)}
    BY <2>1 DEF ConnPollWrite, Conn
  <2>5. NotAdvanced(conn[h].tcp, ConnPollWrite(conn[h], n).tcp)
    BY <2>1, <2>4, LocalNotAdvanced DEF NotAdvanced
  <2>6. Timers /\ Polls
    BY <1>t, <2>2, <2>3, <2>5, NotifyPunctual DEF Timers, Polls
  <2> QED BY <1>s, <1>q, <1>11, <2>6 DEF PollWrite, poolVars
<1>12. ASSUME NEW h \in Handles, PollClose(h) PROVE Punctual'
  <2>1. conn[h] \in Conn /\ conn[h].tcp \in Tcp /\ conn[h].writer \in Running
    BY <1>12, <1>t DEF TypeOK, Conn, PollClose
  <2>2. ConnPollClose(conn[h]) \in Conn
    BY <2>1, PollCloseConn
  <2>3. ConnPollClose(conn[h]).tcp = tcp_close(conn[h].tcp)
    BY <2>1 DEF ConnPollClose, Conn
  <2>4. NotAdvanced(conn[h].tcp, ConnPollClose(conn[h]).tcp)
    BY <2>1, <2>3, LocalNotAdvanced
  <2>5. Timers /\ Polls
    BY <1>t, <1>12, <2>2, <2>4, NotifyPunctual DEF PollClose, Timers, Polls
  <2> QED BY <1>s, <1>q, <1>12, <2>5 DEF PollClose, poolVars
<1>13. ASSUME NEW h \in Handles, NEW r, NEW w,
              conn' = [conn EXCEPT ![h] = [conn[h] EXCEPT !.reader = r, !.writer = w]],
              queue' = queue, polls' = polls
       PROVE  Punctual'
  <2>1. [conn[h] EXCEPT !.reader = r, !.writer = w].tcp = conn[h].tcp
    BY <1>t DEF TypeOK, Conn
  <2>2. Timers
    BY <1>t, <1>13, <2>1, OneNotAdvanced DEF NotAdvanced, Timers
  <2> QED BY <1>s, <1>p, <1>q, <1>13, <2>2
<1>14. ASSUME NEW h \in Handles,
              \/ CancelRead(h) \/ CancelWrite(h) \/ DropReader(h) \/ DropWriter(h)
       PROVE  Punctual'
  <2>1. conn[h] \in Conn
    BY <1>t DEF TypeOK
  <2>2. \E r, w : conn' = [conn EXCEPT ![h] =
                              [conn[h] EXCEPT !.reader = r, !.writer = w]]
    <3>1. PICK r : \/ conn' = [conn EXCEPT ![h] = [conn[h] EXCEPT !.reader = r]]
                   \/ conn' = [conn EXCEPT ![h] = [conn[h] EXCEPT !.writer = r]]
      BY <1>14 DEF CancelRead, CancelWrite, DropReader, DropWriter
    <3>2. /\ [conn[h] EXCEPT !.reader = r] =
                [conn[h] EXCEPT !.reader = r, !.writer = conn[h].writer]
          /\ [conn[h] EXCEPT !.writer = r] =
                [conn[h] EXCEPT !.reader = conn[h].reader, !.writer = r]
      BY <2>1 DEF Conn
    <3>3. CASE conn' = [conn EXCEPT ![h] = [conn[h] EXCEPT !.reader = r]]
      <4>1. conn' = [conn EXCEPT ![h] = [conn[h] EXCEPT !.reader = r,
                                                !.writer = conn[h].writer]]
        BY <3>2, <3>3
      <4> QED BY <4>1
    <3>4. CASE conn' = [conn EXCEPT ![h] = [conn[h] EXCEPT !.writer = r]]
      <4>1. conn' = [conn EXCEPT ![h] = [conn[h] EXCEPT !.reader = conn[h].reader,
                                                !.writer = r]]
        BY <3>2, <3>4
      <4> QED BY <4>1
    <3> QED BY <3>1, <3>3, <3>4
  <2>3. queue' = queue /\ polls' = polls
    BY <1>14 DEF CancelRead, CancelWrite, DropReader, DropWriter, poolVars, chanVars
  <2> QED BY <1>13, <2>2, <2>3
<1>15. CASE SendStreamFails
  <2>1. cur \in Handles
    BY <1>15 DEF SendStreamFails, IndInv, StreamsInTransit, Gone
  <2> QED BY <1>13, <1>15, <2>1 DEF SendStreamFails
<1>16. CASE Accept
  <2>1. Head(incoming) \in Handles
    BY <1>16, <1>t DEF Accept, TypeOK
  <2> QED BY <1>13, <1>16, <2>1 DEF Accept, poolVars
<1>17. CASE DropListener
  <2>1. queue' = queue /\ polls' = polls
    BY <1>17 DEF DropListener, poolVars
  <2>2. CASE incoming = <<>>
    BY <1>s, <1>c, <1>p, <1>q, <1>17, <2>1, <2>2 DEF DropListener
  <2>3. CASE incoming # <<>>
    <3>1. Head(incoming) \in Handles
      BY <1>t, <2>3 DEF TypeOK
    <3> QED BY <1>13, <1>17, <2>1, <2>3, <3>1 DEF DropListener
  <2> QED BY <2>2, <2>3
<1>18. ASSUME NEW h \in Handles, CreateSyn(h) PROVE Punctual'
  <2>1. NewConn.tcp.timer = Off
    BY DEF NewConn, ListenTcp
  <2>2. /\ conn' = [conn EXCEPT ![h] = NewConn]
        /\ queue' = queue /\ polls' = polls
    BY <1>18 DEF CreateSyn, poolVars, chanVars
  <2>3. Timers
    BY <1>t, <2>1, <2>2, OneNotAdvanced DEF NotAdvanced, Timers
  <2> QED BY <1>s, <1>p, <1>q, <2>2, <2>3
<1>19. CASE \/ NothingToWrite \/ PollPending \/ Written \/ WriteReply \/ SendStream
            \/ \E h \in Handles, kind \in Segments : Drop(h, kind)
            \/ UNCHANGED vars
  <2>1. conn' = conn /\ queue' = queue /\ polls' = polls
    BY <1>19 DEF NothingToWrite, PollPending, Written, WriteReply, SendStream, Drop,
       poolVars, chanVars, vars
  <2> QED BY <1>s, <1>c, <1>p, <1>q, <2>1
<1> QED BY <1>1, <1>2, <1>4, <1>5, <1>6, <1>7, <1>8, <1>9, <1>10, <1>11, <1>12,
           <1>14, <1>15, <1>16, <1>17, <1>18, <1>19
        DEF Next, LoopStep, AppStep, EnvStep

\* No deadline is later than the timer of its socket, neither in the delay queue
\* nor in an update that waits in the channel while the loop goes on.
THEOREM DeadlineCorrect == Spec => []DeadlineMeetsTimer
<1>1. Init => Punctual
  <2>1. NoConn.tcp.timer = Off
    BY DEF NoConn, NewConn, ListenTcp
  <2> QED BY <2>1 DEF Init, Punctual, OnTime
<1>2. IndInv /\ Punctual /\ [Next]_vars => IndInv' /\ Punctual'
  BY NextInv, NextPunctual DEF IndInv
<1>3. IndInv /\ Punctual => DeadlineMeetsTimer
  BY DEF IndInv, TypeOK, Punctual, OnTime, DeadlineMeetsTimer
<1> QED BY <1>1, <1>2, <1>3, InitInv, PTL DEF Spec

-----------------------------------------------------------------------------
(* The delay queue takes the steps of Schedule. *)

\* Schedule, about the queue of the loop, in a step whose call of the queue is c.
Calling(c) == INSTANCE Schedule WITH call <- c

\* While the I/O loop runs, the queue changes by one call at a time, or by time
\* passing, and only as Schedule allows.
QueueKeepsSchedule ==
    /\ queue = EmptyQueue
    /\ [][Gone' \/ \E c : Calling(c)!ScheduleNext]_queue

\* A call of send, with any answer of poll_at.
LEMMA SendIsCall ==
    ASSUME NEW h \in Handles, NEW p \in PollAt, queue' = QueueSend(queue, h, p)
    PROVE  \E c : Calling(c)!ScheduleNext
<1>1. Calling(Call("send", h, p))!Send(h, p)
  BY DEF Calling!Send, Calling!QueueSend, QueueSend, Calling!Call, Call
<1>2. p \in Calling(Call("send", h, p))!PollAt
  BY DEF PollAt, Calling!PollAt, Ingress, Calling!Ingress, Now, Calling!Now, Time,
         Calling!Time
<1> QED BY <1>1, <1>2 DEF Calling!ScheduleNext

\* A call of remove, and a deadline that has passed.
LEMMA RemoveIsCall ==
    ASSUME NEW h \in Handles, queue' = QueueRemove(queue, h)
    PROVE  \E c : Calling(c)!ScheduleNext
<1>1. Calling(Call("remove", h, Ingress))!Remove(h)
  BY DEF Calling!Remove, Calling!QueueRemove, QueueRemove, Calling!Call, Call,
         Ingress, Calling!Ingress, Off, Calling!Off
<1> QED BY <1>1 DEF Calling!ScheduleNext

\* The queue is empty at first, and each step of the loop makes at most one call:
\* none takes a pair off before its deadline, moves another pair, or loses one.
\* PollQueue, which implements Schedule (RefinementTheorem), may take its place.
THEOREM QueueCorrect == Spec => QueueKeepsSchedule
<1>1. ASSUME IndInv, [Next]_vars
      PROVE  [Gone' \/ \E c : Calling(c)!ScheduleNext]_queue
  <2> DEFINE Goal == queue' = queue \/ Gone' \/ \E c : Calling(c)!ScheduleNext
  <2>g. SUFFICES Goal
    OBVIOUS
  <2>t. TypeOK
    BY <1>1 DEF IndInv
  <2>1. CASE Dispatch
    <3>1. PICK h \in Handles : h = next_poll
      BY <2>1, <2>t DEF Dispatch, TypeOK
    <3>2. \/ queue' = QueueRemove(queue, h)
          \/ queue' = QueueSend(queue, h, ConnDispatch(conn[h]).poll)
      BY <2>1, <3>1 DEF Dispatch
    <3>3. ConnDispatch(conn[h]).poll \in PollAt
      BY <2>t, DispatchConn DEF TypeOK
    <3> QED BY <3>2, <3>3, SendIsCall, RemoveIsCall
  <2>2. CASE DispatchPanics \/ DeviceError
    BY <2>2 DEF DispatchPanics, DeviceError, EndLoop, Gone
  <2>3. ASSUME NEW h \in Handles, NEW kind \in Kinds, ProcessSegment(h, kind)
        PROVE  Goal
    <3>1. CASE queue' = queue
      BY <3>1
    <3>2. CASE \E result \in tcp_process(conn[h].tcp, kind) :
                 queue' = QueueSend(queue, h,
                            ProcessPollAt(ConnProcess(conn[h], result),
                                          QueueContains(queue, h)))
      <4>1. PICK result \in tcp_process(conn[h].tcp, kind) :
                 queue' = QueueSend(queue, h,
                            ProcessPollAt(ConnProcess(conn[h], result),
                                          QueueContains(queue, h)))
        BY <3>2
      <4>2. ConnProcess(conn[h], result) \in Conn
        BY <2>t, ProcessType, ProcessConn DEF TypeOK, Conn
      <4> QED BY <4>1, <4>2, ProcessPollAtType, SendIsCall
    <3> QED BY <2>3, <3>1, <3>2 DEF ProcessSegment
  <2>4. CASE ProcessSyn
    <3>1. cur \in Handles /\ "syn" \in Kinds
      BY <1>1, <2>4 DEF ProcessSyn, IndInv, StreamsInTransit, TypeOK, Gone, Kinds
    <3> QED BY <2>3, <2>4, <3>1 DEF ProcessSyn
  <2>5. CASE \E h \in Handles, kind \in Segments : Receive(h, kind)
    BY <2>3, <2>5 DEF Receive
  <2>6. CASE DropTcpHalf
    <3>1. CASE Head(closing).handle \notin sockets
      BY <2>6, <3>1 DEF DropTcpHalf, EndLoop, Gone
    <3>2. CASE Head(closing).handle \in sockets
      <4>1. PICK m \in CloseMsg : m = Head(closing)
        BY <2>6, <2>t DEF DropTcpHalf, TypeOK
      <4>2. m.handle \in Handles /\ m.rw \in {"Read", "Write"}
        BY DEF CloseMsg
      <4>3. queue' = QueueSend(queue, m.handle,
                               ConnDropHalf(conn[m.handle], m.rw).poll)
        BY <2>6, <3>2, <4>1 DEF DropTcpHalf
      <4>4. ConnDropHalf(conn[m.handle], m.rw).poll \in PollAt
        BY <2>t, <4>2, DropHalfConn DEF TypeOK
      <4> QED BY <4>2, <4>3, <4>4, SendIsCall
    <3> QED BY <3>1, <3>2
  <2>7. CASE PollUpdate
    <3>1. PICK m \in PollMsg : m = Head(polls)
      BY <2>7, <2>t DEF PollUpdate, TypeOK
    <3>2. m.handle \in Handles /\ m.poll \in PollAt
      BY DEF PollMsg
    <3> QED BY <2>7, <3>1, <3>2, SendIsCall DEF PollUpdate
  <2>8. ASSUME NEW h \in Handles, Expire(h) PROVE Goal
    <3>1. h \in QueueDue(queue) /\ queue' = QueueRemove(queue, h)
      BY <2>8 DEF Expire
    <3>2. Calling(Call("expired", h, Ingress))!Expire(h)
      BY <3>1 DEF Calling!Expire, Calling!QueueDue, QueueDue, Calling!QueueRemove,
         QueueRemove, Calling!Call, Call, Ingress, Calling!Ingress, Off, Calling!Off
    <3> QED BY <3>2 DEF Calling!ScheduleNext
  <2>9. CASE Tick
    <3>1. queue' = [h \in Handles |-> Closer(queue[h])]
      BY <2>9 DEF Tick
    <3>2. Calling(Call("wait", NoHandle, Ingress))!Advance
      BY <3>1 DEF Calling!Advance, Calling!Closer, Closer, Calling!Call, Call,
         Ingress, Calling!Ingress, Off, Calling!Off
    <3> QED BY <3>2 DEF Calling!ScheduleNext
  <2>10. CASE AppStep
    BY <2>10 DEF AppStep, PollRead, PollWrite, PollClose, CancelRead, CancelWrite,
       DropReader, DropWriter, Accept, DropListener, poolVars
  <2>11. CASE \/ NothingToWrite \/ PollPending \/ Written \/ WriteReply
              \/ SendStream \/ SendStreamFails
              \/ \E h \in Handles : CreateSyn(h)
              \/ \E h \in Handles, kind \in Segments : Drop(h, kind)
              \/ UNCHANGED vars
    BY <2>11 DEF NothingToWrite, PollPending, Written, WriteReply, SendStream,
       SendStreamFails, CreateSyn, Drop, poolVars, vars
  <2> QED BY <1>1, <2>1, <2>2, <2>4, <2>5, <2>6, <2>7, <2>8, <2>9, <2>10, <2>11
          DEF Next, LoopStep, EnvStep
<1>2. Init => queue = EmptyQueue
  BY DEF Init
<1> QED BY <1>1, <1>2, InitInv, NextInv, PTL DEF Spec, QueueKeepsSchedule

=============================================================================
