------------------------------- MODULE Ustunet -------------------------------
(***************************************************************************)
(* The crate as a whole: the I/O loop with its socket pool and delay queue, *)
(* the three channels between it and the application, the tasks that hold  *)
(* the streams, the TUN device and the peers behind it.                    *)
(*                                                                         *)
(* The I/O loop is one task.  Its program counter pc stops wherever        *)
(* another thread can come in between with an effect: before it takes the   *)
(* lock of a connection, before it polls a future of the selector, and     *)
(* where it awaits.  Tasks of the application run on other threads, so      *)
(* any of their steps may fall between two steps of the loop.              *)
(*                                                                         *)
(* As in Connection, a "Slip" is a mistake to be put in the place of the   *)
(* definition that follows it.                                             *)
(***************************************************************************)
EXTENDS Connection, DispatchQueue, Sequences

CONSTANTS NoHandle,     \* no address pair
          Segments,     \* kinds of packets that arrive
          AppOps,       \* what the application does besides accept and drop
          MinBuf,       \* smallest buffer the application reads into or writes
          MaxPolls,     \* bound: poll updates that are on their way
          MaxReplies,   \* bound: ingress replies that are not written yet
          DeviceFails   \* whether reading and writing the device may fail

ASSUME UstunetAssumption ==
    /\ NoHandle \notin Handles
    /\ Segments \subseteq Kinds \cup {"synack", "other"}
    /\ AppOps \subseteq {"read", "write", "close", "cancel", "unlisten"}
    /\ MinBuf \in {0, 1}
    /\ MaxPolls \in Nat
    /\ MaxReplies \in Nat
    /\ DeviceFails \in BOOLEAN

VARIABLES
    pc,         \* where the I/O loop is
    cur,        \* the pair whose SYN is being processed
    writing,    \* whether a packet is being written (the writer is not free)
    replies,    \* number of ingress replies to be written
    next_poll,  \* the pair to dispatch next, or NoHandle
    sockets,    \* the pairs in the pool
    queue,      \* the delay queue
    conn,       \* the connection of every pair
    closing,    \* channel: halves that were dropped
    polls,      \* channel: poll updates sent by writers
    incoming,   \* channel: streams that are not accepted yet
    listener    \* whether the application still has its TcpListener

loopVars == <<pc, cur, writing, replies, next_poll>>
poolVars == <<sockets, queue>>
chanVars == <<closing, polls, incoming>>
vars == <<loopVars, poolVars, conn, chanVars, listener>>

\* The capacity of the channel to the listener: mpsc::channel(1).
Backlog == 1

Gone == pc \in {"exited", "panicked"}

CloseMsg == [handle : Handles, rw : {"Read", "Write"}]
PollMsg == [handle : Handles, poll : PollAt]

Init ==
    /\ pc = "loop"
    /\ cur = NoHandle
    /\ writing = FALSE
    /\ replies = 0
    /\ next_poll = NoHandle
    /\ sockets = {}
    /\ queue = EmptyQueue
    /\ conn = [h \in Handles |-> NoConn]
    /\ closing = <<>>
    /\ polls = <<>>
    /\ incoming = <<>>
    /\ listener = TRUE

-----------------------------------------------------------------------------
(* The I/O loop: use the writer if it is free.  Replies go first.          *)

\* Slip: a reply is popped without looking whether there is one.
WriteReplyUnchecked ==
    /\ pc = "loop" /\ ~writing
    /\ replies' = replies - 1
    /\ writing' = TRUE
    /\ pc' = "poll_a"
    /\ UNCHANGED <<cur, next_poll, poolVars, conn, chanVars, listener>>

WriteReply ==
    /\ pc = "loop" /\ ~writing /\ replies > 0
    /\ replies' = replies - 1
    /\ writing' = TRUE
    /\ pc' = "poll_a"
    /\ UNCHANGED <<cur, next_poll, poolVars, conn, chanVars, listener>>

\* SocketPool::dispatch of the pair that came out of the delay queue.  A
\* connection that is finished leaves the pool and the queue.
Dispatch ==
    /\ pc = "loop" /\ ~writing /\ replies = 0
    /\ next_poll \in sockets
    /\ \E d \in {ConnDispatch(conn[next_poll])} :
           /\ writing' = d.sent
           /\ IF d.drop
              THEN /\ sockets' = sockets \ {next_poll}
                   /\ queue' = QueueRemove(queue, next_poll)
                   /\ conn' = [conn EXCEPT ![next_poll] = NoConn]
              ELSE /\ queue' = QueueSend(queue, next_poll, d.poll)
                   /\ conn' = [conn EXCEPT ![next_poll] = d.conn]
                   /\ UNCHANGED sockets
    /\ next_poll' = NoHandle
    /\ pc' = "poll_a"
    /\ UNCHANGED <<cur, replies, chanVars, listener>>

\* The I/O loop ends and everything it owns is dropped.
EndLoop(how) ==
    /\ pc' = how
    /\ sockets' = {}
    /\ queue' = EmptyQueue
    /\ next_poll' = NoHandle
    /\ writing' = FALSE
    /\ replies' = 0
    /\ UNCHANGED <<cur, conn, chanVars, listener>>

\* expect("Dispatching should not happen after dropping.")
DispatchPanics ==
    /\ pc = "loop" /\ ~writing /\ replies = 0
    /\ next_poll \in Handles \ sockets
    /\ EndLoop("panicked")

NothingToWrite ==
    /\ pc = "loop"
    /\ writing \/ (replies = 0 /\ next_poll = NoHandle)
    /\ pc' = "poll_a"
    /\ UNCHANGED <<cur, writing, replies, next_poll, poolVars, conn, chanVars,
                   listener>>

-----------------------------------------------------------------------------
(* The I/O loop: the selector polls its futures in the order a, b, c, d,   *)
(* and after them the delay queue.                                         *)

\* Slip: the read future is not put back, so the device is polled only once.
PollPendingNoDevice ==
    /\ \/ pc = "poll_a" /\ pc' = "poll_b"
       \/ pc = "poll_b" /\ pc' = "poll_c"
       \/ pc = "poll_c" /\ closing = <<>> /\ pc' = "poll_d"
       \/ pc = "poll_d" /\ polls = <<>> /\ pc' = "poll_queue"
       \/ /\ pc = "poll_queue"
          /\ next_poll # NoHandle \/ QueueDue(queue) = {}
          /\ pc' = "poll_c"
    /\ UNCHANGED <<cur, writing, replies, next_poll, poolVars, conn, chanVars,
                   listener>>

\* The future that pc points at is pending: poll the next one.  Whether the
\* device can be written and read is up to the device.  After the last one the
\* task sleeps until one of them wakes it, and starts over.
PollPending ==
    /\ \/ pc = "poll_a" /\ pc' = "poll_b"
       \/ pc = "poll_b" /\ pc' = "poll_c"
       \/ pc = "poll_c" /\ closing = <<>> /\ pc' = "poll_d"
       \/ pc = "poll_d" /\ polls = <<>> /\ pc' = "poll_queue"
       \/ /\ pc = "poll_queue"
          /\ next_poll # NoHandle \/ QueueDue(queue) = {}
          /\ pc' = "poll_a"
    /\ UNCHANGED <<cur, writing, replies, next_poll, poolVars, conn, chanVars,
                   listener>>

\* Selected::A: the packet is written and the writer is free again.
Written ==
    /\ pc = "poll_a" /\ writing
    /\ writing' = FALSE
    /\ pc' = "loop"
    /\ UNCHANGED <<cur, replies, next_poll, poolVars, conn, chanVars, listener>>

\* A read or a write of the device returns an error, which ends the loop.
DeviceError ==
    /\ DeviceFails
    /\ \/ pc = "poll_a" /\ writing
       \/ pc = "poll_b"
    /\ EndLoop("exited")

\* Connection::process for a segment of pair h and one of its results.
ProcessSegment(h, kind) ==
    IF check_acceptability(conn[h], kind)
    THEN \E result \in tcp_process(conn[h].tcp, kind) :
           LET c == ConnProcess(conn[h], result)
           IN  /\ result.reply => replies < MaxReplies
               /\ replies' = IF result.reply THEN replies + 1 ELSE replies
               /\ conn' = [conn EXCEPT ![h] = c]
               /\ queue' = QueueSend(queue, h,
                               ProcessPollAt(c, QueueContains(queue, h)))
    ELSE UNCHANGED <<replies, conn, queue>>

\* Selected::B: a packet for a connection in the pool.
Receive(h, kind) ==
    /\ pc = "poll_b"
    /\ h \in sockets /\ kind \in Segments \cap Kinds
    /\ ProcessSegment(h, kind)
    /\ pc' = "loop"
    /\ UNCHANGED <<cur, writing, next_poll, sockets, chanVars, listener>>

\* Selected::B: a packet that is dropped.  It is not TCP, it is malformed, it
\* is a SYN with an acknowledgement, or nobody knows its address pair.
Drop(h, kind) ==
    /\ pc = "poll_b"
    /\ \/ kind \in Segments \ Kinds
       \/ kind \in Segments \ {"syn"} /\ h \notin sockets
    /\ pc' = "loop"
    /\ UNCHANGED <<cur, writing, replies, next_poll, poolVars, conn, chanVars,
                   listener>>

\* Selected::B: a SYN of a new pair.  The loop makes the socket and the
\* stream and goes on to hand the stream over.
CreateSyn(h) ==
    /\ pc = "poll_b"
    /\ "syn" \in Segments /\ h \notin sockets
    /\ conn' = [conn EXCEPT ![h] = NewConn]
    /\ cur' = h
    /\ pc' = "send"
    /\ UNCHANGED <<writing, replies, next_poll, poolVars, chanVars, listener>>

\* Slip: the connection is not put into the pool.
SendStreamOnly ==
    /\ pc = "send" /\ listener
    /\ Len(incoming) < Backlog
    /\ incoming' = Append(incoming, cur)
    /\ pc' = "process"
    /\ UNCHANGED <<cur, writing, replies, next_poll, poolVars, conn, closing,
                   polls, listener>>

\* Slip: the loop does not wait for room and loses the stream.
SendStreamTries ==
    /\ pc = "send" /\ listener
    /\ incoming' = IF Len(incoming) < Backlog THEN Append(incoming, cur)
                   ELSE incoming
    /\ sockets' = sockets \cup {cur}
    /\ pc' = "process"
    /\ UNCHANGED <<cur, writing, replies, next_poll, queue, conn, closing,
                   polls, listener>>

\* The stream goes into the channel as soon as there is room, and the
\* connection into the pool.
SendStream ==
    /\ pc = "send" /\ listener
    /\ Len(incoming) < Backlog
    /\ incoming' = Append(incoming, cur)
    /\ sockets' = sockets \cup {cur}
    /\ pc' = "process"
    /\ UNCHANGED <<cur, writing, replies, next_poll, queue, conn, closing,
                   polls, listener>>

\* Slip: the stream is dropped, but only its writer is announced.
SendStreamFailsHalf ==
    /\ pc = "send" /\ ~listener
    /\ closing' = Append(closing, [handle |-> cur, rw |-> "Write"])
    /\ conn' = [conn EXCEPT ![cur] = [@ EXCEPT !.reader = "gone",
                                               !.writer = "gone"]]
    /\ sockets' = sockets \cup {cur}
    /\ pc' = "process"
    /\ UNCHANGED <<cur, writing, replies, next_poll, queue, polls, incoming,
                   listener>>

\* Nobody listens any more: the stream is dropped, which announces both
\* halves, the writer first.
SendStreamFails ==
    /\ pc = "send" /\ ~listener
    /\ closing' = closing \o << [handle |-> cur, rw |-> "Write"],
                                [handle |-> cur, rw |-> "Read"] >>
    /\ conn' = [conn EXCEPT ![cur] = [@ EXCEPT !.reader = "gone",
                                               !.writer = "gone"]]
    /\ sockets' = sockets \cup {cur}
    /\ pc' = "process"
    /\ UNCHANGED <<cur, writing, replies, next_poll, queue, polls, incoming,
                   listener>>

\* Only now the new socket sees the SYN.
ProcessSyn ==
    /\ pc = "process"
    /\ ProcessSegment(cur, "syn")
    /\ cur' = NoHandle
    /\ pc' = "loop"
    /\ UNCHANGED <<writing, next_poll, sockets, chanVars, listener>>

\* Selected::C: a half was dropped.  The loop expects to find the connection:
\* "Socket only gets removed after dropping both reader and writer."
DropTcpHalf ==
    /\ pc = "poll_c" /\ closing # <<>>
    /\ IF Head(closing).handle \in sockets
       THEN LET m == Head(closing)
                d == ConnDropHalf(conn[m.handle], m.rw)
            IN  /\ conn' = [conn EXCEPT ![m.handle] = d.conn]
                /\ queue' = QueueSend(queue, m.handle, d.poll)
                /\ closing' = Tail(closing)
                /\ pc' = "loop"
                /\ UNCHANGED <<cur, writing, replies, next_poll, sockets, polls,
                               incoming, listener>>
       ELSE EndLoop("panicked")

\* Slip: the delay of an update counts from when it is taken out of the channel.
PollUpdateFromNow ==
    /\ pc = "poll_d" /\ polls # <<>>
    /\ queue' = QueueSend(queue, Head(polls).handle,
                   IF Head(polls).poll.kind = "Time" THEN Time(Rto)
                   ELSE Head(polls).poll)
    /\ polls' = Tail(polls)
    /\ pc' = "loop"
    /\ UNCHANGED <<cur, writing, replies, next_poll, sockets, conn, closing,
                   incoming, listener>>

\* Selected::D: a writer asks for its connection to be polled.
PollUpdate ==
    /\ pc = "poll_d" /\ polls # <<>>
    /\ queue' = QueueSend(queue, Head(polls).handle, Head(polls).poll)
    /\ polls' = Tail(polls)
    /\ pc' = "loop"
    /\ UNCHANGED <<cur, writing, replies, next_poll, sockets, conn, closing,
                   incoming, listener>>

\* A deadline has passed.  The queue is polled only while no pair waits to be
\* dispatched.
Expire(h) ==
    /\ pc = "poll_queue" /\ next_poll = NoHandle
    /\ h \in QueueDue(queue)
    /\ next_poll' = h
    /\ queue' = QueueRemove(queue, h)
    /\ pc' = "loop"
    /\ UNCHANGED <<cur, writing, replies, sockets, conn, chanVars, listener>>

-----------------------------------------------------------------------------
(* The application. *)

\* The channels are closed once the I/O loop is gone; the sender unwraps.
SendOrPanic(c) == IF Gone THEN [c EXCEPT !.writer = "panicked"] ELSE c

\* Slip: the flag is tested the wrong way round.
NotifyInverted(h, c) ==
    IF ~conn[h].polling_active
    THEN /\ conn' = [conn EXCEPT ![h] = c]
         /\ UNCHANGED polls
    ELSE /\ Gone \/ Len(polls) < MaxPolls
         /\ conn' = [conn EXCEPT ![h] = SendOrPanic(c)]
         /\ polls' = IF Gone THEN polls
                     ELSE Append(polls, [handle |-> h, poll |-> poll_at(c.tcp)])

\* A method of the writer tells the queue, unless the connection is polled
\* anyway.
Notify(h, c) ==
    IF conn[h].polling_active
    THEN /\ conn' = [conn EXCEPT ![h] = c]
         /\ UNCHANGED polls
    ELSE /\ Gone \/ Len(polls) < MaxPolls
         /\ conn' = [conn EXCEPT ![h] = SendOrPanic(c)]
         /\ polls' = IF Gone THEN polls
                     ELSE Append(polls, [handle |-> h, poll |-> poll_at(c.tcp)])

PollRead(h) ==
    /\ "read" \in AppOps
    /\ conn[h].reader \in Running
    /\ \E n \in IF can_recv(conn[h].tcp) THEN MinBuf..conn[h].tcp.rx ELSE {0} :
         conn' = [conn EXCEPT ![h] = ConnPollRead(@, n)]
    /\ UNCHANGED <<loopVars, poolVars, chanVars, listener>>

Room(t) == TxCap - t.unsent - t.flight

PollWrite(h) ==
    /\ "write" \in AppOps
    /\ conn[h].writer \in Running
    /\ \E n \in IF can_send(conn[h].tcp) THEN MinBuf..Room(conn[h].tcp) ELSE {0} :
         Notify(h, ConnPollWrite(conn[h], n))
    /\ UNCHANGED <<loopVars, poolVars, closing, incoming, listener>>

PollClose(h) ==
    /\ "close" \in AppOps
    /\ conn[h].writer \in Running
    /\ Notify(h, ConnPollClose(conn[h]))
    /\ UNCHANGED <<loopVars, poolVars, closing, incoming, listener>>

\* The task gives up waiting, as a timeout around a read or a write does.
CancelRead(h) ==
    /\ "cancel" \in AppOps
    /\ conn[h].reader = "wait"
    /\ conn' = [conn EXCEPT ![h].reader = "run"]
    /\ UNCHANGED <<loopVars, poolVars, chanVars, listener>>

CancelWrite(h) ==
    /\ "cancel" \in AppOps
    /\ conn[h].writer = "wait"
    /\ conn' = [conn EXCEPT ![h].writer = "run"]
    /\ UNCHANGED <<loopVars, poolVars, chanVars, listener>>

\* Drop for ReadHalf and WriteHalf.
DropReader(h) ==
    /\ conn[h].reader \in Running \cup {"wait"}
    /\ conn' = [conn EXCEPT ![h].reader = IF Gone THEN "panicked" ELSE "gone"]
    /\ closing' = IF Gone THEN closing
                  ELSE Append(closing, [handle |-> h, rw |-> "Read"])
    /\ UNCHANGED <<loopVars, poolVars, polls, incoming, listener>>

DropWriter(h) ==
    /\ conn[h].writer \in Running \cup {"wait"}
    /\ conn' = [conn EXCEPT ![h].writer = IF Gone THEN "panicked" ELSE "gone"]
    /\ closing' = IF Gone THEN closing
                  ELSE Append(closing, [handle |-> h, rw |-> "Write"])
    /\ UNCHANGED <<loopVars, poolVars, polls, incoming, listener>>

\* TcpListener::accept and poll_next.
Accept ==
    /\ listener /\ incoming # <<>>
    /\ conn' = [conn EXCEPT ![Head(incoming)] = [@ EXCEPT !.reader = "run",
                                                          !.writer = "run"]]
    /\ incoming' = Tail(incoming)
    /\ UNCHANGED <<loopVars, poolVars, closing, polls, listener>>

\* The application drops its listener, and with it the stream in the channel.
DropListener ==
    /\ "unlisten" \in AppOps
    /\ listener
    /\ listener' = FALSE
    /\ incoming' = <<>>
    /\ IF incoming = <<>> THEN UNCHANGED <<conn, closing>>
       ELSE LET h == Head(incoming)
                state == IF Gone THEN "panicked" ELSE "gone"
            IN  /\ conn' = [conn EXCEPT ![h] = [@ EXCEPT !.reader = state,
                                                         !.writer = state]]
                /\ closing' = IF Gone THEN closing
                              ELSE closing \o
                                     << [handle |-> h, rw |-> "Write"],
                                        [handle |-> h, rw |-> "Read"] >>
    /\ UNCHANGED <<loopVars, poolVars, polls>>

-----------------------------------------------------------------------------
(* The clock. *)

\* Every deadline and every timer comes closer by one tick.
Tick ==
    /\ \/ \E h \in Handles : queue[h] > 0 \/ conn[h].tcp.timer > 0
       \/ \E i \in DOMAIN polls : polls[i].poll.due > 0
    /\ queue' = [h \in Handles |-> Closer(queue[h])]
    /\ conn' = [h \in Handles |-> [conn[h] EXCEPT !.tcp.timer = Closer(@)]]
    /\ polls' = [i \in DOMAIN polls |->
                    [polls[i] EXCEPT !.poll.due = Closer(@)]]
    /\ UNCHANGED <<loopVars, sockets, closing, incoming, listener>>

-----------------------------------------------------------------------------
LoopStep ==
    \/ NothingToWrite \/ PollPending \/ Written
    \/ WriteReply \/ DispatchPanics \/ Dispatch
    \/ \E h \in Handles, kind \in Segments : Receive(h, kind) \/ Drop(h, kind)
    \/ \E h \in Handles : CreateSyn(h) \/ Expire(h)
    \/ SendStream \/ SendStreamFails \/ ProcessSyn
    \/ DropTcpHalf \/ PollUpdate

AppStep ==
    \/ \E h \in Handles : \/ PollRead(h) \/ PollWrite(h) \/ PollClose(h)
                          \/ CancelRead(h) \/ CancelWrite(h)
                          \/ DropReader(h) \/ DropWriter(h)
    \/ Accept \/ DropListener

EnvStep == Tick \/ DeviceError

Next == LoopStep \/ AppStep \/ EnvStep

Spec == Init /\ [][Next]_vars

\* The runtime keeps polling the task of the I/O loop, the device takes a packet
\* that is offered again and again, and time passes.
Fairness == WF_vars(LoopStep) /\ SF_vars(Written) /\ WF_vars(Tick)

FairSpec == Spec /\ Fairness

-----------------------------------------------------------------------------
(* Safety. *)

\* Every variable has its type.  In particular no buffer of a connection holds
\* more than its capacity, and no reply is popped that was not pushed.
TypeOK ==
    /\ pc \in {"loop", "poll_a", "poll_b", "poll_c", "poll_d", "poll_queue",
               "send", "process", "exited", "panicked"}
    /\ cur \in Handles \cup {NoHandle}
    /\ writing \in BOOLEAN
    /\ replies \in 0..MaxReplies
    /\ next_poll \in Handles \cup {NoHandle}
    /\ sockets \in SUBSET Handles
    /\ queue \in Deadlines
    /\ conn \in [Handles -> Conn]
    /\ closing \in Seq(CloseMsg)
    /\ polls \in Seq(PollMsg)
    /\ incoming \in Seq(Handles)
    /\ listener \in BOOLEAN

\* The pair will be dispatched without anything else having to happen.
Scheduled(h) == QueueContains(queue, h) \/ next_poll = h

\* The channel holds a poll update that will schedule the pair.
PollOnTheWay(h) == \E i \in DOMAIN polls : /\ polls[i].handle = h
                                           /\ polls[i].poll.kind # "Ingress"

HalfOf(c, rw) == IF rw = "Read" THEN c.reader ELSE c.writer

DroppedOf(c, rw) == IF rw = "Read" THEN c.reader_dropped ELSE c.writer_dropped

\* While the loop runs, a stream on its way to the application belongs to a
\* pooled connection, or to the one that is about to be pooled, and nobody uses
\* its halves; a pair outside the pool has no half in use.  create_syn hands the
\* stream over before it inserts the connection, and the same pair may come back
\* while older messages wait.
StreamsInTransit ==
    ~Gone =>
      /\ Len(incoming) <= Backlog
      /\ \A i \in DOMAIN incoming :
            /\ incoming[i] \in sockets
            /\ conn[incoming[i]].reader = "held"
            /\ conn[incoming[i]].writer = "held"
      /\ pc = "send" => /\ cur \in Handles \ sockets
                        /\ conn[cur].reader = "held" /\ conn[cur].writer = "held"
      /\ pc = "process" => cur \in sockets
      /\ \A h \in Handles \ sockets :
            /\ conn[h].reader \in {"none", "held"}
            /\ conn[h].writer \in {"none", "held"}
            /\ ~conn[h].reader_dropped /\ ~conn[h].writer_dropped
            /\ ~conn[h].polling_active

\* A half of a pooled connection that the application has dropped is accounted
\* for exactly once: either one announcement of it waits in the channel or the
\* connection is marked.  Hence every announcement finds its connection, the
\* expectation of SocketPool::drop_tcp_half, also when a pair is closed and
\* opened again while older messages wait.
HalvesAccounted ==
    ~Gone =>
      /\ \A i \in DOMAIN closing :
            LET m == closing[i]
            IN  /\ m.handle \in sockets
                /\ HalfOf(conn[m.handle], m.rw) = "gone"
                /\ ~DroppedOf(conn[m.handle], m.rw)
      /\ \A i, j \in DOMAIN closing : closing[i] = closing[j] => i = j
      /\ \A h \in sockets, rw \in {"Read", "Write"} :
            /\ DroppedOf(conn[h], rw) => HalfOf(conn[h], rw) = "gone"
            /\ HalfOf(conn[h], rw) = "gone" /\ ~DroppedOf(conn[h], rw) =>
                  \E i \in DOMAIN closing : closing[i] = [handle |-> h, rw |-> rw]

\* A connection that nobody holds any more stays scheduled until a dispatch
\* removes it: drop_half and process turn PollAt::Ingress into Now for that,
\* and no packet, poll update or expiry in between may take it off the queue.
\* Otherwise the pool would keep it forever.
DroppedStaysScheduled ==
    \A h \in sockets : both_dropped(conn[h]) => Scheduled(h)

\* polling_active tells the writer that it need not notify the queue, so it
\* may be set only while the connection really is in line for a dispatch.
ActiveIsScheduled ==
    \A h \in sockets : conn[h].polling_active => Scheduled(h)

\* Something to send, a running timer or an acknowledgement that is due.  A
\* window update is not among them: the reader does not notify the queue.
TxWork(t) == SeqToTransmit(t) \/ t.timer # Off \/ t.ack = "owed"

\* A connection with egress work is scheduled, or a poll update that schedules
\* it is in the channel, whoever made the work: the writer, the I/O loop or a
\* segment that arrived.
WorkIsScheduled ==
    \A h \in sockets :
        TxWork(conn[h].tcp) => Scheduled(h) \/ PollOnTheWay(h)

\* A deadline is never later than the timer of its socket, wherever it waits: in
\* the delay queue, or in the channel, from where an update that is old by then
\* replaces what newer segments and dispatches have set.  So a retransmission and
\* the end of TIME-WAIT are not put off, in whatever order the loop takes them.
DeadlineMeetsTimer ==
    \A h \in sockets : conn[h].tcp.timer # Off =>
        /\ queue[h] <= conn[h].tcp.timer
        /\ \A i \in DOMAIN polls :
              polls[i].handle = h => polls[i].poll.due <= conn[h].tcp.timer

\* No wake-up of a writer is lost: a writer that waits has left its waker, the
\* connection can still be written, and if there is room already, which is the
\* case after an acknowledgement, a dispatch that wakes it is coming.
WriterNotStranded ==
    \A h \in sockets :
        conn[h].writer = "wait" =>
            /\ conn[h].wwaker
            /\ may_send(conn[h].tcp)
            /\ can_send(conn[h].tcp) => Scheduled(h) \/ PollOnTheWay(h)

\* No wake-up of a reader is lost: a reader that waits has left its waker, and
\* there is neither data nor the end of the stream for it.
ReaderNotStranded ==
    \A h \in sockets :
        conn[h].reader = "wait" =>
            /\ conn[h].rwaker
            /\ ~can_recv(conn[h].tcp)
            /\ may_recv(conn[h].tcp) \/ conn[h].tcp.state = "SynReceived"

\* The pool forgets a connection only after the application has dropped both
\* halves, so no live stream loses its connection (unless the loop ends).
RemovedOnlyWhenDropped ==
    [][\A h \in sockets \ sockets' :
          \/ Gone'
          \/ conn[h].reader = "gone" /\ conn[h].writer = "gone"]_vars

\* SocketPool::dispatch: "Dispatching should not happen after dropping."
DispatchFindsSocket == next_poll # NoHandle => next_poll \in sockets

\* poll_read_inner: "Reader could be used before the handshake is finished."  A
\* half that was told the end of the stream, or that it was aborted, never has a
\* connection that is being opened or is open.
FailureIsFinal ==
    \A h \in sockets : conn[h].eof_reached \/ conn[h].writer = "failed" =>
        conn[h].tcp.state \notin {"SynReceived", "Established"}

\* The peer has all the data, or there is no peer any more.
Finished(t) == ~t.remote \/ t.unsent + t.flight = 0

\* Connection::dispatch: "Finished dispatching, dropping connection".  What is
\* removed has sent all its data and has had it acknowledged.
RemovedOnlyWhenFinished ==
    [][\A h \in sockets \ sockets' :
          Gone' \/ Finished(conn[h].tcp)]_vars

-----------------------------------------------------------------------------
(* The connections of the pool, as Handoff sees them. *)

ReadCond(t) == IF can_recv(t) THEN "some"
               ELSE IF may_recv(t) \/ t.state = "SynReceived" THEN "none" ELSE "end"

WriteCond(t) == IF can_send(t) THEN "some"
                ELSE IF may_send(t) THEN "none" ELSE "end"

CondOf(c) == [half \in {"read", "write"} |->
                IF half = "read" THEN ReadCond(c.tcp) ELSE WriteCond(c.tcp)]

\* A waker counts until its half is dropped.
WakerOf(c) == {half \in {"read", "write"} :
                IF half = "read" THEN c.rwaker /\ c.reader # "gone"
                                 ELSE c.wwaker /\ c.writer # "gone"}

AsleepOf(c) == {half \in {"read", "write"} :
                IF half = "read" THEN c.reader = "wait" ELSE c.writer = "wait"}

Methods(h) == INSTANCE Handoff WITH cond <- CondOf(conn[h]),
                                    waker <- WakerOf(conn[h]),
                                    asleep <- AsleepOf(conn[h])

\* A connection enters the pool as Handoff starts, and until it leaves the pool
\* whatever happens to it is one of the methods that Handoff allows: no task is
\* put to sleep beside data or room, and none that sleeps is passed over by the
\* method that changes what it waits for.  Locking shows the same of the methods
\* as coded, so their steps under the lock may take the place of these.
MethodsHandOff ==
    [][/\ \A h \in sockets \cap sockets' :
             Methods(h)!HandoffNext \/ UNCHANGED Methods(h)!handoffVars
       /\ \A h \in sockets' \ sockets : Methods(h)!HandoffInit']_vars

-----------------------------------------------------------------------------
(* Liveness. *)

\* The application accepts, if not at once then later.
AcceptingSpec == FairSpec /\ WF_vars(Accept)

\* The loop comes back to the device, whoever is being opened: create_syn awaits
\* room for a new stream in a channel of one place, and every connection that is
\* established waits with it.
LoopComesAround == []<>(pc = "poll_b" \/ Gone)

\* The stream of a pair whose SYN was taken reaches the application, also if
\* others were made before it and the channel was full.
StreamReachesApplication ==
    \A h \in Handles :
        (pc = "send" /\ cur = h) ~> (conn[h].reader \in Running \/ Gone)

\* The peer keeps sending to the pair, as one does that probes a closed window.
Probed(h) == []<><<\E kind \in Segments : Receive(h, kind)>>_vars

\* The selector comes to its last place again and again.  The device, the close
\* channel and the poll channel go before the delay queue, so the code promises
\* nothing while one of them is always ready.
QueueServed == []<>(pc = "poll_queue" \/ Gone)

\* The writer is free and no reply waits for it, again and again, as it is while
\* nothing happens.  Replies to ingress go before every dispatch, so a peer that
\* provokes replies all the time keeps the writer busy.
RepliesPause == []<>(~writing /\ replies = 0)

\* A writer that waits although there is room again is woken.
WriterIsWoken ==
    QueueServed /\ RepliesPause =>
      \A h \in Handles :
        (conn[h].writer = "wait" /\ can_send(conn[h].tcp))
          ~> (conn[h].writer # "wait" \/ Gone)

\* What the peer has to be told is sent: an acknowledgement, or the room that a
\* reader made in the receive buffer.  The reader notifies nobody, so a window
\* update takes a peer that sends something.
PeerIsTold ==
    QueueServed /\ RepliesPause =>
      \A h \in Handles :
        Probed(h) =>
          ((h \in sockets /\ conn[h].tcp.ack # "none")
             ~> (conn[h].tcp.ack = "none" \/ Gone))

InFlight(t) == t.flight > 0 \/ t.ctl = "flight"

\* The peer stops sending to a connection that is only there to answer it:
\* each segment starts TIME-WAIT again.
LetsGo(h) ==
    <>[][~(conn[h].tcp.state = "TimeWait" /\ conn'[h].tcp.timer > conn[h].tcp.timer)]_vars

\* A connection whose halves are both dropped leaves the pool if the peer
\* acknowledges what was sent and lets go.
DroppedIsRemoved ==
    QueueServed /\ RepliesPause =>
      \A h \in Handles :
        []<>(~InFlight(conn[h].tcp)) /\ LetsGo(h) =>
          ((h \in sockets /\ conn[h].reader = "gone" /\ conn[h].writer = "gone")
             ~> (h \notin sockets))

=============================================================================
