----------------------------- MODULE Connection ------------------------------
(***************************************************************************)
(* One connection: the socket and the flag behind the lock (`Inner`), the  *)
(* two halves the application holds with the waker each of them shares     *)
(* with the I/O loop (`ReadHalf`, `WriteHalf`, `SharedState`), and what    *)
(* the I/O loop knows about the halves (`RwStatus`).                       *)
(*                                                                         *)
(* Every operator below is the body of one method, from taking the lock to *)
(* releasing it.  The lock is held only inside one poll, never across an   *)
(* await, so a method is one atomic step of the record.                    *)
(*                                                                         *)
(* A definition whose comment starts with "Slip" is a plausible mistake in *)
(* the method that follows it.  Nothing refers to it: it is there to be    *)
(* put in the place of the method, to see which property notices.          *)
(***************************************************************************)
EXTENDS TcpSocket

(* A half is absent, on its way to the application, owned by a task that   *)
(* runs, whose last call failed or that waits for its waker, dropped, or   *)
(* its task has panicked.                                                  *)
Half == {"none", "held", "run", "failed", "wait", "gone", "panicked"}
Running == {"run", "failed"}

Conn == [tcp            : Tcp,
         polling_active : BOOLEAN,
         reader         : Half,
         writer         : Half,
         rwaker         : BOOLEAN,    \* read_readiness holds a waker
         wwaker         : BOOLEAN,    \* write_readiness holds a waker
         eof_reached    : BOOLEAN,
         reader_dropped : BOOLEAN,
         writer_dropped : BOOLEAN]

\* TcpStream::new, with both halves still in the hands of the I/O loop.
NewConn == [tcp |-> ListenTcp, polling_active |-> FALSE,
            reader |-> "held", writer |-> "held",
            rwaker |-> FALSE, wwaker |-> FALSE,
            eof_reached |-> FALSE,
            reader_dropped |-> FALSE, writer_dropped |-> FALSE]

NoConn == [NewConn EXCEPT !.reader = "none", !.writer = "none"]

both_dropped(c) == c.writer_dropped /\ c.reader_dropped

-----------------------------------------------------------------------------
(* Wakers. *)

Woken(half) == IF half = "wait" THEN "run" ELSE half

wake_reader(c) ==
    IF ~c.reader_dropped /\ c.rwaker
    THEN [c EXCEPT !.rwaker = FALSE, !.reader = Woken(@)] ELSE c

wake_writer(c) ==
    IF ~c.writer_dropped /\ c.wwaker
    THEN [c EXCEPT !.wwaker = FALSE, !.writer = Woken(@)] ELSE c

wake_to_close(c) ==
    LET r == IF may_recv(c.tcp) THEN c ELSE wake_reader(c)
    IN  IF may_send(r.tcp) THEN r ELSE wake_writer(r)

-----------------------------------------------------------------------------
(* Methods that the I/O loop calls. *)

\* Whether the socket takes a segment of this kind.  The addresses always
\* match: the pool finds the connection by its address pair.  A socket that
\* listens takes what has no acknowledgement number: a SYN, and a reset, which
\* stands for everything else that leaves such a socket as it is.
check_acceptability(c, kind) ==
    /\ c.tcp.state # "Closed"
    /\ c.tcp.state = "Listen" => kind \in {"syn", "rst"}

\* Slip: the halves are woken for the socket as it was before the segment.
ConnProcessWakesFirst(c, result) ==
    LET e == IF can_recv(c.tcp) THEN wake_reader(c) ELSE c
    IN  [wake_to_close(e) EXCEPT !.tcp = result.tcp]

\* Connection::process for one of the library's results.
ConnProcess(c, result) ==
    LET d == [c EXCEPT !.tcp = result.tcp]
        e == IF can_recv(d.tcp) THEN wake_reader(d) ELSE d
    IN  wake_to_close(e)

\* Slip: a segment schedules a connection only to have it removed.
ProcessPollAtRemoval(c, queued) ==
    IF both_dropped(c) /\ poll_at(c.tcp) = Ingress /\ ~queued
    THEN Now ELSE Ingress

\* When to poll a connection that has just processed a segment; queued says
\* whether the delay queue holds it.
ProcessPollAt(c, queued) ==
    IF both_dropped(c) /\ poll_at(c.tcp) = Ingress /\ ~queued
    THEN Now ELSE poll_at(c.tcp)

\* Slip: only a connection that is closing wakes the writer.
DispatchWakesNoWriter(c) == wake_to_close(c)

\* Who is woken after a dispatch.
DispatchWakes(c) ==
    LET d == wake_to_close(c)
    IN  IF can_send(d.tcp) THEN wake_writer(d) ELSE d

\* Slip: the flag is set and never reset.
ActiveForever(c, p) == c.polling_active \/ p = Now

\* The new polling_active: the connection is to be dispatched again at once.
ActiveNext(c, p) == p = Now

\* Slip: a connection is removed without waiting for the reader.
RemovableWriterDropped(c, d) ==
    c.writer_dropped /\ \/ ~d.tcp.remote
                        \/ d.r = "Exhausted"
                        \/ poll_at(d.tcp) = Ingress

\* Whether a connection is to be removed after a dispatch with result d.
Removable(c, d) == both_dropped(c) /\ \/ ~d.tcp.remote
                                      \/ d.r = "Exhausted"
                                      \/ poll_at(d.tcp) = Ingress

\* Connection::dispatch: the new connection, whether a packet was written, when
\* to poll next, and whether the connection is to be removed.
ConnDispatch(c) ==
    LET d == tcp_dispatch(c.tcp)
        p == poll_at(d.tcp)
    IN  [conn |-> [DispatchWakes([c EXCEPT !.tcp = d.tcp])
                      EXCEPT !.polling_active = ActiveNext(c, p)],
         sent |-> d.r = "Ok",
         poll |-> p,
         drop |-> Removable(c, d)]

MarkDropped(c, rw) == IF rw = "Read" THEN [c EXCEPT !.reader_dropped = TRUE]
                                     ELSE [c EXCEPT !.writer_dropped = TRUE]

\* Slip: a socket that waits for ingress is not polled once more.
ConnDropHalfKeepsIngress(c, rw) ==
    LET m == MarkDropped(c, rw)
        d == [m EXCEPT !.tcp = tcp_close(@)]
    IN  IF ~m.writer_dropped THEN [conn |-> m, poll |-> Ingress]
        ELSE [conn |-> d, poll |-> poll_at(d.tcp)]

\* Slip: the socket is closed when either half is dropped.
ConnDropHalfCloses(c, rw) ==
    LET d == [MarkDropped(c, rw) EXCEPT !.tcp = tcp_close(@)]
        p == poll_at(d.tcp)
    IN  [conn |-> d,
         poll |-> IF both_dropped(d) /\ p = Ingress THEN Now ELSE p]

\* Connection::drop_half.  Nothing is closed or scheduled, which sending
\* Ingress to the queue stands for, while the application can still write.
ConnDropHalf(c, rw) ==
    LET m == MarkDropped(c, rw)
        d == [m EXCEPT !.tcp = tcp_close(@)]
        p == poll_at(d.tcp)
    IN  IF ~m.writer_dropped THEN [conn |-> m, poll |-> Ingress]
        ELSE [conn |-> d,
              poll |-> IF both_dropped(d) /\ p = Ingress THEN Now ELSE p]

-----------------------------------------------------------------------------
(* Methods that the application calls. *)

\* poll_read_inner with a buffer that takes up to n segments.  The end of the
\* stream is reported once, after that reading fails.
ConnPollRead(c, n) ==
    IF can_recv(c.tcp) /\ n > 0
    THEN [c EXCEPT !.tcp = recv_slice(@, n), !.reader = "run"]
    ELSE IF may_recv(c.tcp) \/ c.tcp.state = "SynReceived"
    THEN [c EXCEPT !.rwaker = TRUE, !.reader = "wait"]
    ELSE [c EXCEPT !.eof_reached = TRUE,
                   !.reader = IF c.eof_reached THEN "failed" ELSE "run"]

\* poll_write_inner, where n segments of the caller's buffer fit.
ConnPollWrite(c, n) ==
    IF can_send(c.tcp) /\ n > 0
    THEN [c EXCEPT !.tcp = send_slice(@, n), !.writer = "run"]
    ELSE IF ~may_send(c.tcp)
    THEN [c EXCEPT !.writer = "failed"]
    ELSE [c EXCEPT !.wwaker = TRUE, !.writer = "wait"]

\* poll_close_inner.
ConnPollClose(c) == [c EXCEPT !.tcp = tcp_close(@), !.writer = "run"]

=============================================================================
