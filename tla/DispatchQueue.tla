---------------------------- MODULE DispatchQueue ----------------------------
(***************************************************************************)
(* The delay queue of the I/O loop as what it promises: at most one        *)
(* deadline per address pair.  A deadline is the number of ticks until the *)
(* pair is to be polled, 0 when it is due, Off when the pair is not        *)
(* queued.  PollQueue shows that the two structures the code keeps         *)
(* implement this map.                                                     *)
(***************************************************************************)
EXTENDS TcpSocket

CONSTANT Handles     \* the address pairs (SocketHandle)

Deadlines == [Handles -> Off..Rto]

EmptyQueue == [h \in Handles |-> Off]

\* DispatchQueue::send: insert, or move the deadline that is there.  PollAt::Now
\* is the origin of the clock, a deadline that has passed.
QueueSend(q, h, p) == IF p.kind = "Ingress" THEN q ELSE [q EXCEPT ![h] = p.due]

QueueRemove(q, h) == [q EXCEPT ![h] = Off]

QueueContains(q, h) == q[h] # Off

QueueDue(q) == {h \in Handles : q[h] = 0}

\* A call of the queue with its arguments, or the pair it handed out, as the I/O
\* loop sees it.
Call(op, h, p) == [op |-> op, handle |-> h, poll |-> p]

\* One tick of the clock brings a deadline closer; Off and 0 stay.
Closer(d) == IF d > 0 THEN d - 1 ELSE d

=============================================================================
