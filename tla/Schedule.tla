------------------------------ MODULE Schedule -------------------------------
(***************************************************************************)
(* What the delay queue promises to the I/O loop: at most one deadline per *)
(* pair, the last one that was sent; a pair comes out only when its        *)
(* deadline has passed, and then it is no longer queued.                   *)
(***************************************************************************)
EXTENDS DispatchQueue

CONSTANT NoHandle    \* no address pair

VARIABLES queue,     \* the deadline of every pair
          call       \* the last call

scheduleVars == <<queue, call>>

ScheduleInit == queue = EmptyQueue /\ call = Call("new", NoHandle, Ingress)

Send(h, p) ==
    /\ queue' = QueueSend(queue, h, p)
    /\ call' = Call("send", h, p)

Remove(h) ==
    /\ queue' = QueueRemove(queue, h)
    /\ call' = Call("remove", h, Ingress)

Expire(h) ==
    /\ h \in QueueDue(queue)
    /\ queue' = QueueRemove(queue, h)
    /\ call' = Call("expired", h, Ingress)

Advance ==
    /\ queue' = [h \in Handles |-> Closer(queue[h])]
    /\ call' = Call("wait", NoHandle, Ingress)

ScheduleNext ==
    \/ \E h \in Handles : Remove(h) \/ Expire(h) \/ \E p \in PollAt : Send(h, p)
    \/ Advance

ScheduleSpec == ScheduleInit /\ [][ScheduleNext]_scheduleVars

=============================================================================
