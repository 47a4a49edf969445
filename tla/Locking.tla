------------------------------- MODULE Locking -------------------------------
(***************************************************************************)
(* The critical sections of one connection at the grain of their steps:    *)
(* the two halves and the I/O loop share a TriLock; a half takes it, tests *)
(* the socket, leaves its waker and releases it, while the loop takes it,  *)
(* changes the socket, wakes the halves one by one and releases it.        *)
(*                                                                         *)
(* The other modules take a method of a connection for one step.  This one *)
(* shows that they may: while the lock is held the connection is seen as   *)
(* it was when the lock was taken.                                         *)
(*                                                                         *)
(* As in Connection, a "Slip" is a mistake to be put in the place of the   *)
(* definition that follows it.  Buffers that are written are not empty.    *)
(***************************************************************************)
VARIABLES
    holder,     \* who holds the lock
    waiting,    \* who has left a waker in the lock
    at,         \* where each user of the lock is
    cond,       \* what a poll of each half would find
    waker,      \* the halves whose waker is in its SharedState
    before      \* the connection when the lock was taken, an auxiliary variable

lockVars == <<holder, waiting, at, cond, waker, before>>

Halves == {"read", "write"}
Users == Halves \cup {"loop"}
Kinds == {"process", "dispatch"}

Asleep == {h \in Halves : at[h] = "asleep"}
Current == [cond |-> cond, waker |-> waker, asleep |-> Asleep]
Nothing == [cond |-> [h \in Halves |-> "none"], waker |-> {}, asleep |-> {}]

\* The connection as the other modules see it.
Seen == IF holder = "nobody" THEN Current ELSE before

Abstract == INSTANCE Handoff WITH cond <- Seen.cond, waker <- Seen.waker,
                                  asleep <- Seen.asleep

Init ==
    /\ holder = "nobody"
    /\ waiting = {}
    /\ at = [u \in Users |-> "run"]
    /\ cond = [h \in Halves |-> "end"]
    /\ waker = {}
    /\ before = Nothing

-----------------------------------------------------------------------------
(* The lock. *)

\* poll_lock, or lock().await, when nobody holds the lock.
Acquire(u) ==
    /\ at[u] = "run" /\ holder = "nobody"
    /\ holder' = u
    /\ waiting' = waiting \ {u}
    /\ at' = [at EXCEPT ![u] = "locked"]
    /\ before' = Current
    /\ UNCHANGED <<cond, waker>>

\* The same when somebody does.
WaitForLock(u) ==
    /\ at[u] = "run" /\ holder # "nobody"
    /\ waiting' = waiting \cup {u}
    /\ at' = [at EXCEPT ![u] = "waitlock"]
    /\ UNCHANGED <<holder, cond, waker, before>>

\* A poll that left a waker ends asleep, any other is over.
Returned(place) == IF place = "left" THEN "asleep" ELSE "run"

\* The guard is dropped at the end of the method; whoever waits is woken.
Unlock(u) ==
    /\ at[u] \in {"ready", "left"}
    /\ holder' = "nobody"
    /\ waiting' = {}
    /\ at' = [v \in Users |->
                IF v = u THEN Returned(at[u])
                ELSE IF v \in waiting /\ at[v] = "waitlock" THEN "run"
                ELSE at[v]]
    /\ before' = Nothing
    /\ UNCHANGED <<cond, waker>>

-----------------------------------------------------------------------------
(* The halves: poll_read_inner, poll_write_inner, poll_close_inner. *)

\* Slip: the guard is dropped before the waker is left.
TestReleases(h) ==
    /\ at[h] = "locked"
    /\ IF cond[h] = "none"
       THEN /\ at' = [v \in Users |->
                        IF v = h THEN "empty"
                        ELSE IF v \in waiting /\ at[v] = "waitlock" THEN "run"
                        ELSE at[v]]
            /\ holder' = "nobody" /\ waiting' = {} /\ before' = Nothing
            /\ UNCHANGED cond
       ELSE /\ cond' \in Abstract!Served(h, cond)
            /\ at' = [at EXCEPT ![h] = "ready"]
            /\ UNCHANGED <<holder, waiting, before>>
    /\ UNCHANGED waker

\* recv_slice or send_slice, or the tests that follow when there is nothing.
Test(h) ==
    /\ at[h] = "locked"
    /\ IF cond[h] = "none"
       THEN at' = [at EXCEPT ![h] = "empty"] /\ UNCHANGED cond
       ELSE /\ cond' \in Abstract!Served(h, cond)
            /\ at' = [at EXCEPT ![h] = "ready"]
    /\ UNCHANGED <<holder, waiting, waker, before>>

\* shared_state.lock().unwrap().waker = Some(cx.waker().clone())
LeaveWaker(h) ==
    /\ at[h] = "empty"
    /\ waker' = waker \cup {h}
    /\ at' = [at EXCEPT ![h] = "left"]
    /\ UNCHANGED <<holder, waiting, cond, before>>

PollClose ==
    /\ at["write"] = "locked"
    /\ cond' = [cond EXCEPT !["write"] = "end"]
    /\ at' = [at EXCEPT !["write"] = "ready"]
    /\ UNCHANGED <<holder, waiting, waker, before>>

\* The task drops a future that is pending.  Its wakers stay where they are.
Cancel(h) ==
    /\ at[h] \in {"asleep", "waitlock"}
    /\ at' = [at EXCEPT ![h] = "run"]
    /\ before' = IF at[h] = "asleep" /\ holder # "nobody"
                 THEN [before EXCEPT !.asleep = @ \ {h}] ELSE before
    /\ UNCHANGED <<holder, waiting, cond, waker>>

\* The task drops the half; the message to the loop is Ustunet's concern.
DropHalf(h) ==
    /\ at[h] = "run"
    /\ at' = [at EXCEPT ![h] = "gone"]
    /\ UNCHANGED <<holder, waiting, cond, waker, before>>

-----------------------------------------------------------------------------
(* The I/O loop: Connection::process, dispatch and drop_half. *)

\* socket.process or tcp.dispatch, which the library decides about.
Change(kind) ==
    /\ at["loop"] = "locked"
    /\ cond' \in Abstract!Changes(kind, cond)
    /\ at' = [at EXCEPT !["loop"] = kind]
    /\ UNCHANGED <<holder, waiting, waker, before>>

\* wake_once: the waker is taken, and the task is polled again wherever it waits.
\* A half that is gone does not notice, so the test for it is left out.
Wake(h) ==
    /\ at["loop"] \in Kinds
    /\ h \in waker
    /\ waker' = waker \ {h}
    /\ at' = [at EXCEPT ![h] = IF @ \in {"asleep", "waitlock"} THEN "run" ELSE @]
    /\ UNCHANGED <<holder, waiting, cond, before>>

\* Slip: only the end of a direction wakes anyone.
WokenAtEnd ==
    /\ at["loop"] \in Kinds
    /\ \A h \in waker : cond[h] # "end"
    /\ at' = [at EXCEPT !["loop"] = "ready"]
    /\ UNCHANGED <<holder, waiting, cond, waker, before>>

\* Nobody is left whom the method has to wake.
Woken ==
    /\ at["loop"] \in Kinds
    /\ Abstract!MustWake(at["loop"], cond) \cap waker = {}
    /\ at' = [at EXCEPT !["loop"] = "ready"]
    /\ UNCHANGED <<holder, waiting, cond, waker, before>>

\* drop_half closes the socket of a writer that is gone, and wakes nobody.
CloseDropped ==
    /\ at["loop"] = "locked" /\ at["write"] = "gone"
    /\ cond' = [cond EXCEPT !["write"] = "end"]
    /\ at' = [at EXCEPT !["loop"] = "ready"]
    /\ UNCHANGED <<holder, waiting, waker, before>>

-----------------------------------------------------------------------------
Next ==
    \/ \E u \in Users : Acquire(u) \/ WaitForLock(u) \/ Unlock(u)
    \/ \E h \in Halves : Test(h) \/ LeaveWaker(h) \/ Cancel(h) \/ DropHalf(h) \/ Wake(h)
    \/ PollClose
    \/ \E kind \in Kinds : Change(kind)
    \/ Woken \/ CloseDropped

Spec == Init /\ [][Next]_lockVars

-----------------------------------------------------------------------------
(* Properties. *)

\* The steps under the lock add up to the methods that the other modules use.
ImplementsHandoff == Abstract!HandoffSpec

\* While the I/O loop is not at work, a half that sleeps can be woken and sleeps
\* for a reason, also between two steps of the other half.
SleeperIsReachable ==
    holder # "loop" => Abstract!Reachable(cond, waker, Asleep)

=============================================================================
