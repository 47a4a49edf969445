------------------------------- MODULE Handoff -------------------------------
(***************************************************************************)
(* What the methods of a connection promise to the tasks that use its      *)
(* halves, each method being one step: a poll either is served or leaves   *)
(* its waker and sleeps, and the I/O loop wakes whom it must wake for what *)
(* it has changed.  Locking shows that the methods as coded, with a lock   *)
(* and several steps under it, do nothing else.                            *)
(***************************************************************************)

VARIABLES cond,     \* what a poll of each half would find
          waker,    \* the halves whose waker is with the I/O loop
          asleep    \* the halves whose task sleeps until it is woken

handoffVars == <<cond, waker, asleep>>

Halves == {"read", "write"}

\* A poll finds nothing and has to wait, finds data or room, or finds that the
\* direction is closed.
Conds == {"none", "some", "end"}

\* A stream is handed over while its socket still listens.
HandoffInit ==
    /\ cond = [h \in Halves |-> "end"]
    /\ waker = {}
    /\ asleep = {}

\* What a poll that is served may leave: it may use up what there is, and a
\* reader that takes the last data of a stream its peer has closed comes to the end.
Served(h, c) ==
    {c} \cup {[c EXCEPT ![h] = d] :
                d \in IF c[h] # "some" THEN {}
                      ELSE IF h = "read" THEN {"none", "end"} ELSE {"none"}}

\* A poll that is served.
Take(h) ==
    /\ h \notin asleep
    /\ cond[h] # "none"
    /\ cond' \in Served(h, cond)
    /\ UNCHANGED <<waker, asleep>>

Park(h) ==
    /\ h \notin asleep
    /\ cond[h] = "none"
    /\ waker' = waker \cup {h}
    /\ asleep' = asleep \cup {h}
    /\ UNCHANGED cond

\* The writer, or the loop after the writer is dropped, closes the socket.
Close ==
    /\ "write" \notin asleep
    /\ cond' = [cond EXCEPT !["write"] = "end"]
    /\ UNCHANGED <<waker, asleep>>

\* Whom a call of the I/O loop wakes: process a reader that has data, dispatch a
\* writer that has room, and both everyone who has reached the end.
MustWake(kind, c) ==
    {h \in Halves : \/ c[h] = "end"
                    \/ c[h] = "some" /\ kind = "process" /\ h = "read"
                    \/ c[h] = "some" /\ kind = "dispatch" /\ h = "write"}

\* What a call may make of the socket: a dispatch brings neither data nor room.
Changes(kind, c) ==
    {d \in [Halves -> Conds] :
        kind = "dispatch" => \A h \in Halves : d[h] \in {c[h], "end"}}

\* The socket changes, and at least those are woken.
Serve(kind) ==
    /\ cond' \in Changes(kind, cond)
    /\ \E woken \in SUBSET waker :
        /\ MustWake(kind, cond') \cap waker \subseteq woken
        /\ waker' = waker \ woken
        /\ asleep' = asleep \ woken

\* The task drops the future that waits.
Cancel(h) ==
    /\ h \in asleep
    /\ asleep' = asleep \ {h}
    /\ UNCHANGED <<cond, waker>>

\* The task drops the half.  A waker that it left is of no use any more.
Leave(h) ==
    /\ waker' = waker \ {h}
    /\ asleep' = asleep \ {h}
    /\ UNCHANGED cond

HandoffNext ==
    \/ \E h \in Halves : Take(h) \/ Park(h) \/ Cancel(h) \/ Leave(h)
    \/ Close
    \/ \E kind \in {"process", "dispatch"} : Serve(kind)

HandoffSpec == HandoffInit /\ [][HandoffNext]_handoffVars

\* A half that sleeps can be woken, and a sleeping reader has nothing to read.
\* (A sleeping writer may have room until the next dispatch.)
Reachable(c, w, a) ==
    \A h \in a : h \in w /\ c[h] # "end" /\ (h = "read" => c[h] = "none")

=============================================================================
