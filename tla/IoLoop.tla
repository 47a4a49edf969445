------------------------------- MODULE IoLoop --------------------------------
(***************************************************************************)
(* The I/O task seen from its scheduler: the four slots of `Selector` with *)
(* their assertions, the write buffer that travels between the loop and    *)
(* the write future, the stack of replies to ingress, and the wakers that  *)
(* decide whether the task runs again.  What a packet or a message does to *)
(* a connection is left to Ustunet; here it may or may not make a reply    *)
(* and may or may not put the pair into the delay queue as due.            *)
(*                                                                         *)
(* A source is what a future waits for.  Polling a future that is pending  *)
(* leaves the task's waker with its source; the waker is used once.        *)
(*                                                                         *)
(* As in Connection, a "Slip" is a mistake to be put in the place of the   *)
(* definition that follows it.                                             *)
(***************************************************************************)
EXTENDS Naturals, SequencesExt

CONSTANTS Pairs,        \* the address pairs
          NoPair,       \* no pair, an empty buffer
          MaxWaiting,   \* bound: messages that wait in a channel
          MaxReplies    \* bound: ingress replies that are not written yet

ASSUME IoLoopAssumption == /\ NoPair \notin Pairs
                           /\ MaxWaiting \in Nat
                           /\ MaxReplies \in Nat

VARIABLES
    pc,         \* where the task is
    slots,      \* the slots of the selector that hold a future
    free,       \* whether `writing` holds the writer and its buffer
    buf,        \* the pair whose packet is in the write buffer
    replies,    \* ingress_replies
    next_poll,  \* the pair to dispatch next, or NoPair
    due,        \* the pairs in the delay queue whose deadline has passed
    queued,     \* the pairs in the delay queue whose deadline has not passed
    readable,   \* whether the device has a packet
    writable,   \* whether the device takes a packet
    closes,     \* number of messages in the close channel
    updates,    \* number of messages in the poll channel
    armed,      \* the sources that hold the task's waker
    awake       \* whether the task was woken since it was last polled

taskVars == <<pc, slots, free, buf, replies, next_poll>>
srcVars == <<due, queued, readable, writable, closes, updates>>
wakeVars == <<armed, awake>>
ioVars == <<taskVars, srcVars, wakeVars>>

Slots == {"a", "b", "c", "d"}
Sources == Slots \cup {"queue"}

Init ==
    /\ pc = "top"
    /\ slots = {"b", "c", "d"}
    /\ free = TRUE
    /\ buf = NoPair
    /\ replies = <<>>
    /\ next_poll = NoPair
    /\ due = {}
    /\ queued = {}
    /\ readable = FALSE
    /\ writable = TRUE
    /\ closes = 0
    /\ updates = 0
    /\ armed = {}
    /\ awake = FALSE

-----------------------------------------------------------------------------
(* Wakers. *)

\* A source that has become ready uses the waker it holds.
Fire(s) == /\ armed' = armed \ {s}
           /\ awake' = (awake \/ s \in armed)

\* The task itself makes the pair p due, which uses the waker of the delay queue;
\* sets a later deadline or takes the pair off the queue; or leaves it alone.
Reschedule(p) ==
    \/ /\ due' = due \cup {p}
       /\ queued' = queued \ {p}
       /\ Fire("queue")
    \/ /\ due' = due \ {p}
       /\ queued' \in {queued \cup {p}, queued \ {p}}
       /\ UNCHANGED wakeVars
    \/ UNCHANGED <<due, queued, wakeVars>>

-----------------------------------------------------------------------------
(* The top of the loop. *)

\* Selector::insert_...: the slot must be empty.
Insert(s, place) ==
    IF s \in slots THEN pc' = "panicked" /\ UNCHANGED slots
                   ELSE pc' = place /\ slots' = slots \cup {s}

\* assert!(selector.b().is_some()), before anything else.
Reach(place) == IF "b" \in slots THEN place ELSE "panicked"

\* A buffer that was not emptied is written again; an empty one takes the reply
\* that was pushed last.
Write ==
    /\ pc = "top" /\ free
    /\ buf # NoPair \/ replies # <<>>
    /\ buf' = IF buf # NoPair THEN buf ELSE Last(replies)
    /\ replies' = IF buf # NoPair THEN replies ELSE Front(replies)
    /\ free' = FALSE
    /\ Insert("a", Reach("a"))
    /\ UNCHANGED <<next_poll, srcVars, wakeVars>>

\* interface.dispatch: it may fill the buffer and it may make the pair due again.
Dispatch ==
    /\ pc = "top" /\ free /\ buf = NoPair /\ replies = <<>> /\ next_poll # NoPair
    /\ next_poll' = NoPair
    /\ Reschedule(next_poll)
    /\ \/ buf' = next_poll /\ free' = FALSE /\ Insert("a", Reach("a"))
       \/ pc' = Reach("a") /\ UNCHANGED <<buf, free, slots>>
    /\ UNCHANGED <<replies, readable, writable, closes, updates>>

\* Slip: a reply has to wait until no pair is left to dispatch.
NothingToWriteButReplies ==
    /\ pc = "top"
    /\ ~free \/ (buf = NoPair /\ next_poll = NoPair)
    /\ pc' = Reach("a")
    /\ UNCHANGED <<slots, free, buf, replies, next_poll, srcVars, wakeVars>>

NothingToWrite ==
    /\ pc = "top"
    /\ ~free \/ (buf = NoPair /\ replies = <<>> /\ next_poll = NoPair)
    /\ pc' = Reach("a")
    /\ UNCHANGED <<slots, free, buf, replies, next_poll, srcVars, wakeVars>>

-----------------------------------------------------------------------------
(* SelectorFuture::poll, and the delay queue after it. *)

Ready(s) == CASE s = "a" -> writable
              [] s = "b" -> readable
              [] s = "c" -> closes > 0
              [] s = "d" -> updates > 0
              [] s = "queue" -> due # {}

\* Which futures are polled: those in the slots, and the delay queue unless a
\* pair waits to be dispatched.
Polls(s) == IF s = "queue" THEN next_poll = NoPair ELSE s \in slots

Following == [a |-> "b", b |-> "c", c |-> "d", d |-> "queue",
              queue |-> "asleep"]

\* Slip: the poll returns at the first future that is pending.
PendingReturns(s) ==
    /\ pc = s
    /\ Polls(s) => ~Ready(s)
    /\ armed' = IF Polls(s) THEN armed \cup {s} ELSE armed
    /\ pc' = IF Polls(s) THEN "asleep" ELSE Following[s]
    /\ UNCHANGED <<slots, free, buf, replies, next_poll, srcVars, awake>>

\* An empty delay queue makes DispatchQueue::poll pending without a waker.
Arms(s) == Polls(s) /\ (s = "queue" => queued # {})

\* The future at s is pending or the slot is empty: go on to the next one, and
\* after the last one give the thread back to the scheduler.
Pending(s) ==
    /\ pc = s
    /\ Polls(s) => ~Ready(s)
    /\ armed' = IF Arms(s) THEN armed \cup {s} ELSE armed
    /\ pc' = Following[s]
    /\ UNCHANGED <<slots, free, buf, replies, next_poll, srcVars, awake>>

Got == [a |-> "got_a", b |-> "got_b", c |-> "got_c", d |-> "got_d"]

\* Slip: a write future that is finished stays in its slot.
SelectKeepsWrite(s) ==
    /\ pc = s
    /\ s \in slots /\ Ready(s)
    /\ slots' = IF s = "a" THEN slots ELSE slots \ {s}
    /\ readable' = (readable /\ s # "b")
    /\ closes' = IF s = "c" THEN closes - 1 ELSE closes
    /\ updates' = IF s = "d" THEN updates - 1 ELSE updates
    /\ writable' \in IF s = "a" THEN BOOLEAN ELSE {writable}
    /\ pc' = Got[s]
    /\ UNCHANGED <<free, buf, replies, next_poll, due, queued, wakeVars>>

\* The future at s is ready: it leaves its slot, with what it waited for.  A
\* write may fill the device.
Select(s) ==
    /\ pc = s
    /\ s \in slots /\ Ready(s)
    /\ slots' = slots \ {s}
    /\ readable' = (readable /\ s # "b")
    /\ closes' = IF s = "c" THEN closes - 1 ELSE closes
    /\ updates' = IF s = "d" THEN updates - 1 ELSE updates
    /\ writable' \in IF s = "a" THEN BOOLEAN ELSE {writable}
    /\ pc' = Got[s]
    /\ UNCHANGED <<free, buf, replies, next_poll, due, queued, wakeVars>>

\* Either::Right: a deadline has passed.
Expire ==
    /\ pc = "queue" /\ Polls("queue")
    /\ \E p \in due : next_poll' = p /\ due' = due \ {p}
    /\ pc' = "top"
    /\ UNCHANGED <<slots, free, buf, replies, queued, readable, writable,
                   closes, updates, wakeVars>>

\* The scheduler polls the task again, from the first future on.
WakeUp ==
    /\ pc = "asleep" /\ awake
    /\ pc' = "a"
    /\ awake' = FALSE
    /\ UNCHANGED <<slots, free, buf, replies, next_poll, srcVars, armed>>

-----------------------------------------------------------------------------
(* What follows a selection. *)

\* Slip: the buffer is not cleared.
WrittenKeepsBuffer ==
    /\ pc = "got_a"
    /\ free' = TRUE
    /\ pc' = "yield"
    /\ UNCHANGED <<slots, buf, replies, next_poll, srcVars, wakeVars>>

\* Selected::A: the writer is free and its buffer empty.
Written ==
    /\ pc = "got_a"
    /\ free' = TRUE
    /\ buf' = NoPair
    /\ pc' = "yield"
    /\ UNCHANGED <<slots, replies, next_poll, srcVars, wakeVars>>

\* The `?` on a failed read or write.
DeviceError ==
    /\ pc \in {"got_a", "got_b"}
    /\ pc' = "exited"
    /\ UNCHANGED <<slots, free, buf, replies, next_poll, srcVars, wakeVars>>

\* Selected::B: a packet of pair p, if it is one.
Process(p) ==
    /\ pc = "got_b"
    /\ \/ UNCHANGED replies
       \/ Len(replies) < MaxReplies /\ replies' = Append(replies, p)
    /\ Reschedule(p)
    /\ Insert("b", "yield")
    /\ UNCHANGED <<free, buf, next_poll, readable, writable, closes, updates>>

\* Selected::C: drop_tcp_half may schedule the pair.
HalfDropped(p) ==
    /\ pc = "got_c"
    /\ Reschedule(p)
    /\ Insert("c", "yield")
    /\ UNCHANGED <<free, buf, replies, next_poll, readable, writable, closes,
                   updates>>

\* Selected::D: the queue takes the update.
PollUpdate(p) ==
    /\ pc = "got_d"
    /\ Reschedule(p)
    /\ Insert("d", "yield")
    /\ UNCHANGED <<free, buf, replies, next_poll, readable, writable, closes,
                   updates>>

\* tokio::task::yield_now() at the end of the body.  The poll that follows uses up
\* the wake-ups of the meantime.
Yielded ==
    /\ pc = "yield"
    /\ pc' = "top"
    /\ awake' = FALSE
    /\ UNCHANGED <<slots, free, buf, replies, next_poll, srcVars, armed>>

-----------------------------------------------------------------------------
(* Other threads, the device and the clock. *)

PacketArrives ==
    /\ ~readable
    /\ readable' = TRUE
    /\ Fire("b")
    /\ UNCHANGED <<taskVars, due, queued, writable, closes, updates>>

CloseSent ==
    /\ closes < MaxWaiting
    /\ closes' = closes + 1
    /\ Fire("c")
    /\ UNCHANGED <<taskVars, due, queued, readable, writable, updates>>

UpdateSent ==
    /\ updates < MaxWaiting
    /\ updates' = updates + 1
    /\ Fire("d")
    /\ UNCHANGED <<taskVars, due, queued, readable, writable, closes>>

DeadlinePasses(p) ==
    /\ p \in queued
    /\ queued' = queued \ {p}
    /\ due' = due \cup {p}
    /\ Fire("queue")
    /\ UNCHANGED <<taskVars, readable, writable, closes, updates>>

DeviceReady ==
    /\ ~writable
    /\ writable' = TRUE
    /\ Fire("a")
    /\ UNCHANGED <<taskVars, due, queued, readable, closes, updates>>

-----------------------------------------------------------------------------
TaskStep ==
    \/ Write \/ Dispatch \/ NothingToWrite
    \/ \E s \in Sources : Pending(s)
    \/ \E s \in Slots : Select(s)
    \/ Expire \/ WakeUp \/ Yielded \/ Written
    \/ \E p \in Pairs : Process(p) \/ HalfDropped(p) \/ PollUpdate(p)

Arrival == \/ PacketArrives \/ CloseSent \/ UpdateSent
           \/ \E p \in Pairs : DeadlinePasses(p)

EnvStep == Arrival \/ DeviceReady \/ DeviceError

Next == TaskStep \/ EnvStep

Spec == Init /\ [][Next]_ioVars

\* The scheduler polls a task that was woken, and a device that is full does not
\* stay full.
FairSpec == Spec /\ WF_ioVars(TaskStep) /\ WF_ioVars(DeviceReady)

-----------------------------------------------------------------------------
(* Properties. *)

\* Every variable has its type, and the stack of replies its bound.
IoTypeOK ==
    /\ pc \in Sources \cup {"got_a", "got_b", "got_c", "got_d"}
                      \cup {"top", "yield", "asleep", "exited", "panicked"}
    /\ slots \in SUBSET Slots
    /\ free \in BOOLEAN
    /\ buf \in Pairs \cup {NoPair}
    /\ replies \in Seq(Pairs) /\ Len(replies) <= MaxReplies
    /\ next_poll \in Pairs \cup {NoPair}
    /\ due \in SUBSET Pairs /\ queued \in SUBSET Pairs
    /\ readable \in BOOLEAN /\ writable \in BOOLEAN
    /\ closes \in 0..MaxWaiting /\ updates \in 0..MaxWaiting
    /\ armed \in SUBSET Sources
    /\ awake \in BOOLEAN

\* No assertion of the loop or of the selector fails: each future is put back
\* exactly when it was taken out, and the writer is in one place only.
AssertionsHold == pc # "panicked"

\* The loop never waits for events with a free writer and something to write.
\* Hence replies pile up only while a write is under way.
FreeWriterIsIdle ==
    pc \in Sources \cup {"asleep"} /\ free =>
        buf = NoPair /\ replies = <<>> /\ next_poll = NoPair

\* No wake-up is lost: while the task sleeps and nobody has woken it, nothing it
\* would look at is ready.
NoLostWakeUp ==
    pc = "asleep" /\ ~awake => \A s \in Sources : Polls(s) => ~Ready(s)

\* Nothing is left to do.
Idle == /\ free /\ buf = NoPair /\ replies = <<>> /\ next_poll = NoPair
        /\ due = {} /\ ~readable /\ closes = 0 /\ updates = 0

\* A dispatch that makes its own pair due again.
Redispatch == Dispatch /\ ~(due' \subseteq due)

\* Once nothing new arrives, everything that has arrived is handled and written,
\* with futures that are polled in a fixed order and replies that go first.
EverythingIsServed ==
    <>[][~(Arrival \/ Redispatch)]_ioVars => <>[](Idle \/ pc = "exited")

=============================================================================
