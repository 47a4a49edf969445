-------------------------------- MODULE Clock --------------------------------
(***************************************************************************)
(* The three clocks of a deadline.  Time passes in ticks, finer than the   *)
(* milliseconds of the socket and of tokio's delay queue; the latter       *)
(* counts from the moment the queue was made, which is after the start     *)
(* time of the crate's Clock.  A connection that nobody holds is removed   *)
(* as finished if it is dispatched before its own deadline, so the         *)
(* roundings must never make the queue early.                              *)
(*                                                                         *)
(* A "Slip" is a plausible mistake to be put in the place of the           *)
(* definition that follows it.                                             *)
(***************************************************************************)
EXTENDS Integers

CONSTANTS TicksPerMilli, MillisPerSecond,
          Delays,       \* how far ahead a socket sets its timer, in milliseconds
          MaxTicks      \* bound: the last tick

ASSUME ClockAssumption ==
    /\ TicksPerMilli \in Nat \ {0} /\ MillisPerSecond \in Nat \ {0}
    /\ Delays \subseteq Nat
    /\ MaxTicks \in Nat

None == -1

\* PollAt
Asks == [kind : {"Time"}, delay : Delays] \cup [kind : {"Now", "Ingress"}, delay : {0}]

VARIABLES now,      \* the monotonic clock, in ticks since Clock::start_time
          made,     \* when the DelayQueue was made, its own start
          wheel,    \* milliseconds since then to which the wheel has advanced
          timer,    \* the socket's timer, in milliseconds of its timestamps
          slot,     \* the millisecond of the wheel that holds the pair, or None
          next,     \* whether the pair is the one to dispatch (next_poll)
          doing,    \* "process" or "dispatch" after the timestamp was taken
          stamp,    \* that timestamp
          outcome   \* what the last dispatch found

clockVars == <<now, made, wheel, timer, slot, next, doing, stamp, outcome>>

-----------------------------------------------------------------------------
(* Conversions. *)

Second == TicksPerMilli * MillisPerSecond

\* Duration::as_secs and Duration::subsec_millis.
as_secs(t) == t \div Second
subsec_millis(t) == (t % Second) \div TicksPerMilli

\* Slip: only the part below a second is looked at.
timestamp_subsec(t) == subsec_millis(t)

timestamp(t) == as_secs(t) * MillisPerSecond + subsec_millis(t)

origin == 0

\* Slip: a timestamp is resolved from the present.
resolve_from_now(millis) == now + millis * TicksPerMilli

resolve(millis) == origin + millis * TicksPerMilli

\* How tokio's queue takes an instant: rounded up to its milliseconds, and never
\* into the part of the wheel that is over.
SlotOf(instant) ==
    LET when == IF instant < made THEN 0
                ELSE (instant - made + TicksPerMilli - 1) \div TicksPerMilli
    IN  IF when < wheel THEN wheel ELSE when

\* The wheel's present, rounded down.
WheelNow == (now - made) \div TicksPerMilli

-----------------------------------------------------------------------------
(* Actions. *)

\* io_loop makes the clock, then the queue.
Init ==
    /\ made \in 0..(2 * TicksPerMilli - 1)
    /\ now = made
    /\ wheel = 0 /\ slot = None
    /\ timer = None /\ next = FALSE
    /\ doing = "select" /\ stamp = 0
    /\ outcome = "none"

\* SocketPool::process and SocketPool::dispatch take the timestamp before they
\* await: room for a new stream, or the lock of the connection.
Begin(what) ==
    /\ doing = "select"
    /\ what = "dispatch" => next
    /\ doing' = what
    /\ stamp' = timestamp(now)
    /\ next' = (next /\ what # "dispatch")
    /\ UNCHANGED <<now, made, wheel, timer, slot, outcome>>

\* What the socket asks for is sent to the queue: to be polled d milliseconds
\* after the timestamp it was given (PollAt::Time), at once (PollAt::Now), or not
\* at all (PollAt::Ingress).  Poll updates that are overtaken on their way are in
\* Ustunet.
Send(ask) ==
    /\ timer' = CASE ask.kind = "Time" -> stamp + ask.delay
                  [] ask.kind = "Now" -> stamp
                  [] ask.kind = "Ingress" -> None
    /\ slot' = CASE ask.kind = "Time" -> SlotOf(resolve(timer'))
                 [] ask.kind = "Now" -> SlotOf(origin)
                 [] ask.kind = "Ingress" -> slot

\* Connection::process.
Process(ask) ==
    /\ doing = "process"
    /\ Send(ask)
    /\ doing' = "select"
    /\ UNCHANGED <<now, made, wheel, next, stamp, outcome>>

\* Connection::dispatch.  A timer that was not set anew since the pair was handed
\* out must have expired by the timestamp.
Dispatch(ask) ==
    /\ doing = "dispatch"
    /\ outcome' = IF slot # None THEN "moved"
                  ELSE IF stamp >= timer THEN "expired" ELSE "exhausted"
    /\ Send(ask)
    /\ doing' = "select"
    /\ UNCHANGED <<now, made, wheel, next, stamp>>

\* The delay queue is polled: the wheel advances to the present, and hands the
\* pair out if it has passed the slot.
Poll ==
    /\ doing = "select" /\ ~next
    /\ wheel' = WheelNow
    /\ next' = (slot # None /\ slot <= WheelNow)
    /\ slot' = IF next' THEN None ELSE slot
    /\ UNCHANGED <<now, made, timer, doing, stamp, outcome>>

Tick ==
    /\ now < MaxTicks
    /\ now' = now + 1
    /\ UNCHANGED <<made, wheel, timer, slot, next, doing, stamp, outcome>>

Next ==
    \/ \E what \in {"process", "dispatch"} : Begin(what)
    \/ \E ask \in Asks : Process(ask) \/ Dispatch(ask)
    \/ Poll \/ Tick

Spec == Init /\ [][Next]_clockVars

-----------------------------------------------------------------------------
(* Properties. *)

\* The queue is never early: a pair that it hands out has a timer that is over by
\* the socket's own timestamps, so the dispatch is not Exhausted and
\* Connection::dispatch does not take the connection for a finished one.
NeverEarly == outcome # "exhausted"

\* The queue is late by less than a millisecond, the unit of both conversions: a
\* timer that was over a millisecond ago is in a slot that the wheel may hand out.
NeverLate ==
    slot # None /\ timer # None /\ timestamp(now) > timer => slot <= WheelNow

=============================================================================
