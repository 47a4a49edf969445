---------------------------- MODULE IoLoopProofs -----------------------------
(***************************************************************************)
(* The assertions of the I/O task hold and no wake-up of it is lost, for   *)
(* any pairs and any bounds.  The inductive invariant adds to the          *)
(* properties where each future is, and what is known of the futures that  *)
(* were polled before the place at which the poll is.                      *)
(***************************************************************************)
EXTENDS IoLoop, TLAPS

\* Each future is in its slot except while its result is handled, and the write
\* future is there as long as the writer is not free.
SlotsInv ==
    pc # "exited" =>
        /\ "b" \in slots <=> pc # "got_b"
        /\ "c" \in slots <=> pc # "got_c"
        /\ "d" \in slots <=> pc # "got_d"
        /\ "a" \in slots <=> ~free /\ pc # "got_a"
        /\ pc = "got_a" => ~free

\* A buffer that is not travelling is empty.
FreeIsEmpty == free => buf = NoPair

\* The sources that were polled before the poll came to pc.
Passed(place) ==
    CASE place = "b" -> {"a"}
      [] place = "c" -> {"a", "b"}
      [] place = "d" -> {"a", "b", "c"}
      [] place = "queue" -> Slots
      [] place = "asleep" -> Sources
      [] OTHER -> {}

\* A source that was polled is not ready and holds the waker, unless it is the
\* delay queue and empty; or some source has used the waker.
Waits(s) == ~Ready(s) /\ (s \in armed \/ (s = "queue" /\ queued = {}))

WakersInv == awake \/ \A s \in Passed(pc) : Polls(s) => Waits(s)

ControlInv == AssertionsHold /\ FreeWriterIsIdle /\ SlotsInv /\ FreeIsEmpty

IoInv == IoTypeOK /\ ControlInv /\ WakersInv

-----------------------------------------------------------------------------
LEMMA IoInvInit == Init => IoInv
<1> SUFFICES ASSUME Init PROVE IoInv
  OBVIOUS
<1>1. IoTypeOK
  <2>1. slots \in SUBSET Slots /\ armed \in SUBSET Sources /\ due \in SUBSET Pairs
        /\ queued \in SUBSET Pairs
    BY DEF Init, Slots, Sources
  <2>2. replies \in Seq(Pairs) /\ Len(replies) <= MaxReplies
    BY IoLoopAssumption DEF Init
  <2>3. closes \in 0..MaxWaiting /\ updates \in 0..MaxWaiting
    BY IoLoopAssumption DEF Init
  <2> QED BY <2>1, <2>2, <2>3 DEF Init, IoTypeOK
<1>2. SlotsInv
  BY DEF Init, SlotsInv, Got
<1>3. WakersInv
  BY DEF Init, WakersInv, Passed
<1> QED BY <1>1, <1>2, <1>3 
        DEF Init, IoInv, ControlInv, AssertionsHold, FreeWriterIsIdle, FreeIsEmpty,
            Sources, Slots

\* Using a waker keeps the types of the wakers.
LEMMA FireType ==
    ASSUME IoTypeOK, NEW s \in Sources, Fire(s)
    PROVE  armed' \in SUBSET Sources /\ awake' \in BOOLEAN
  BY DEF IoTypeOK, Fire

\* So does a pair that becomes due.
LEMMA RescheduleType ==
    ASSUME IoTypeOK, NEW p \in Pairs, Reschedule(p)
    PROVE  /\ due' \in SUBSET Pairs /\ queued' \in SUBSET Pairs
           /\ armed' \in SUBSET Sources /\ awake' \in BOOLEAN
<1>1. due' \in SUBSET Pairs /\ queued' \in SUBSET Pairs
  BY DEF Reschedule, IoTypeOK
<1>2. CASE Fire("queue")
  BY <1>1, <1>2, FireType DEF Sources
<1>3. CASE UNCHANGED wakeVars
  BY <1>1, <1>3 DEF IoTypeOK, wakeVars
<1> QED BY <1>2, <1>3 DEF Reschedule

\* Types are preserved by each action.
LEMMA TypeStep == IoTypeOK /\ [Next]_ioVars => IoTypeOK'
<1> SUFFICES ASSUME IoTypeOK, [Next]_ioVars PROVE IoTypeOK'
  OBVIOUS
<1> USE IoLoopAssumption DEF IoTypeOK, Slots, Sources, Got, srcVars, wakeVars, taskVars
<1>1. CASE Write
  <2>1. replies # <<>> => Last(replies) \in Pairs /\ Front(replies) \in Seq(Pairs)
                          /\ Len(Front(replies)) <= MaxReplies
    BY DEF Last, Front
  <2> QED BY <1>1, <2>1 DEF Write, Insert, Reach
<1>2. CASE Dispatch
  <2>1. next_poll \in Pairs
    BY <1>2 DEF Dispatch
  <2>2. due' \in SUBSET Pairs /\ queued' \in SUBSET Pairs
        /\ armed' \in SUBSET Sources /\ awake' \in BOOLEAN
    BY <1>2, <2>1, RescheduleType DEF Dispatch
  <2>3. pc' \in {"a", "panicked"} /\ slots' \in SUBSET Slots
    BY <1>2 DEF Dispatch, Insert, Reach
  <2>4. buf' \in Pairs \cup {NoPair} /\ free' \in BOOLEAN
    BY <1>2, <2>1 DEF Dispatch
  <2>5. "a" \in Sources
    OBVIOUS
  <2> HIDE DEF Sources, Slots
  <2> QED BY <1>2, <2>1, <2>2, <2>3, <2>4, <2>5 DEF Dispatch
<1>3. CASE NothingToWrite
  BY <1>3 DEF NothingToWrite, Reach
<1>4. ASSUME NEW s \in Sources, Pending(s) PROVE IoTypeOK'
  BY <1>4 DEF Pending, Following
<1>5. ASSUME NEW s \in Slots, Select(s) PROVE IoTypeOK'
  <2>1. closes' \in 0..MaxWaiting /\ updates' \in 0..MaxWaiting
    <3>1. s = "c" => closes > 0
      BY <1>5 DEF Select, Ready
    <3>2. s = "d" => updates > 0
      BY <1>5 DEF Select, Ready
    <3>3. closes' \in 0..MaxWaiting
      BY <1>5, <3>1 DEF Select
    <3>4. updates' \in 0..MaxWaiting
      BY <1>5, <3>2 DEF Select
    <3> QED BY <3>3, <3>4
  <2>2. pc' \in {"got_a", "got_b", "got_c", "got_d"} /\ slots' \in SUBSET Slots
    BY <1>5 DEF Select
  <2>3. readable' \in BOOLEAN
    BY <1>5 DEF Select
  <2>4. writable' \in BOOLEAN
    BY <1>5 DEF Select
  <2> HIDE DEF Sources, Slots
  <2> QED BY <1>5, <2>1, <2>2, <2>3, <2>4 DEF Select
<1>6. CASE Expire
  BY <1>6 DEF Expire
<1>7. CASE WakeUp \/ Yielded \/ Written
  BY <1>7 DEF WakeUp, Yielded, Written
<1>8. ASSUME NEW p \in Pairs, Process(p) PROVE IoTypeOK'
  <2>1. due' \in SUBSET Pairs /\ queued' \in SUBSET Pairs
        /\ armed' \in SUBSET Sources /\ awake' \in BOOLEAN
    BY <1>8, RescheduleType DEF Process
  <2>2. replies' \in Seq(Pairs) /\ Len(replies') <= MaxReplies
    BY <1>8 DEF Process
  <2> HIDE DEF Sources
  <2> QED BY <1>8, <2>1, <2>2 DEF Process, Insert
<1>9. ASSUME NEW p \in Pairs, HalfDropped(p) \/ PollUpdate(p) PROVE IoTypeOK'
  <2>1. due' \in SUBSET Pairs /\ queued' \in SUBSET Pairs
        /\ armed' \in SUBSET Sources /\ awake' \in BOOLEAN
    BY <1>9, RescheduleType DEF HalfDropped, PollUpdate
  <2> HIDE DEF Sources
  <2> QED BY <1>9, <2>1 DEF HalfDropped, PollUpdate, Insert
<1>10. CASE Arrival
  <2>1. armed' \in SUBSET Sources /\ awake' \in BOOLEAN
    BY <1>10, FireType DEF Arrival, PacketArrives, CloseSent, UpdateSent, DeadlinePasses
  <2> HIDE DEF Sources, Slots
  <2>2. CASE PacketArrives
    BY <2>1, <2>2 DEF PacketArrives
  <2>3. CASE CloseSent \/ UpdateSent
    <3>1. closes' \in 0..MaxWaiting /\ updates' \in 0..MaxWaiting
      BY <2>3 DEF CloseSent, UpdateSent
    <3> QED BY <2>1, <2>3, <3>1 DEF CloseSent, UpdateSent
  <2>4. ASSUME NEW p \in Pairs, DeadlinePasses(p) PROVE IoTypeOK'
    BY <2>1, <2>4 DEF DeadlinePasses
  <2> QED BY <1>10, <2>2, <2>3, <2>4 DEF Arrival
<1>11. CASE DeviceReady \/ DeviceError
  <2>1. armed' \in SUBSET Sources /\ awake' \in BOOLEAN
    BY <1>11, FireType DEF DeviceReady, DeviceError
  <2> QED BY <1>11, <2>1 DEF DeviceReady, DeviceError
<1>12. CASE UNCHANGED ioVars
  BY <1>12 DEF ioVars
<1> QED BY <1>1, <1>2, <1>3, <1>4, <1>5, <1>6, <1>7, <1>8, <1>9, <1>10, <1>11, <1>12
        DEF Next, TaskStep, EnvStep

-----------------------------------------------------------------------------
(* The slots. *)

\* Each step leaves the futures and the writer where SlotsInv says they are.
LEMMA ControlStep == IoTypeOK /\ ControlInv /\ [Next]_ioVars => ControlInv'
<1> SUFFICES ASSUME IoTypeOK, ControlInv, [Next]_ioVars PROVE ControlInv'
  OBVIOUS
<1>0. pc # "exited" => "b" \in slots <=> pc # "got_b"
  BY DEF ControlInv, SlotsInv
<1> USE DEF ControlInv, AssertionsHold, FreeWriterIsIdle, SlotsInv, FreeIsEmpty, Slots, Sources
<1>1. CASE Write
  BY <1>1 DEF Write, Insert, Reach
<1>2. CASE Dispatch
  BY <1>2 DEF Dispatch, Insert, Reach
<1>3. CASE NothingToWrite
  BY <1>3 DEF NothingToWrite, Reach
<1>4. ASSUME NEW s \in Sources, Pending(s) PROVE ControlInv'
  BY <1>4 DEF Pending, Following
<1>5. ASSUME NEW s \in Slots, Select(s) PROVE ControlInv'
  BY <1>5 DEF Select, Got
<1>6. CASE Expire
  BY <1>6 DEF Expire
<1>7. CASE WakeUp \/ Yielded \/ Written
  BY <1>7 DEF WakeUp, Yielded, Written
<1>8. ASSUME NEW p \in Pairs, Process(p) PROVE ControlInv'
  BY <1>8 DEF Process, Insert
<1>9. ASSUME NEW p \in Pairs, HalfDropped(p) \/ PollUpdate(p) PROVE ControlInv'
  BY <1>9 DEF HalfDropped, PollUpdate, Insert
<1>10. CASE UNCHANGED taskVars
  BY <1>10 DEF taskVars
<1>11. CASE DeviceError
  BY <1>11 DEF DeviceError
<1>12. Arrival \/ DeviceReady \/ UNCHANGED ioVars => UNCHANGED taskVars
  BY DEF Arrival, PacketArrives, CloseSent, UpdateSent, DeadlinePasses, DeviceReady, ioVars
<1> QED BY <1>1, <1>2, <1>3, <1>4, <1>5, <1>6, <1>7, <1>8, <1>9, <1>10, <1>11, <1>12
        DEF Next, TaskStep, EnvStep

-----------------------------------------------------------------------------
(* The wakers. *)

\* Nothing that is polled is used by a step that happens elsewhere.
LEMMA WakersStep == IoTypeOK /\ WakersInv /\ [Next]_ioVars => WakersInv'
<1> SUFFICES ASSUME IoTypeOK, WakersInv, [Next]_ioVars PROVE WakersInv'
  OBVIOUS
<1>0. Passed(pc) \subseteq Sources
  BY DEF Passed, Sources, Slots
<1>1. ASSUME Passed(pc') = {} PROVE WakersInv'
  BY <1>1 DEF WakersInv
<1>2. ASSUME NEW s \in Sources, Pending(s) PROVE WakersInv'
  <2>1. CASE awake
    BY <1>2, <2>1 DEF Pending, WakersInv
  <2>2. CASE ~awake
    <3>1. Passed(pc') = Passed(pc) \cup {s}
      BY <1>2 DEF Pending, Following, Passed, Sources, Slots
    <3>2. \A t \in Sources : Polls(t)' = Polls(t) /\ Ready(t)' = Ready(t)
      BY <1>2 DEF Pending, Polls, Ready, srcVars
    <3>3. armed \subseteq armed' /\ queued' = queued
      BY <1>2 DEF Pending, srcVars
    <3>4. \A t \in Passed(pc) : Polls(t) => Waits(t)
      BY <2>2 DEF WakersInv
    <3>5. \A t \in Passed(pc) : Polls(t)' => Waits(t)'
      BY <1>0, <3>2, <3>3, <3>4 DEF Waits
    <3>6. Polls(s) => ~Ready(s) /\ (s \in armed' \/ (s = "queue" /\ queued = {}))
      BY <1>2 DEF Pending, Arms
    <3>7. Polls(s)' => Waits(s)'
      BY <3>2, <3>3, <3>6 DEF Waits
    <3> QED BY <3>1, <3>5, <3>7 DEF WakersInv
  <2> QED BY <2>1, <2>2
<1>3. ASSUME NEW s \in Sources, Fire(s), UNCHANGED taskVars, s = "queue" => queued # {},
             \A t \in Sources \ {s} : Ready(t)' = Ready(t),
             s # "queue" => queued' = queued
      PROVE  WakersInv'
  <2>1. CASE awake'
    BY <2>1 DEF WakersInv
  <2>2. CASE ~awake'
    <3>1. ~awake /\ s \notin armed
      BY <1>3, <2>2 DEF Fire
    <3>2. armed' = armed
      BY <1>3, <3>1 DEF Fire
    <3>3. \A t \in Passed(pc) : Polls(t) => Waits(t)
      BY <3>1 DEF WakersInv
    <3>4. \A t \in Sources : Polls(t)' = Polls(t)
      BY <1>3 DEF Polls, taskVars
    <3>5. s \in Passed(pc) => ~Polls(s)
      BY <1>3, <3>1, <3>3 DEF Waits
    <3>6. \A t \in Passed(pc) : Polls(t) => Waits(t)'
      BY <1>0, <1>3, <3>2, <3>3, <3>5 DEF Waits
    <3>7. pc' = pc
      BY <1>3 DEF taskVars
    <3> QED BY <1>0, <3>4, <3>6, <3>7 DEF WakersInv
  <2> QED BY <2>1, <2>2
<1>4. PacketArrives => WakersInv'
  BY <1>3 DEF PacketArrives, Ready, Sources, Slots
<1>5. CloseSent => WakersInv'
  BY <1>3 DEF CloseSent, Ready, Sources, Slots
<1>6. UpdateSent => WakersInv'
  BY <1>3 DEF UpdateSent, Ready, Sources, Slots
<1>7. \A p \in Pairs : DeadlinePasses(p) => WakersInv'
  BY <1>3 DEF DeadlinePasses, Ready, Sources, Slots
<1>8. DeviceReady => WakersInv'
  BY <1>3 DEF DeviceReady, Ready, Sources, Slots
<1>9. CASE UNCHANGED ioVars
  <2>1. \A t : Polls(t)' = Polls(t) /\ Waits(t)' = Waits(t)
    BY <1>9 DEF Polls, Waits, Ready, ioVars, taskVars, srcVars, wakeVars
  <2> QED BY <1>9, <2>1 DEF WakersInv, ioVars, taskVars, wakeVars
<1>10. Write \/ Dispatch \/ NothingToWrite \/ Expire \/ WakeUp \/ Yielded \/ Written
          \/ DeviceError => Passed(pc') = {}
  BY DEF Write, Dispatch, NothingToWrite, Expire, WakeUp, Yielded, Written, DeviceError,
         Insert, Reach, Passed
<1>11. \A s \in Slots : Select(s) => Passed(pc') = {}
  BY DEF Select, Got, Slots, Passed
<1>12. \A p \in Pairs : Process(p) \/ HalfDropped(p) \/ PollUpdate(p) => Passed(pc') = {}
  BY DEF Process, HalfDropped, PollUpdate, Insert, Passed
<1> QED BY <1>1, <1>2, <1>4, <1>5, <1>6, <1>7, <1>8, <1>9, <1>10, <1>11, <1>12
        DEF Next, TaskStep, EnvStep, Arrival

-----------------------------------------------------------------------------
(* Theorems. *)

LEMMA IoInvStep == IoInv /\ [Next]_ioVars => IoInv'
  BY TypeStep, ControlStep, WakersStep DEF IoInv

\* Every variable of the I/O task has its type, for any pairs and bounds.
THEOREM IoTypeTheorem == Spec => []IoTypeOK
<1>1. IoInv => IoTypeOK
  BY DEF IoInv
<1> QED BY <1>1, IoInvInit, IoInvStep, PTL DEF Spec

\* No assertion of the loop or of the selector ever fails.
THEOREM AssertionsTheorem == Spec => []AssertionsHold
<1>1. IoInv => AssertionsHold
  BY DEF IoInv, ControlInv
<1> QED BY <1>1, IoInvInit, IoInvStep, PTL DEF Spec

\* A free writer is never left idle beside replies or a pair to dispatch.
THEOREM FreeWriterTheorem == Spec => []FreeWriterIsIdle
<1>1. IoInv => FreeWriterIsIdle
  BY DEF IoInv, ControlInv
<1> QED BY <1>1, IoInvInit, IoInvStep, PTL DEF Spec

\* The task never sleeps through an event, wherever in the poll it happened.
THEOREM WakeUpTheorem == Spec => []NoLostWakeUp
<1>1. IoInv => NoLostWakeUp
  BY DEF IoInv, WakersInv, Waits, NoLostWakeUp, Passed
<1> QED BY <1>1, IoInvInit, IoInvStep, PTL DEF Spec

=============================================================================
