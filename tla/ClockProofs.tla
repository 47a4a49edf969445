----------------------------- MODULE ClockProofs -----------------------------
(***************************************************************************)
(* The roundings of a deadline for every length of a tick, a millisecond   *)
(* and a second, every offset of the two clocks and every delay.           *)
(***************************************************************************)
EXTENDS Clock, TLAPS

-----------------------------------------------------------------------------
(* Division. *)

\* Rounding down loses less than the divisor.
LEMMA Division ==
    ASSUME NEW k \in Nat \ {0}, NEW t \in Nat
    PROVE  /\ t \div k \in Nat
           /\ k * (t \div k) <= t /\ t < k * (t \div k) + k
  OBVIOUS

\* A multiple that is not more than the dividend is not more than the quotient.
LEMMA Quotient ==
    ASSUME NEW k \in Nat \ {0}, NEW t \in Nat, NEW a \in Int, k * a <= t
    PROVE  a <= t \div k
<1> DEFINE q == t \div k
<1>1. q \in Nat /\ t < k * q + k
  BY Division
<1> HIDE DEF q
<1>2. k * a < k * q + k
  BY <1>1
<1>3. a <= q
  BY <1>1, <1>2
<1> QED BY <1>3 DEF q

\* The quotient is the only number whose multiple is within the divisor.
LEMMA QuotientUnique ==
    ASSUME NEW k \in Nat \ {0}, NEW t \in Nat, NEW a \in Nat,
           k * a <= t, t < k * a + k
    PROVE  t \div k = a
<1> DEFINE q == t \div k
<1>1. q \in Nat /\ k * q <= t /\ t < k * q + k
  BY Division
<1> HIDE DEF q
<1>2. k * a < k * q + k /\ k * q < k * a + k
  BY <1>1
<1>3. a <= q
  BY <1>1, <1>2
<1>4. q <= a
  BY <1>1, <1>2
<1> QED BY <1>1, <1>3, <1>4 DEF q

\* Later instants have later quotients.
LEMMA QuotientGrows ==
    ASSUME NEW k \in Nat \ {0}, NEW s \in Nat, NEW t \in Nat, s <= t
    PROVE  s \div k <= t \div k
<1>1. s \div k \in Nat /\ k * (s \div k) <= s
  BY Division
<1> DEFINE q == s \div k
<1> HIDE DEF q
<1>2. k * q <= t
  BY <1>1 DEF q
<1> QED BY <1>1, <1>2, Quotient DEF q

\* Clock::timestamp, which takes the seconds and the milliseconds of a duration
\* apart and puts them together again, is the number of whole milliseconds.
LEMMA TimestampIsMillis ==
    ASSUME NEW t \in Nat
    PROVE  timestamp(t) = t \div TicksPerMilli /\ timestamp(t) \in Nat
<1> DEFINE k == TicksPerMilli
           m == MillisPerSecond
           s == t \div (k * m)
           r == t % (k * m)
           q == r \div k
<1>1. k \in Nat \ {0} /\ m \in Nat \ {0}
  BY ClockAssumption
<1>2. timestamp(t) = s * m + q
  BY DEF timestamp, as_secs, subsec_millis, Second
<1> HIDE DEF k, m
<1>3. k * m \in Nat \ {0}
  BY <1>1
<1>4. s \in Nat /\ r \in Nat /\ t = (k * m) * s + r
  <2> DEFINE n == k * m
  <2>1. n \in Nat \ {0}
    BY <1>3
  <2> HIDE DEF n
  <2>2. t \div n \in Nat /\ t % n \in Nat /\ t = n * (t \div n) + (t % n)
    BY <2>1
  <2> QED BY <2>2 DEF n
<1> HIDE DEF s, r
<1>5. q \in Nat /\ k * q <= r /\ r < k * q + k
  BY <1>1, <1>4, Division
<1> HIDE DEF q
<1> DEFINE a == s * m + q
<1>6. a \in Nat /\ k * a = (k * m) * s + k * q
  BY <1>1, <1>4, <1>5
<1> HIDE DEF a
<1>7. k * a <= t /\ t < k * a + k
  <2>1. k * q \in Nat /\ (k * m) * s \in Nat
    BY <1>1, <1>3, <1>4, <1>5
  <2> QED BY <1>1, <1>4, <1>5, <1>6, <2>1
<1>8. t \div k = a
  BY <1>1, <1>6, <1>7, QuotientUnique
<1> QED BY <1>2, <1>6, <1>8 DEF a, k

\* A timestamp never goes back.
LEMMA TimestampGrows ==
    ASSUME NEW s \in Nat, NEW t \in Nat, s <= t
    PROVE  timestamp(s) <= timestamp(t)
  BY QuotientGrows, TimestampIsMillis, ClockAssumption

\* The instant of a deadline, in ticks.
Ticks(millis) == millis * TicksPerMilli

\* A deadline of whole milliseconds has passed exactly if the timestamp says so.
LEMMA PassedByTimestamp ==
    ASSUME NEW t \in Nat, NEW m \in Nat
    PROVE  /\ Ticks(m) <= t => m <= timestamp(t)
           /\ timestamp(t) > m => Ticks(m) + TicksPerMilli <= t
<1> DEFINE k == TicksPerMilli
           q == t \div k
<1>1. k \in Nat \ {0}
  BY ClockAssumption
<1>2. timestamp(t) = q
  BY TimestampIsMillis
<1>3. q \in Nat /\ k * q <= t
  BY <1>1, Division
<1>4. ASSUME m * k <= t PROVE m <= q
  BY <1>1, <1>4, Quotient
<1> HIDE DEF q, k
<1>5. ASSUME q > m PROVE m * k + k <= t
  <2>1. m + 1 <= q
    BY <1>3, <1>5
  <2>2. k * (m + 1) <= k * q
    BY <1>1, <1>3, <2>1
  <2>3. k * (m + 1) = m * k + k
    BY <1>1
  <2>4. k * q \in Nat /\ m * k \in Nat
    BY <1>1, <1>3
  <2> QED BY <1>1, <1>3, <2>2, <2>3, <2>4
<1> QED BY <1>2, <1>4, <1>5 DEF Ticks, k

\* The slot of an instant is not before it, and less than a millisecond after it
\* unless the wheel is already there.
LEMMA SlotBounds ==
    ASSUME made \in Nat, wheel \in Nat, NEW instant \in Nat
    PROVE  LET s == SlotOf(instant)
           IN  /\ s \in Nat
               /\ instant <= made + Ticks(s)
               /\ s = wheel \/ s = 0 \/ made + Ticks(s) < instant + TicksPerMilli
<1> DEFINE k == TicksPerMilli
           d == instant - made + k - 1
           w == IF instant < made THEN 0 ELSE d \div k
           s == IF w < wheel THEN wheel ELSE w
<1>1. k \in Nat \ {0}
  BY ClockAssumption
<1>2. SlotOf(instant) = s
  BY DEF SlotOf
<1>3. w \in Nat /\ instant <= made + w * k /\ (w = 0 \/ made + w * k < instant + k)
  <2>1. CASE instant < made
    BY <1>1, <2>1
  <2>2. CASE ~(instant < made)
    <3>1. d \in Nat
      BY <1>1, <2>2
    <3> DEFINE q == d \div k
    <3>2. q \in Nat /\ k * q <= d /\ d < k * q + k
      BY <1>1, <3>1, Division
    <3>3. w = q
      BY <2>2
    <3> HIDE DEF q, w
    <3>4. k * q = q * k /\ q * k \in Nat
      BY <1>1, <3>2
    <3> QED BY <1>1, <3>2, <3>3, <3>4
  <2> QED BY <2>1, <2>2
<1> HIDE DEF w
<1>4. w <= s /\ s \in Nat /\ (s = wheel \/ s = w)
  BY <1>3
<1> HIDE DEF s, k
<1>5. w * k <= s * k /\ w * k \in Nat /\ s * k \in Nat
  BY <1>1, <1>3, <1>4
<1>6. instant <= made + s * k
  BY <1>3, <1>5
<1> QED BY <1>2, <1>3, <1>4, <1>6 DEF Ticks, k

-----------------------------------------------------------------------------
(* The inductive invariant. *)

\* Every variable has its type.
ClockTypes ==
    /\ now \in Nat /\ made \in Nat /\ wheel \in Nat /\ stamp \in Nat
    /\ timer \in Nat \cup {None} /\ slot \in Nat \cup {None}
    /\ next \in BOOLEAN /\ doing \in {"select", "process", "dispatch"}

\* The wheel and the last timestamp are not ahead of the clock.
Past == made <= now /\ wheel <= WheelNow /\ stamp <= timestamp(now)

\* The slot is not before the timer, unless the timer is over.
NotBefore == slot # None /\ timer # None =>
                \/ timer <= timestamp(now)
                \/ Ticks(timer) <= made + Ticks(slot)

\* The slot is less than a millisecond after the timer, unless it is over.
NotAfter == slot # None /\ timer # None =>
               \/ slot <= WheelNow
               \/ made + Ticks(slot) < Ticks(timer) + TicksPerMilli

\* The timer of a pair that was handed out is over, and stays so until the
\* dispatch, unless it was set anew and the pair is queued again.
HandedOut == /\ next /\ slot = None => timer <= timestamp(now)
             /\ doing = "dispatch" /\ slot = None => timer <= stamp

ClockInv == ClockTypes /\ Past /\ NotBefore /\ NotAfter /\ HandedOut /\ NeverEarly

\* What the wheel's present says of the clock.
LEMMA WheelNowBounds ==
    ASSUME now \in Nat, made \in Nat, made <= now
    PROVE  /\ WheelNow \in Nat
           /\ made + Ticks(WheelNow) <= now
           /\ \A s \in Nat : made + Ticks(s) <= now => s <= WheelNow
<1> DEFINE k == TicksPerMilli
           q == (now - made) \div k
<1>1. k \in Nat \ {0} /\ now - made \in Nat
  BY ClockAssumption
<1>2. WheelNow = q
  BY DEF WheelNow
<1>3. q \in Nat /\ k * q <= now - made
  BY <1>1, Division
<1>4. ASSUME NEW s \in Nat, made + s * k <= now PROVE s <= q
  <2>1. k * s <= now - made
    BY <1>1, <1>4
  <2> QED BY <1>1, <2>1, Quotient
<1> HIDE DEF q, k
<1>5. made + q * k <= now
  <2>1. k * q = q * k /\ q * k \in Nat
    BY <1>1, <1>3
  <2> QED BY <1>3, <2>1
<1> QED BY <1>2, <1>3, <1>4, <1>5 DEF Ticks, k

\* The clocks start together with nothing queued.
LEMMA InitClock == Init => ClockInv
<1> SUFFICES ASSUME Init PROVE ClockInv
  OBVIOUS
<1> USE DEF Init
<1>1. made \in Nat /\ now = made
  BY ClockAssumption
<1>2. WheelNow \in Nat
  BY <1>1, WheelNowBounds
<1>3. timestamp(now) \in Nat
  BY <1>1, TimestampIsMillis
<1>4. ClockTypes
  BY <1>1 DEF ClockTypes
<1>5. Past
  BY <1>1, <1>2, <1>3 DEF Past
<1>6. NotBefore /\ NotAfter /\ HandedOut /\ NeverEarly
  BY DEF NotBefore, NotAfter, HandedOut, NeverEarly
<1> QED BY <1>4, <1>5, <1>6 DEF ClockInv

\* What a socket asks for goes into a slot that is neither before its timer nor a
\* millisecond after it.
LEMMA SendClock ==
    ASSUME ClockInv, NEW ask \in Asks, Send(ask), UNCHANGED <<now, made, wheel>>
    PROVE  /\ timer' \in Nat \cup {None} /\ slot' \in Nat \cup {None}
           /\ NotBefore' /\ NotAfter'
           /\ slot' = None => timer' = None
<1> USE DEF ClockInv, ClockTypes, Past
<1>1. WheelNow' = WheelNow /\ timestamp(now)' = timestamp(now) /\ made' = made
  BY DEF WheelNow, timestamp, as_secs, subsec_millis
<1>2. /\ WheelNow \in Nat /\ timestamp(now) \in Nat
      /\ stamp <= timestamp(now) /\ wheel <= WheelNow
  BY WheelNowBounds, TimestampIsMillis
<1>3. CASE ask.kind = "Time"
  <2> DEFINE i == resolve(timer')
             s == SlotOf(i)
  <2>1. timer' = stamp + ask.delay /\ slot' = s /\ ask.delay \in Nat
    BY <1>3, ClockAssumption DEF Send, Asks
  <2>2. timer' \in Nat /\ i = Ticks(timer') /\ i \in Nat
    BY <2>1, ClockAssumption DEF resolve, origin, Ticks
  <2> HIDE DEF i
  <2>3. /\ s \in Nat /\ i <= made + Ticks(s)
        /\ s = wheel \/ s = 0 \/ made + Ticks(s) < i + TicksPerMilli
    BY <2>2, SlotBounds
  <2> HIDE DEF s
  <2>4. slot' # None
    BY <2>1, <2>3 DEF None
  <2>5. Ticks(timer)' = Ticks(timer') /\ Ticks(slot)' = Ticks(s)
    BY <2>1 DEF Ticks
  <2>6. NotBefore'
    BY <1>1, <2>2, <2>3, <2>5 DEF NotBefore
  <2>7. NotAfter'
    BY <1>1, <1>2, <2>1, <2>2, <2>3, <2>5 DEF NotAfter
  <2> QED BY <2>1, <2>2, <2>3, <2>4, <2>6, <2>7
<1>4. CASE ask.kind = "Now"
  <2> DEFINE s == SlotOf(origin)
  <2>1. timer' = stamp /\ slot' = s
    BY <1>4 DEF Send
  <2>2. origin \in Nat /\ origin = 0
    BY DEF origin
  <2>3. s \in Nat /\ (s = wheel \/ s = 0 \/ made + Ticks(s) < TicksPerMilli)
    BY <2>2, SlotBounds, ClockAssumption
  <2> HIDE DEF s
  <2>4. s <= WheelNow
    <3>1. made + Ticks(s) < TicksPerMilli => s = 0
      BY <2>3, ClockAssumption DEF Ticks
    <3> QED BY <1>2, <2>3, <3>1
  <2>5. slot' # None
    BY <2>1, <2>3 DEF None
  <2>6. NotBefore' /\ NotAfter'
    BY <1>1, <1>2, <2>1, <2>4 DEF NotBefore, NotAfter
  <2> QED BY <2>1, <2>3, <2>5, <2>6
<1>5. CASE ask.kind = "Ingress"
  <2>1. timer' = None /\ slot' = slot
    BY <1>5 DEF Send
  <2> QED BY <2>1 DEF NotBefore, NotAfter
<1> QED BY <1>3, <1>4, <1>5 DEF Asks

\* Every step keeps the inductive invariant.
LEMMA NextClock == ASSUME ClockInv, [Next]_clockVars PROVE ClockInv'
<1> USE DEF ClockInv, ClockTypes
<1>0. WheelNow \in Nat /\ timestamp(now) \in Nat
  BY WheelNowBounds, TimestampIsMillis DEF Past
<1>1. ASSUME NEW what \in {"process", "dispatch"}, Begin(what) PROVE ClockInv'
  <2>1. /\ UNCHANGED <<now, made, wheel, timer, slot, outcome>>
        /\ doing' = what /\ stamp' = timestamp(now)
        /\ next' = (next /\ what # "dispatch")
        /\ what = "dispatch" => next
    BY <1>1 DEF Begin
  <2>2. timestamp(now)' = timestamp(now) /\ WheelNow' = WheelNow
    BY <2>1 DEF timestamp, as_secs, subsec_millis, WheelNow
  <2>3. Ticks(timer)' = Ticks(timer) /\ Ticks(slot)' = Ticks(slot)
    BY <2>1 DEF Ticks
  <2>4. ClockTypes'
    BY <1>0, <2>1
  <2>5. Past'
    BY <1>0, <2>1, <2>2 DEF Past
  <2>6. NotBefore' /\ NotAfter'
    BY <2>1, <2>2, <2>3 DEF NotBefore, NotAfter
  <2>7. HandedOut'
    BY <2>1, <2>2 DEF HandedOut
  <2> QED BY <2>1, <2>4, <2>5, <2>6, <2>7 DEF NeverEarly
<1>2. ASSUME NEW ask \in Asks, Process(ask) \/ Dispatch(ask) PROVE ClockInv'
  <2>1. /\ Send(ask) /\ UNCHANGED <<now, made, wheel, next, stamp>>
        /\ doing' = "select"
    BY <1>2 DEF Process, Dispatch
  <2>2. /\ timer' \in Nat \cup {None} /\ slot' \in Nat \cup {None}
        /\ NotBefore' /\ NotAfter'
        /\ slot' = None => timer' = None
    BY <2>1, SendClock
  <2>3. timestamp(now)' = timestamp(now) /\ WheelNow' = WheelNow
    BY <2>1 DEF timestamp, as_secs, subsec_millis, WheelNow
  <2>4. Past'
    BY <2>1, <2>3 DEF Past
  <2>5. HandedOut'
    BY <1>0, <2>1, <2>2, <2>3 DEF HandedOut, None
  <2>6. NeverEarly'
    <3>1. doing = "dispatch" /\ slot = None => stamp >= timer
      BY DEF HandedOut, None
    <3> QED BY <1>2, <3>1 DEF Process, Dispatch, NeverEarly
  <2> QED BY <2>1, <2>2, <2>4, <2>5, <2>6
<1>3. CASE Poll
  <2>1. /\ UNCHANGED <<now, made, timer, doing, stamp, outcome>>
        /\ wheel' = WheelNow /\ ~next /\ doing = "select"
        /\ next' = (slot # None /\ slot <= WheelNow)
        /\ slot' = IF next' THEN None ELSE slot
    BY <1>3 DEF Poll
  <2>2. timestamp(now)' = timestamp(now) /\ WheelNow' = WheelNow
    BY <2>1 DEF timestamp, as_secs, subsec_millis, WheelNow
  <2>3. Ticks(timer)' = Ticks(timer) /\ (slot' # None => Ticks(slot)' = Ticks(slot))
    BY <2>1 DEF Ticks
  <2>4. ClockTypes'
    BY <1>0, <2>1
  <2>5. Past'
    BY <1>0, <2>1, <2>2 DEF Past
  <2>6. NotBefore' /\ NotAfter'
    BY <2>1, <2>2, <2>3 DEF NotBefore, NotAfter
  <2>7. ASSUME slot # None, slot <= WheelNow PROVE timer <= timestamp(now)
    <3>1. CASE timer = None
      BY <1>0, <3>1 DEF None
    <3>2. CASE timer # None
      <4>1. timer \in Nat /\ slot \in Nat
        BY <2>7, <3>2
      <4>2. Ticks(slot) <= Ticks(WheelNow) /\ Ticks(slot) \in Nat
            /\ Ticks(WheelNow) \in Nat /\ Ticks(timer) \in Nat
        BY <1>0, <2>7, <4>1, ClockAssumption DEF Ticks
      <4>3. made + Ticks(WheelNow) <= now
        BY WheelNowBounds DEF Past
      <4>4. Ticks(timer) <= made + Ticks(slot) => Ticks(timer) <= now
        BY <4>2, <4>3
      <4> QED BY <2>7, <3>2, <4>1, <4>4, PassedByTimestamp DEF NotBefore
    <3> QED BY <3>1, <3>2
  <2>8. HandedOut'
    BY <2>1, <2>2, <2>7 DEF HandedOut
  <2> QED BY <2>1, <2>4, <2>5, <2>6, <2>8 DEF NeverEarly
<1>4. CASE Tick
  <2>1. /\ now' = now + 1
        /\ UNCHANGED <<made, wheel, timer, slot, next, doing, stamp, outcome>>
    BY <1>4 DEF Tick
  <2>2. now' \in Nat /\ now <= now'
    BY <2>1
  <2>3. timestamp(now) <= timestamp(now') /\ timestamp(now') \in Nat
    BY <2>2, TimestampGrows, TimestampIsMillis
  <2>4. timestamp(now)' = timestamp(now')
    BY DEF timestamp, as_secs, subsec_millis
  <2>5. WheelNow <= WheelNow' /\ WheelNow' \in Nat
    <3>1. now - made \in Nat /\ now' - made \in Nat /\ now - made <= now' - made
      BY <2>1 DEF Past
    <3>2. WheelNow' = (now' - made) \div TicksPerMilli
      BY <2>1 DEF WheelNow
    <3> QED BY <3>1, <3>2, QuotientGrows, Division, ClockAssumption DEF WheelNow
  <2>6. Ticks(timer)' = Ticks(timer) /\ Ticks(slot)' = Ticks(slot)
    BY <2>1 DEF Ticks
  <2> HIDE DEF Ticks
  <2>7. Past'
    BY <1>0, <2>1, <2>3, <2>4, <2>5 DEF Past
  <2>8. NotBefore'
    BY <1>0, <2>1, <2>3, <2>4, <2>6 DEF NotBefore
  <2>9. NotAfter'
    BY <1>0, <2>1, <2>5, <2>6 DEF NotAfter
  <2>10. HandedOut'
    BY <1>0, <2>1, <2>3, <2>4 DEF HandedOut, None
  <2> QED BY <2>1, <2>2, <2>7, <2>8, <2>9, <2>10 DEF NeverEarly
<1>5. CASE UNCHANGED clockVars
  BY <1>5 DEF clockVars, Past, NotBefore, NotAfter, HandedOut, NeverEarly, Ticks,
              WheelNow, timestamp, as_secs, subsec_millis
<1> QED BY <1>1, <1>2, <1>3, <1>4, <1>5 DEF Next

\* A pair that the delay queue hands out has a timer that is over by the socket's
\* own timestamps, so Connection::dispatch does not find it exhausted and take it
\* for finished, whatever the offset between the clocks.
THEOREM EarlyCorrect == Spec => []NeverEarly
<1>1. ClockInv => NeverEarly
  BY DEF ClockInv
<1> QED BY <1>1, InitClock, NextClock, PTL DEF Spec

\* A timer that was over a millisecond ago is in a slot that the wheel may hand
\* out: the roundings add up to less than one millisecond.
THEOREM LateCorrect == Spec => []NeverLate
<1>1. ClockInv => NeverLate
  <2> SUFFICES ASSUME ClockInv, slot # None, timer # None, timestamp(now) > timer
               PROVE  slot <= WheelNow
    BY DEF NeverLate
  <2>1. timer \in Nat /\ slot \in Nat /\ now \in Nat /\ made \in Nat /\ made <= now
    BY DEF ClockInv, ClockTypes, Past
  <2>2. Ticks(timer) + TicksPerMilli <= now
    BY <2>1, PassedByTimestamp
  <2>3. Ticks(timer) \in Nat /\ Ticks(slot) \in Nat
    BY <2>1, ClockAssumption DEF Ticks
  <2>4. made + Ticks(slot) < Ticks(timer) + TicksPerMilli => made + Ticks(slot) <= now
    BY <2>1, <2>2, <2>3, ClockAssumption
  <2> QED BY <2>1, <2>4, WheelNowBounds DEF ClockInv, NotAfter
<1> QED BY <1>1, InitClock, NextClock, PTL DEF Spec

=============================================================================
