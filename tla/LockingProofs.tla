---------------------------- MODULE LockingProofs ----------------------------
(***************************************************************************)
(* The critical sections implement the atomic methods of Handoff, and a    *)
(* half that sleeps can always be woken.  The invariant relates, for each  *)
(* place inside a critical section, the connection as it is to the         *)
(* connection as it was when the lock was taken.                           *)
(***************************************************************************)
EXTENDS Locking, TLAPS

Inside == {"locked", "empty", "left", "ready", "process", "dispatch"}

LockTypeOK ==
    /\ holder \in Users \cup {"nobody"}
    /\ at \in [Users -> Inside \cup {"run", "waitlock", "asleep", "gone"}]
    /\ cond \in [Halves -> Abstract!Conds]
    /\ waker \in SUBSET Halves
    /\ before \in [cond : [Halves -> Abstract!Conds], waker : SUBSET Halves,
                   asleep : SUBSET Halves]

\* Exactly the holder of the lock is inside, a half never at a place of the loop,
\* and the loop neither sleeps nor goes.
Exclusive ==
    /\ \A u \in Users : at[u] \in Inside <=> holder = u
    /\ \A h \in Halves : at[h] \notin Kinds
    /\ at["loop"] \notin {"empty", "left", "asleep", "gone"}

\* What a half has done since it took the lock.
HalfDone(h) ==
    /\ before.asleep = Asleep
    /\ at[h] \in {"locked", "empty", "ready"} => waker = before.waker
    /\ at[h] \in {"locked", "empty", "left"} => cond = before.cond
    /\ at[h] \in {"empty", "left"} => cond[h] = "none"
    /\ at[h] = "left" => waker = before.waker \cup {h}
    /\ at[h] = "ready" =>
        \/ /\ before.cond[h] # "none"
           /\ cond \in Abstract!Served(h, before.cond)
        \/ h = "write" /\ cond = [before.cond EXCEPT !["write"] = "end"]

\* The loop is serving as a call of this kind.
Serving(kind) ==
    /\ cond \in Abstract!Changes(kind, before.cond)
    /\ waker \subseteq before.waker
    /\ Asleep = before.asleep \ (before.waker \ waker)

\* What the loop has done since it took the lock.
LoopDone ==
    /\ Abstract!Reachable(before.cond, before.waker, before.asleep)
    /\ at["loop"] = "locked" =>
        cond = before.cond /\ waker = before.waker /\ Asleep = before.asleep
    /\ \A kind \in Kinds : at["loop"] = kind => Serving(kind)
    /\ at["loop"] = "ready" =>
        \/ \E kind \in Kinds :
              Serving(kind) /\ Abstract!MustWake(kind, cond) \cap waker = {}
        \/ /\ cond = [before.cond EXCEPT !["write"] = "end"]
           /\ waker = before.waker /\ Asleep = before.asleep
           /\ "write" \notin before.asleep

LockInv ==
    /\ LockTypeOK
    /\ Exclusive
    /\ SleeperIsReachable
    /\ \A h \in Halves : holder = h => HalfDone(h)
    /\ holder = "loop" => LoopDone

LEMMA LockInvInit == Init => LockInv
<1> SUFFICES ASSUME Init PROVE LockInv
  OBVIOUS
<1>1. LockTypeOK
  BY DEF Init, LockTypeOK, Nothing, Users, Halves, Abstract!Conds
<1>2. Asleep = {}
  BY DEF Init, Asleep, Halves, Users
<1>3. SleeperIsReachable
  BY <1>2 DEF SleeperIsReachable, Abstract!Reachable
<1>4. Exclusive
  BY DEF Init, Exclusive, Inside, Users, Halves, Kinds
<1> QED BY <1>1, <1>3, <1>4 DEF Init, LockInv, Halves

-----------------------------------------------------------------------------
(* Types and exclusion. *)

\* Each step keeps the types.
LEMMA LockTypeStep == LockTypeOK /\ Next => LockTypeOK'
<1> SUFFICES ASSUME LockTypeOK, Next PROVE LockTypeOK'
  OBVIOUS
<1> USE DEF LockTypeOK, Users, Halves, Inside
<1>0. Current \in [cond : [Halves -> Abstract!Conds], waker : SUBSET Halves,
                   asleep : SUBSET Halves]
  BY DEF Current, Asleep
<1>1. Nothing \in [cond : [Halves -> Abstract!Conds], waker : SUBSET Halves,
                   asleep : SUBSET Halves]
  BY DEF Nothing, Abstract!Conds
<1>2. ASSUME NEW u \in Users, Acquire(u) PROVE LockTypeOK'
  BY <1>0, <1>2 DEF Acquire
<1>3. ASSUME NEW u \in Users, WaitForLock(u) PROVE LockTypeOK'
  BY <1>3 DEF WaitForLock
<1>4. ASSUME NEW u \in Users, Unlock(u) PROVE LockTypeOK'
  BY <1>1, <1>4 DEF Unlock, Returned
<1>5. ASSUME NEW h \in Halves, Test(h) PROVE LockTypeOK'
  BY <1>5 DEF Test, Abstract!Conds, Abstract!Served
<1>6. ASSUME NEW h \in Halves, LeaveWaker(h) \/ Wake(h) PROVE LockTypeOK'
  BY <1>6 DEF LeaveWaker, Wake
<1>7. ASSUME NEW h \in Halves, Cancel(h) \/ DropHalf(h) PROVE LockTypeOK'
  BY <1>7 DEF Cancel, DropHalf
<1>8. ASSUME NEW kind \in Kinds, Change(kind) PROVE LockTypeOK'
  BY <1>8 DEF Change, Kinds, Abstract!Changes, Abstract!Halves
<1>9. CASE PollClose \/ CloseDropped
  <2>1. "end" \in Abstract!Conds
    BY DEF Abstract!Conds
  <2>2. cond' \in [Halves -> Abstract!Conds]
    BY <1>9, <2>1 DEF PollClose, CloseDropped
  <2>3. at' \in [Users -> Inside \cup {"run", "waitlock", "asleep", "gone"}]
    BY <1>9 DEF PollClose, CloseDropped
  <2> QED BY <1>9, <2>2, <2>3 DEF PollClose, CloseDropped
<1>10. CASE Woken
  BY <1>10 DEF Woken
<1> QED BY <1>2, <1>3, <1>4, <1>5, <1>6, <1>7, <1>8, <1>9, <1>10 DEF Next

\* Nobody enters while the lock is held.
LEMMA ExclusiveStep == LockTypeOK /\ Exclusive /\ Next => Exclusive'
<1> SUFFICES ASSUME LockTypeOK, Exclusive, Next PROVE Exclusive'
  OBVIOUS
<1> USE DEF LockTypeOK, Exclusive, Users, Halves, Inside, Kinds
<1>2. ASSUME NEW u \in Users, Acquire(u) PROVE Exclusive'
  BY <1>2 DEF Acquire
<1>3. ASSUME NEW u \in Users, WaitForLock(u) PROVE Exclusive'
  BY <1>3 DEF WaitForLock
<1>4. ASSUME NEW u \in Users, Unlock(u) PROVE Exclusive'
  BY <1>4 DEF Unlock, Returned
<1>5. ASSUME NEW h \in Halves, Test(h) PROVE Exclusive'
  BY <1>5 DEF Test
<1>6. ASSUME NEW h \in Halves, LeaveWaker(h) \/ Wake(h) PROVE Exclusive'
  BY <1>6 DEF LeaveWaker, Wake
<1>7. ASSUME NEW h \in Halves, Cancel(h) \/ DropHalf(h) PROVE Exclusive'
  BY <1>7 DEF Cancel, DropHalf
<1>8. ASSUME NEW kind \in Kinds, Change(kind) PROVE Exclusive'
  BY <1>8 DEF Change
<1>9. CASE PollClose \/ CloseDropped \/ Woken
  BY <1>9 DEF PollClose, CloseDropped, Woken
<1> QED BY <1>2, <1>3, <1>4, <1>5, <1>6, <1>7, <1>8, <1>9 DEF Next

-----------------------------------------------------------------------------
(* The critical sections. *)

\* What the connection is while nobody, a half or the loop is inside.
Sections ==
    /\ SleeperIsReachable
    /\ \A h \in Halves : holder = h => HalfDone(h)
    /\ holder = "loop" => LoopDone

\* Steps by which a user enters or waits to enter.
LEMMA EnterStep ==
    ASSUME LockInv, NEW u \in Users, Acquire(u) \/ WaitForLock(u)
    PROVE  Sections'
<1> USE DEF LockInv, LockTypeOK, Users, Halves
<1>1. Asleep' = Asleep
  BY DEF Acquire, WaitForLock, Asleep
<1>2. CASE Acquire(u)
  <2>1. before' = [cond |-> cond, waker |-> waker, asleep |-> Asleep] /\ cond' = cond
        /\ waker' = waker /\ at'[u] = "locked" /\ holder' = u
    BY <1>2 DEF Acquire, Current
  <2>2. Abstract!Reachable(cond, waker, Asleep)
    BY <1>2 DEF Acquire, SleeperIsReachable
  <2>3. SleeperIsReachable'
    BY <1>1, <2>1, <2>2 DEF SleeperIsReachable
  <2>4. ASSUME NEW h \in Halves, holder' = h PROVE HalfDone(h)'
    BY <1>1, <2>1, <2>4 DEF HalfDone
  <2>5. holder' = "loop" => LoopDone'
    BY <1>1, <2>1, <2>2 DEF LoopDone, Kinds
  <2> QED BY <2>3, <2>4, <2>5 DEF Sections
<1>3. CASE WaitForLock(u)
  <2>1. cond' = cond /\ waker' = waker /\ before' = before /\ holder' = holder
    BY <1>3 DEF WaitForLock
  <2>2. at'[holder] = at[holder]
    BY <1>3 DEF WaitForLock, Exclusive, Inside
  <2>3. SleeperIsReachable'
    BY <1>1, <2>1 DEF SleeperIsReachable
  <2>4. ASSUME NEW h \in Halves, holder' = h PROVE HalfDone(h)'
    BY <1>1, <2>1, <2>2, <2>4 DEF HalfDone
  <2>5. holder' = "loop" => LoopDone'
    BY <1>1, <2>1, <2>2 DEF LoopDone, Serving
  <2> QED BY <2>3, <2>4, <2>5 DEF Sections
<1> QED BY <1>2, <1>3

\* Steps of a half that is inside.
LEMMA HalfStep ==
    ASSUME LockInv, NEW h \in Halves,
           Test(h) \/ LeaveWaker(h) \/ (h = "write" /\ PollClose)
    PROVE  Sections'
<1> USE DEF LockInv, LockTypeOK, Users, Halves
<1>1. holder = h /\ holder' = h /\ h # "loop"
  BY DEF Test, LeaveWaker, PollClose, Exclusive, Inside
<1>2. Asleep' = Asleep /\ h \notin Asleep /\ before' = before
  BY DEF Test, LeaveWaker, PollClose, Asleep
<1>3. \A g \in Halves \ {h} : cond'[g] = cond[g]
  BY DEF Abstract!Served, Test, LeaveWaker, PollClose
<1>4. waker \subseteq waker'
  BY DEF Test, LeaveWaker, PollClose
<1>5. HalfDone(h)
  BY <1>1
<1>6. HalfDone(h)'
  <2>1. CASE Test(h)
    BY <1>2, <1>5, <2>1 DEF Test, HalfDone
  <2>2. CASE LeaveWaker(h)
    BY <1>2, <1>5, <2>2 DEF LeaveWaker, HalfDone
  <2>3. CASE h = "write" /\ PollClose
    BY <1>2, <1>5, <2>3 DEF PollClose, HalfDone
  <2> QED BY <2>1, <2>2, <2>3
<1>7. Abstract!Reachable(cond, waker, Asleep)
  BY <1>1 DEF SleeperIsReachable
<1>8. Abstract!Reachable(cond', waker', Asleep')
  BY <1>2, <1>3, <1>4, <1>7 DEF Abstract!Reachable, Asleep
<1> QED BY <1>1, <1>6, <1>8 DEF Sections, SleeperIsReachable

\* Steps of a half that is outside.
LEMMA OutsideStep ==
    ASSUME LockInv, NEW h \in Halves, Cancel(h) \/ DropHalf(h)
    PROVE  Sections'
<1> USE DEF LockInv, LockTypeOK, Users, Halves
<1>1. cond' = cond /\ waker' = waker /\ holder' = holder /\ Asleep' = Asleep \ {h}
  BY DEF Cancel, DropHalf, Asleep
<1>2. holder # h /\ (holder # "nobody" => at'[holder] = at[holder])
  BY DEF Cancel, DropHalf, Exclusive, Inside
<1>3. at[h] # "asleep" => h \notin Asleep
  BY DEF Asleep
<1>4. \/ before' = before /\ (h \notin Asleep \/ holder = "nobody")
      \/ before' = [before EXCEPT !.asleep = @ \ {h}]
  BY <1>3 DEF Cancel, DropHalf
<1>5. before'.cond = before.cond /\ before'.waker = before.waker
  BY <1>4
<1>6. SleeperIsReachable'
  BY <1>1 DEF SleeperIsReachable, Abstract!Reachable
<1>7. ASSUME NEW g \in Halves, holder' = g PROVE HalfDone(g)'
  <2>1. before'.asleep = Asleep'
    BY <1>1, <1>4, <1>7 DEF HalfDone
  <2> QED BY <1>1, <1>2, <1>5, <1>7, <2>1 DEF HalfDone
<1>8. ASSUME holder' = "loop" PROVE LoopDone'
  <2>1. LoopDone
    BY <1>1, <1>8
  <2>2. before'.asleep \subseteq before.asleep
    BY <1>4
  <2>3. Abstract!Reachable(before'.cond, before'.waker, before'.asleep)
    BY <1>5, <2>1, <2>2 DEF LoopDone, Abstract!Reachable
  <2>4. at'["loop"] = at["loop"]
    BY <1>1, <1>2, <1>8
  <2>5. Asleep = before.asleep => Asleep' = before'.asleep
    BY <1>1, <1>4, <1>8
  <2>6. Asleep = before.asleep \ (before.waker \ waker)
          => Asleep' = before'.asleep \ (before.waker \ waker)
    BY <1>1, <1>4, <1>8
  <2>7. \A kind \in Kinds : Serving(kind) => Serving(kind)'
    BY <1>1, <1>5, <2>6 DEF Serving
  <2> QED BY <1>1, <1>5, <2>1, <2>2, <2>3, <2>4, <2>5, <2>7 DEF LoopDone
<1> QED BY <1>6, <1>7, <1>8 DEF Sections

\* Steps of the loop inside.
LEMMA LoopStep ==
    ASSUME LockInv,
           \/ \E kind \in Kinds : Change(kind)
           \/ \E h \in Halves : Wake(h)
           \/ Woken \/ CloseDropped
    PROVE  Sections'
<1> USE DEF LockInv, LockTypeOK, Users, Halves
<1>1. holder = "loop" /\ holder' = "loop" /\ before' = before
  BY DEF Change, Wake, Woken, CloseDropped, Exclusive, Inside, Kinds
<1>2. LoopDone
  BY <1>1
<1>3. Abstract!Reachable(before'.cond, before'.waker, before'.asleep)
  BY <1>1, <1>2 DEF LoopDone
<1>4. ASSUME NEW kind \in Kinds, Change(kind) PROVE LoopDone'
  <2>1. Asleep' = Asleep /\ waker' = waker /\ at'["loop"] = kind
    BY <1>4 DEF Change, Asleep
  <2>2. at["loop"] = "locked" /\ cond' \in Abstract!Changes(kind, cond)
    BY <1>4 DEF Change
  <2>3. Serving(kind)'
    BY <1>1, <1>2, <2>1, <2>2 DEF LoopDone, Serving
  <2> QED BY <1>3, <2>1, <2>3 DEF LoopDone, Kinds
<1>5. ASSUME NEW h \in Halves, Wake(h) PROVE LoopDone'
  <2>1. Asleep' = Asleep \ {h} /\ waker' = waker \ {h} /\ h \in waker
        /\ at'["loop"] = at["loop"] /\ at["loop"] \in Kinds /\ cond' = cond
    BY <1>5 DEF Wake, Asleep
  <2>2. Serving(at["loop"])
    BY <1>2, <2>1 DEF LoopDone
  <2>3. \A kind \in Kinds : Serving(kind) => Serving(kind)'
    BY <1>1, <2>1 DEF Serving
  <2> QED BY <1>3, <2>1, <2>2, <2>3 DEF LoopDone, Kinds
<1>6. ASSUME Woken PROVE LoopDone'
  <2>1. Asleep' = Asleep /\ waker' = waker /\ cond' = cond /\ at'["loop"] = "ready"
    BY <1>6 DEF Woken, Asleep
  <2>2. PICK kind \in Kinds : at["loop"] = kind
    BY <1>6 DEF Woken
  <2>3. Serving(kind) /\ Abstract!MustWake(kind, cond) \cap waker = {}
    BY <1>2, <1>6, <2>2 DEF Woken, LoopDone
  <2>4. Serving(kind)' /\ Abstract!MustWake(kind, cond') \cap waker' = {}
    BY <1>1, <2>1, <2>3 DEF Serving
  <2> QED BY <1>3, <2>1, <2>4 DEF LoopDone, Kinds
<1>7. ASSUME CloseDropped PROVE LoopDone'
  <2>1. Asleep' = Asleep /\ waker' = waker /\ at'["loop"] = "ready"
        /\ "write" \notin Asleep /\ at["loop"] = "locked"
        /\ cond' = [cond EXCEPT !["write"] = "end"]
    BY <1>7 DEF CloseDropped, Asleep
  <2> QED BY <1>1, <1>2, <1>3, <2>1 DEF LoopDone, Kinds
<1>8. LoopDone'
  BY <1>4, <1>5, <1>6, <1>7
<1> QED BY <1>1, <1>8 DEF Sections, SleeperIsReachable

\* The lock is released: what was done inside leaves every sleeper reachable.
LEMMA UnlockStep ==
    ASSUME LockInv, NEW u \in Users, Unlock(u)
    PROVE  Sections'
<1> USE DEF LockInv, LockTypeOK, Users, Halves
<1>1. holder = u /\ holder' = "nobody" /\ cond' = cond /\ waker' = waker
  BY DEF Unlock, Exclusive, Inside
<1>2. CASE at[u] = "left"
  <2>1. u \in Halves /\ Asleep' = Asleep \cup {u}
    BY <1>2 DEF Unlock, Returned, Asleep, Exclusive
  <2>2. HalfDone(u)
    BY <1>1, <2>1
  <2>3. u \in waker /\ cond[u] = "none"
    BY <1>2, <2>2 DEF HalfDone
  <2>4. Abstract!Reachable(cond, waker, Asleep)
    BY <1>1, <2>1 DEF SleeperIsReachable
  <2> QED BY <1>1, <2>1, <2>3, <2>4 DEF Sections, SleeperIsReachable, Abstract!Reachable
<1>3. CASE at[u] = "ready"
  <2>1. Asleep' = Asleep
    BY <1>3 DEF Unlock, Returned, Asleep
  <2>2. Abstract!Reachable(cond, waker, Asleep)
    <3>1. CASE u \in Halves
      BY <1>1, <3>1 DEF SleeperIsReachable
    <3>2. CASE u = "loop"
      <4>1. LoopDone
        BY <1>1, <3>2
      <4>2. Abstract!Reachable(before.cond, before.waker, before.asleep)
        BY <4>1 DEF LoopDone
      <4>3. ASSUME NEW kind \in Kinds, Serving(kind),
                   Abstract!MustWake(kind, cond) \cap waker = {}
            PROVE  Abstract!Reachable(cond, waker, Asleep)
        <5> SUFFICES ASSUME NEW h \in Asleep
                     PROVE  h \in waker /\ cond[h] # "end"
                            /\ (h = "read" => cond[h] = "none")
          BY DEF Abstract!Reachable
        <5>1. h \in Halves
          BY DEF Asleep
        <5>2. h \in before.asleep /\ h \notin before.waker \ waker
          BY <4>3 DEF Serving
        <5>3. h \in before.waker /\ (h = "read" => before.cond[h] = "none")
          BY <4>2, <5>2 DEF Abstract!Reachable
        <5>4. h \in waker /\ h \notin Abstract!MustWake(kind, cond)
          BY <4>3, <5>2, <5>3
        <5>5. cond[h] # "end" /\ (h = "read" /\ kind = "process" => cond[h] # "some")
          BY <5>1, <5>4 DEF Abstract!MustWake, Abstract!Halves
        <5>6. cond[h] \in Abstract!Conds
          BY <5>1
        <5>7. kind = "dispatch" => cond[h] \in {before.cond[h], "end"}
          BY <4>3, <5>1 DEF Serving, Abstract!Changes, Abstract!Halves
        <5> QED BY <5>3, <5>4, <5>5, <5>6, <5>7 DEF Kinds, Abstract!Conds
      <4>4. ASSUME cond = [before.cond EXCEPT !["write"] = "end"],
                   waker = before.waker, Asleep = before.asleep,
                   "write" \notin before.asleep
            PROVE  Abstract!Reachable(cond, waker, Asleep)
        BY <4>2, <4>4 DEF Abstract!Reachable, Asleep
      <4> QED BY <1>3, <3>2, <4>1, <4>3, <4>4 DEF LoopDone
    <3> QED BY <3>1, <3>2
  <2> QED BY <1>1, <2>1, <2>2 DEF Sections, SleeperIsReachable
<1> QED BY <1>2, <1>3 DEF Unlock

LEMMA LockInvStep == LockInv /\ [Next]_lockVars => LockInv'
<1> SUFFICES ASSUME LockInv, [Next]_lockVars PROVE LockInv'
  OBVIOUS
<1>1. CASE Next
  <2>1. Sections'
    BY <1>1, EnterStep, HalfStep, OutsideStep, LoopStep, UnlockStep DEF Next, Halves
  <2> QED BY <1>1, <2>1, LockTypeStep, ExclusiveStep DEF LockInv, Sections
<1>2. CASE UNCHANGED lockVars
  BY <1>2 DEF lockVars, LockInv, LockTypeOK, Exclusive, SleeperIsReachable, HalfDone,
              LoopDone, Serving, Asleep
<1> QED BY <1>1, <1>2

\* A half that sleeps can be woken and sleeps for a reason, whoever is inside,
\* except while the loop is about to wake it.
THEOREM ReachableTheorem == Spec => []SleeperIsReachable
<1>1. LockInv => SleeperIsReachable
  BY DEF LockInv
<1> QED BY <1>1, LockInvInit, LockInvStep, PTL DEF Spec

-----------------------------------------------------------------------------
(* Refinement. *)

LEMMA InitRefines == Init => Abstract!HandoffInit
<1> SUFFICES ASSUME Init PROVE Abstract!HandoffInit
  OBVIOUS
<1>1. Asleep = {}
  BY DEF Init, Asleep, Halves, Users
<1> QED BY <1>1 DEF Init, Abstract!HandoffInit, Abstract!Halves, Halves, Seen, Current

\* Releasing the lock is the step at which a method takes effect.
LEMMA UnlockRefines ==
    ASSUME LockInv, NEW u \in Users, Unlock(u)
    PROVE  Abstract!HandoffNext
<1> USE DEF LockInv, LockTypeOK, Users, Halves
<1>1. holder = u /\ cond' = cond /\ waker' = waker /\ u # "nobody"
  BY DEF Unlock, Exclusive, Inside
<1>2. Seen = before /\ Seen' = [cond |-> cond, waker |-> waker, asleep |-> Asleep']
  BY <1>1 DEF Unlock, Seen, Current
<1>3. Seen.cond = before.cond /\ Seen.waker = before.waker /\ Seen.asleep = before.asleep
      /\ Seen'.cond = cond /\ Seen'.waker = waker /\ Seen'.asleep = Asleep'
  BY <1>2
<1>4. CASE u \in Halves
  <2>1. HalfDone(u) /\ u \notin before.asleep
    BY <1>1, <1>4 DEF HalfDone, Unlock, Asleep
  <2>2. CASE at[u] = "left"
    <3>1. Asleep' = Asleep \cup {u}
      BY <1>4, <2>2 DEF Unlock, Returned, Asleep
    <3>2. Abstract!Park(u)
      BY <1>3, <2>1, <2>2, <3>1 DEF Abstract!Park, HalfDone
    <3> QED BY <1>4, <3>2 DEF Abstract!HandoffNext, Abstract!Halves
  <2>3. CASE at[u] = "ready"
    <3>1. Asleep' = Asleep
      BY <1>4, <2>3 DEF Unlock, Returned, Asleep
    <3>2. Seen'.waker = Seen.waker /\ Seen'.asleep = Seen.asleep
      BY <1>3, <2>1, <2>3, <3>1 DEF HalfDone
    <3>3. Abstract!Take(u) \/ Abstract!Close
      BY <1>3, <2>1, <2>3, <3>2 DEF Abstract!Take, Abstract!Close, HalfDone
    <3> QED BY <1>4, <3>3 DEF Abstract!HandoffNext, Abstract!Halves
  <2> QED BY <2>2, <2>3 DEF Unlock
<1>5. CASE u = "loop"
  <2>1. LoopDone /\ at["loop"] = "ready"
    BY <1>1, <1>5 DEF Unlock, Exclusive
  <2>2. Asleep' = Asleep
    BY <1>5 DEF Unlock, Returned, Asleep
  <2>3. ASSUME NEW kind \in Kinds, Serving(kind),
               Abstract!MustWake(kind, cond) \cap waker = {}
        PROVE  Abstract!HandoffNext
    <3>1. before.waker \ waker \in SUBSET before.waker
          /\ waker = before.waker \ (before.waker \ waker)
      BY <2>3 DEF Serving
    <3>2. Abstract!MustWake(kind, cond) \cap before.waker \subseteq before.waker \ waker
      BY <2>3
    <3>3. Abstract!Serve(kind)
      BY <1>3, <2>2, <2>3, <3>1, <3>2 DEF Abstract!Serve, Serving
    <3> QED BY <3>3 DEF Abstract!HandoffNext, Kinds
  <2>4. ASSUME cond = [before.cond EXCEPT !["write"] = "end"],
               waker = before.waker, Asleep = before.asleep,
               "write" \notin before.asleep
        PROVE  Abstract!HandoffNext
    BY <1>3, <2>2, <2>4 DEF Abstract!HandoffNext, Abstract!Close
  <2> QED BY <2>1, <2>3, <2>4 DEF LoopDone
<1> QED BY <1>4, <1>5

\* Dropping a future that sleeps is a step of its own.
LEMMA CancelRefines ==
    ASSUME LockInv, NEW h \in Halves, Cancel(h)
    PROVE  Abstract!Cancel(h) \/ UNCHANGED Abstract!handoffVars
<1> USE DEF LockInv, LockTypeOK, Users, Halves
<1>1. cond' = cond /\ waker' = waker /\ holder' = holder /\ Asleep' = Asleep \ {h}
  BY DEF Cancel, Asleep
<1>2. CASE holder = "nobody"
  <2>1. Seen = Current /\ Seen' = [cond |-> cond, waker |-> waker, asleep |-> Asleep \ {h}]
    BY <1>1, <1>2 DEF Seen, Current
  <2> QED BY <2>1 DEF Current, Abstract!Cancel, Abstract!handoffVars
<1>3. CASE holder # "nobody"
  <2>1. Seen = before /\ Seen' = before'
    BY <1>1, <1>3 DEF Seen
  <2>2. before' = before \/ before' = [before EXCEPT !.asleep = @ \ {h}]
    BY DEF Cancel
  <2> QED BY <2>1, <2>2 DEF Abstract!Cancel, Abstract!handoffVars
<1> QED BY <1>2, <1>3

\* No other step is seen.
LEMMA StutterRefines ==
    ASSUME LockInv, Next, \A u \in Users : ~Unlock(u), \A h \in Halves : ~Cancel(h)
    PROVE  Seen' = Seen
<1> USE DEF LockInv, LockTypeOK, Users, Halves
<1>1. ASSUME NEW u \in Users, Acquire(u) PROVE Seen' = Seen
  BY <1>1 DEF Acquire, Seen
<1>2. ASSUME before' = before, holder' = holder, holder # "nobody" PROVE Seen' = Seen
  BY <1>2 DEF Seen
<1>3. ASSUME NEW u \in Users, WaitForLock(u) PROVE Seen' = Seen
  BY <1>2, <1>3 DEF WaitForLock
<1>4. ASSUME NEW h \in Halves, Test(h) \/ LeaveWaker(h) PROVE Seen' = Seen
  BY <1>2, <1>4 DEF Test, LeaveWaker, Exclusive, Inside
<1>5. ASSUME NEW h \in Halves, Wake(h) PROVE Seen' = Seen
  BY <1>2, <1>5 DEF Wake, Exclusive, Inside, Kinds
<1>6. ASSUME NEW h \in Halves, DropHalf(h) PROVE Seen' = Seen
  <2>1. Asleep' = Asleep
    BY <1>6 DEF DropHalf, Asleep
  <2> QED BY <1>6, <2>1 DEF DropHalf, Seen, Current
<1>7. ASSUME NEW kind \in Kinds, Change(kind) PROVE Seen' = Seen
  BY <1>2, <1>7 DEF Change, Exclusive, Inside
<1>8. ASSUME PollClose \/ Woken \/ CloseDropped PROVE Seen' = Seen
  BY <1>2, <1>8 DEF PollClose, Woken, CloseDropped, Exclusive, Inside, Kinds
<1> QED BY <1>1, <1>3, <1>4, <1>5, <1>6, <1>7, <1>8 DEF Next

LEMMA StepRefines ==
    LockInv /\ [Next]_lockVars => [Abstract!HandoffNext]_Abstract!handoffVars
<1> SUFFICES ASSUME LockInv, [Next]_lockVars
             PROVE  [Abstract!HandoffNext]_Abstract!handoffVars
  OBVIOUS
<1>1. ASSUME Seen' = Seen PROVE UNCHANGED Abstract!handoffVars
  BY <1>1 DEF Abstract!handoffVars
<1>2. CASE UNCHANGED lockVars
  BY <1>1, <1>2 DEF lockVars, Seen, Current, Asleep
<1>3. CASE \E h \in Halves : Cancel(h)
  BY <1>3, CancelRefines DEF Abstract!HandoffNext, Abstract!Halves, Halves
<1>4. CASE \E u \in Users : Unlock(u)
  BY <1>4, UnlockRefines
<1> QED BY <1>1, <1>2, <1>3, <1>4, StutterRefines

\* The methods as coded, with a lock and several steps under it, do no more than
\* the atomic methods that Connection and Ustunet are made of.
THEOREM LockingRefines == Spec => ImplementsHandoff
<1> QED BY InitRefines, StepRefines, LockInvInit, LockInvStep, PTL
        DEF Spec, ImplementsHandoff, Abstract!HandoffSpec

=============================================================================
