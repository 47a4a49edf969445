--------------------------- MODULE PollQueueProofs ---------------------------
(***************************************************************************)
(* PollQueue implements Schedule for any set of pairs, any slab and any    *)
(* timeout.  The inductive invariant says that the map and the slab mirror *)
(* each other; without it a step could meet a vacant or a reused slot.     *)
(***************************************************************************)
EXTENDS PollQueue, TLAPS

\* The inductive invariant: a panic would need a key that does not fit its slot.
PQInv == PQTypeOK /\ KeysMirrorSlab /\ NeverPanics

\* A deadline is sent as the origin of the clock or as an instant that is at
\* most Rto ahead.
LEMMA InstantType ==
    ASSUME now \in 0..MaxTime, NEW p \in PollAt, p.kind # "Ingress"
    PROVE  /\ Instant(p) \in 0..(MaxTime + Rto)
           /\ p.due \in 0..Rto
           /\ p.due = IF Instant(p) > now THEN Instant(p) - now ELSE 0
  BY TcpAssumption, PollQueueAssumption
     DEF PollAt, Now, Ingress, Time, Instant, Origin, Resolve

\* A call that is recorded has its type.
LEMMA CallType ==
    ASSUME NEW op \in {"new", "send", "remove", "expired", "wait"},
           NEW h \in Handles \cup {NoHandle}, NEW p \in PollAt
    PROVE  Call(op, h, p) \in Calls /\ Call(op, h, Ingress) \in Calls
  BY DEF Call, Calls, PollAt

\* Ingress is a PollAt.
LEMMA IngressIsPollAt == Ingress \in PollAt
  BY DEF PollAt

\* Every step keeps the map and the slab in step with each other, so that no
\* call panics.
LEMMA PQInvStep == PQInv /\ [Next]_pqVars => PQInv'
<1> SUFFICES ASSUME PQInv, [Next]_pqVars PROVE PQInv'
  OBVIOUS
<1> USE DEF PQInv, PQTypeOK, KeysMirrorSlab, NeverPanics, Used
<1> USE PollQueueAssumption, TcpAssumption, CallType, IngressIsPollAt
<1>1. ASSUME NEW h \in Handles, PQRemove(h) PROVE PQInv'
  BY <1>1 DEF PQRemove, Vacant
<1>2. ASSUME NEW h \in Handles, NEW p \in PollAt, PQSend(h, p) PROVE PQInv'
  <2>1. CASE p.kind = "Ingress"
    BY <1>2, <2>1 DEF PQSend
  <2>2. CASE p.kind # "Ingress" /\ keys[h] # NoKey
    BY <1>2, <2>2, InstantType DEF PQSend, DelaysInsert
  <2>3. CASE p.kind # "Ingress" /\ keys[h] = NoKey
    <3> DEFINE at == Instant(p)
    <3>1. at \in 0..(MaxTime + Rto)
      BY <2>3, InstantType
    <3> HIDE DEF at
    <3>2. PICK k \in Keys : /\ ~Used(k)
                            /\ slab' = [slab EXCEPT ![k] = [handle |-> h,
                                                           at |-> at]]
                            /\ keys' = [keys EXCEPT ![h] = k]
      BY <1>2, <2>3 DEF PQSend, DelaysInsert, at
    <3>3. PQTypeOK'
      BY <1>2, <2>3, <3>1, <3>2 DEF PQSend, DelaysInsert
    <3>4. KeysMirrorSlab'
      <4>1. slab'[k] = [handle |-> h, at |-> at] /\ keys'[h] = k
        BY <3>2
      <4>2. ASSUME NEW g \in Handles, keys'[g] # NoKey
            PROVE  slab'[keys'[g]].handle = g
        BY <3>2, <4>1, <4>2
      <4>3. ASSUME NEW j \in Keys, slab'[j].handle # NoHandle
            PROVE  keys'[slab'[j].handle] = j
        BY <2>3, <3>2, <4>1, <4>3
      <4> QED BY <4>2, <4>3
    <3>5. NeverPanics'
      BY <1>2, <2>3 DEF PQSend, DelaysInsert
    <3> QED BY <3>3, <3>4, <3>5
  <2> QED BY <2>1, <2>2, <2>3
<1>3. ASSUME NEW k \in Keys, PQNext(k) PROVE PQInv'
  BY <1>3 DEF PQNext, Vacant
<1>4. CASE PQTick
  BY <1>4 DEF PQTick
<1>5. CASE UNCHANGED pqVars
  BY <1>5 DEF pqVars
<1> QED BY <1>1, <1>2, <1>3, <1>4, <1>5 DEF Next

\* The empty delay queue is consistent.
LEMMA PQInvInit == PQInit => PQInv
<1> SUFFICES ASSUME PQInit PROVE PQInv
  OBVIOUS
<1> USE DEF PQInit
<1>1. PQTypeOK
  <2>1. Vacant \in [handle : Handles \cup {NoHandle}, at : 0..(MaxTime + Rto)]
    BY PollQueueAssumption, TcpAssumption DEF Vacant
  <2>2. now \in 0..MaxTime
    BY PollQueueAssumption
  <2>3. call \in Calls
    BY CallType, IngressIsPollAt
  <2> QED BY <2>1, <2>2, <2>3 DEF PQTypeOK
<1>2. KeysMirrorSlab
  BY DEF KeysMirrorSlab, Used, Vacant
<1> QED BY <1>1, <1>2 DEF PQInv, NeverPanics

\* Every key of the map is a slot of the slab and every deadline an instant that
\* the clock can reach.
THEOREM PQTypeTheorem == Spec => []PQTypeOK
<1>1. PQInv => PQTypeOK
  BY DEF PQInv
<1> QED BY <1>1, PQInvInit, PQInvStep, PTL DEF Spec

\* The map and the slab of Delays always mirror each other.
THEOREM MirrorTheorem == Spec => []KeysMirrorSlab
<1>1. PQInv => KeysMirrorSlab
  BY DEF PQInv
<1> QED BY <1>1, PQInvInit, PQInvStep, PTL DEF Spec

\* No call of the queue panics: the unwrap in Delays::next finds its pair, and
\* DelayQueue is never handed a stale key.
THEOREM NeverPanicsTheorem == Spec => []NeverPanics
<1>1. PQInv => NeverPanics
  BY DEF PQInv
<1> QED BY <1>1, PQInvInit, PQInvStep, PTL DEF Spec

-----------------------------------------------------------------------------
(* Refinement. *)

\* The empty delay queue is the empty schedule.
LEMMA InitRefines == PQInit => Abstract!ScheduleInit
  BY DEF PQInit, Abstract!ScheduleInit, Abstract!EmptyQueue, Remaining,
         Abstract!Off, Off, Call, Abstract!Call, Ingress, Abstract!Ingress

\* Every operation of the delay queue is the same operation of the schedule.
LEMMA StepRefines ==
    PQInv /\ [Next]_pqVars => [Abstract!ScheduleNext]_(Abstract!scheduleVars)
<1> SUFFICES ASSUME PQInv, [Next]_pqVars
             PROVE  [Abstract!ScheduleNext]_(Abstract!scheduleVars)
  OBVIOUS
<1> USE DEF PQInv, PQTypeOK, KeysMirrorSlab, Used, Abstract!QueueSend,
            Abstract!QueueRemove, Abstract!QueueDue, Abstract!Off, Off
<1>0. /\ Abstract!Ingress = Ingress
      /\ \A op, h, p : Abstract!Call(op, h, p) = Call(op, h, p)
  BY DEF Abstract!Ingress, Ingress, Abstract!Call, Call
<1> USE PollQueueAssumption, TcpAssumption
<1> DEFINE q == [h \in Handles |-> Remaining(h)]
<1>1. ASSUME NEW h \in Handles, PQRemove(h) PROVE Abstract!Remove(h)
  <2>1. \A g \in Handles \ {h} : Remaining(g)' = Remaining(g)
    BY <1>1 DEF PQRemove, Remaining
  <2>2. Remaining(h)' = Off
    BY <1>1 DEF PQRemove, Remaining
  <2>3. q' = [q EXCEPT ![h] = Off]
    BY <2>1, <2>2
  <2> QED BY <1>0, <1>1, <2>3 DEF PQRemove, Abstract!Remove
<1>2. ASSUME NEW h \in Handles, NEW p \in PollAt, PQSend(h, p)
      PROVE  Abstract!Send(h, p)
  <2>1. CASE p.kind = "Ingress"
    <3>1. q' = q
      BY <1>2, <2>1 DEF PQSend, Remaining
    <3> QED BY <1>0, <1>2, <2>1, <3>1 DEF PQSend, Abstract!Send
  <2>2. CASE p.kind # "Ingress"
    <3>1. PICK k \in Keys :
              /\ keys' = [keys EXCEPT ![h] = k]
              /\ slab'[k].at = Instant(p)
              /\ \A g \in Handles \ {h} :
                    keys[g] # NoKey => slab'[keys[g]] = slab[keys[g]]
      <4>1. CASE keys[h] # NoKey
        BY <1>2, <2>2, <4>1 DEF PQSend, DelaysInsert
      <4>2. CASE keys[h] = NoKey
        BY <1>2, <2>2, <4>2 DEF PQSend, DelaysInsert
      <4> QED BY <4>1, <4>2
    <3>2. now' = now
      BY <1>2 DEF PQSend
    <3>3. \A g \in Handles \ {h} : Remaining(g)' = Remaining(g)
      BY <3>1, <3>2 DEF Remaining
    <3>4. Remaining(h)' = p.due
      BY <2>2, <3>1, <3>2, InstantType DEF Remaining
    <3>5. q' = [q EXCEPT ![h] = p.due]
      BY <3>3, <3>4
    <3> QED BY <1>0, <1>2, <2>2, <3>5 DEF PQSend, Abstract!Send
  <2> QED BY <2>1, <2>2
<1>3. ASSUME NEW k \in Keys, PQNext(k)
      PROVE  \E h \in Handles : Abstract!Expire(h)
  <2>1. PICK h \in Handles : h = slab[k].handle /\ keys[h] = k /\ slab[k].at <= now
    BY <1>3 DEF PQNext
  <2>2. keys' = [keys EXCEPT ![h] = NoKey] /\ now' = now /\ call' = Call("expired", h, Ingress)
    BY <1>3, <2>1 DEF PQNext
  <2>3. \A g \in Handles \ {h} :
            keys[g] # NoKey => slab'[keys[g]] = slab[keys[g]]
    BY <1>3, <2>1 DEF PQNext
  <2>4. \A g \in Handles \ {h} : Remaining(g)' = Remaining(g)
    BY <2>2, <2>3 DEF Remaining
  <2>5. Remaining(h)' = Off /\ Remaining(h) = 0
    BY <2>1, <2>2 DEF Remaining
  <2>6. q' = [q EXCEPT ![h] = Off] /\ q[h] = 0
    BY <2>1, <2>4, <2>5
  <2> QED BY <1>0, <2>1, <2>2, <2>6 DEF Abstract!Expire
<1>4. ASSUME PQTick PROVE Abstract!Advance
  <2>1. \A h \in Handles : Remaining(h)' = Abstract!Closer(Remaining(h))
    BY <1>4 DEF PQTick, Remaining, Abstract!Closer
  <2>2. q' = [h \in Handles |-> Abstract!Closer(q[h])]
    BY <2>1
  <2> QED BY <1>0, <1>4, <2>2 DEF PQTick, Abstract!Advance
<1>5. CASE UNCHANGED pqVars
  BY <1>5 DEF pqVars, Abstract!scheduleVars, Remaining
<1>6. PollAt = Abstract!PollAt
  BY DEF PollAt, Abstract!PollAt, Now, Ingress, Time, Abstract!Now,
         Abstract!Ingress, Abstract!Time
<1>7. \A h \in Handles : Abstract!Remove(h) => Abstract!ScheduleNext
  BY DEF Abstract!ScheduleNext
<1>8. \A h \in Handles, p \in PollAt : Abstract!Send(h, p) => Abstract!ScheduleNext
  BY <1>6 DEF Abstract!ScheduleNext
<1>9. (\E h \in Handles : Abstract!Expire(h)) => Abstract!ScheduleNext
  BY DEF Abstract!ScheduleNext
<1>10. Abstract!Advance => Abstract!ScheduleNext
  BY DEF Abstract!ScheduleNext
<1> HIDE DEF PQInv
<1> QED BY <1>1, <1>2, <1>3, <1>4, <1>5, <1>7, <1>8, <1>9, <1>10 DEF Next

\* The two structures of the code implement the schedule.
THEOREM RefinementTheorem == Spec => ImplementsSchedule
<1> QED BY InitRefines, StepRefines, PQInvInit, PQInvStep, PTL
        DEF Spec, ImplementsSchedule, Abstract!ScheduleSpec

=============================================================================
