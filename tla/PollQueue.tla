------------------------------ MODULE PollQueue ------------------------------
(***************************************************************************)
(* The delay queue as the code keeps it: `Delays` holds tokio's DelayQueue, *)
(* a slab of entries that is addressed by keys, and a map from pairs to     *)
(* keys.  Deadlines are instants of the monotonic clock, in ticks since     *)
(* `Clock::start_time`.  Every operation touches both structures, and a     *)
(* key that no longer fits makes the DelayQueue or an unwrap panic.         *)
(*                                                                         *)
(* A "Slip" is a plausible mistake to be put in the place of the           *)
(* definition that follows it, to see which property notices.              *)
(***************************************************************************)
EXTENDS DispatchQueue

CONSTANTS NoHandle,   \* no address pair
          Keys,       \* the slots of the slab
          NoKey,      \* no slot
          MaxTime     \* bound: the last instant

ASSUME PollQueueAssumption == /\ NoHandle \notin Handles
                              /\ NoKey \notin Keys
                              /\ MaxTime \in Nat

VARIABLES now,        \* the time since start_time
          slab,       \* Delays::queue, a slot without a pair is vacant
          keys,       \* Delays::keys
          call,       \* the last call
          panicked    \* whether an unwrap or the DelayQueue has panicked

pqVars == <<now, slab, keys, call, panicked>>

Vacant == [handle |-> NoHandle, at |-> 0]
Used(k) == slab[k].handle # NoHandle

\* Clock::origin, and Clock::resolve for a timestamp in t ticks from now.
Origin == 0
Resolve(t) == now + t

PQInit ==
    /\ now = 0
    /\ slab = [k \in Keys |-> Vacant]
    /\ keys = [h \in Handles |-> NoKey]
    /\ call = Call("new", NoHandle, Ingress)
    /\ panicked = FALSE

\* Slip: a timestamp is taken for a delay from now.
InstantTwice(p) == IF p.kind = "Now" THEN Origin ELSE Resolve(now + p.due)

Instant(p) == IF p.kind = "Now" THEN Origin ELSE Resolve(p.due)

\* Slip: a deadline is only ever brought forward.
DelaysInsertEarliest(h, at) ==
    IF keys[h] # NoKey
    THEN /\ slab' = [slab EXCEPT ![keys[h]].at = IF at < @ THEN at ELSE @]
         /\ UNCHANGED <<keys, panicked>>
    ELSE \E k \in Keys :
            /\ ~Used(k)
            /\ slab' = [slab EXCEPT ![k] = [handle |-> h, at |-> at]]
            /\ keys' = [keys EXCEPT ![h] = k]
            /\ UNCHANGED panicked

\* Delays::insert: reset_at panics when the slot is vacant.
DelaysInsert(h, at) ==
    IF keys[h] # NoKey
    THEN /\ IF Used(keys[h])
            THEN slab' = [slab EXCEPT ![keys[h]].at = at] /\ UNCHANGED panicked
            ELSE panicked' = TRUE /\ UNCHANGED slab
         /\ UNCHANGED keys
    ELSE \E k \in Keys :
            /\ ~Used(k)
            /\ slab' = [slab EXCEPT ![k] = [handle |-> h, at |-> at]]
            /\ keys' = [keys EXCEPT ![h] = k]
            /\ UNCHANGED panicked

\* DispatchQueue::send.
PQSend(h, p) ==
    /\ ~panicked
    /\ IF p.kind = "Ingress" THEN UNCHANGED <<slab, keys, panicked>>
       ELSE DelaysInsert(h, Instant(p))
    /\ call' = Call("send", h, p)
    /\ UNCHANGED now

\* Slip: the entry stays in the slab.
PQRemoveKeepsEntry(h) ==
    /\ ~panicked
    /\ keys' = [keys EXCEPT ![h] = NoKey]
    /\ call' = Call("remove", h, Ingress)
    /\ UNCHANGED <<now, slab, panicked>>

\* DispatchQueue::remove: DelayQueue::remove panics when the slot is vacant.
PQRemove(h) ==
    /\ ~panicked
    /\ keys' = [keys EXCEPT ![h] = NoKey]
    /\ IF keys[h] = NoKey THEN UNCHANGED <<slab, panicked>>
       ELSE IF Used(keys[h])
       THEN slab' = [slab EXCEPT ![keys[h]] = Vacant] /\ UNCHANGED panicked
       ELSE panicked' = TRUE /\ UNCHANGED slab
    /\ call' = Call("remove", h, Ingress)
    /\ UNCHANGED now

\* Slip: the pair keeps its key.
PQNextKeepsKey(k) ==
    /\ ~panicked
    /\ Used(k) /\ slab[k].at <= now
    /\ slab' = [slab EXCEPT ![k] = Vacant]
    /\ call' = Call("expired", slab[k].handle, Ingress)
    /\ UNCHANGED <<now, keys, panicked>>

\* Delays::next: an entry whose instant has passed leaves the slab, and its
\* pair must be in the map.
PQNext(k) ==
    /\ ~panicked
    /\ Used(k) /\ slab[k].at <= now
    /\ slab' = [slab EXCEPT ![k] = Vacant]
    /\ IF keys[slab[k].handle] # NoKey
       THEN /\ keys' = [keys EXCEPT ![slab[k].handle] = NoKey]
            /\ UNCHANGED panicked
       ELSE /\ panicked' = TRUE
            /\ UNCHANGED keys
    /\ call' = Call("expired", slab[k].handle, Ingress)
    /\ UNCHANGED now

PQTick ==
    /\ now < MaxTime
    /\ now' = now + 1
    /\ call' = Call("wait", NoHandle, Ingress)
    /\ UNCHANGED <<slab, keys, panicked>>

Next ==
    \/ \E h \in Handles : PQRemove(h) \/ \E p \in PollAt : PQSend(h, p)
    \/ \E k \in Keys : PQNext(k)
    \/ PQTick

Spec == PQInit /\ [][Next]_pqVars

-----------------------------------------------------------------------------
(* Properties. *)

\* What the last call may have been.
Calls == [op : {"new", "send", "remove", "expired", "wait"},
          handle : Handles \cup {NoHandle}, poll : PollAt]

\* Every entry has an instant that a timestamp can name, and no instant lies
\* further ahead than one timeout after the last tick.
PQTypeOK ==
    /\ now \in 0..MaxTime
    /\ slab \in [Keys -> [handle : Handles \cup {NoHandle},
                          at : 0..(MaxTime + Rto)]]
    /\ keys \in [Handles -> Keys \cup {NoKey}]
    /\ call \in Calls
    /\ panicked \in BOOLEAN

\* The map and the slab mirror each other: a used slot belongs to the pair that
\* has its key, and to no other.  Each of insert, remove and next updates the
\* two one after the other.
KeysMirrorSlab ==
    /\ \A h \in Handles : keys[h] # NoKey => slab[keys[h]].handle = h
    /\ \A k \in Keys : Used(k) => keys[slab[k].handle] = k

\* Neither the unwrap of Delays::next nor a use of a stale key in the DelayQueue
\* ever panics.
NeverPanics == ~panicked

\* The deadlines that the two structures stand for.
Remaining(h) ==
    IF keys[h] = NoKey THEN Off
    ELSE IF slab[keys[h]].at > now THEN slab[keys[h]].at - now ELSE 0

Abstract == INSTANCE Schedule WITH queue <- [h \in Handles |-> Remaining(h)]

\* The code implements the schedule: one deadline per pair, the last one that
\* was sent, and only pairs whose deadline has passed come out.
ImplementsSchedule == Abstract!ScheduleSpec

=============================================================================
