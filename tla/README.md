# A TLA+ development for ustcp

`ustunet` (the crate of this repository) is a user-space TCP server stack: one
I/O task reads IP packets from a TUN device, feeds them to one smoltcp
`TcpSocket` per address pair, and hands accepted streams to an asynchronous
application.  This directory holds TLA+ modules that model it, TLC
configurations that check them on small instances, and proofs, checked by
TLAPS, of the central safety properties for instances of every size.

## 1. Inventory

| Component | State | Operations | Source |
|---|---|---|---|
| I/O loop (`io_loop`, `Selector`) | the four futures of the selector, write buffer, `ingress_replies`, `next_poll` | one iteration: use a free writer, wait for one of A (written), B (packet), C (half closed), D (poll update) or an expired deadline | `dispatch/mod.rs`, `util.rs` |
| Ingress (`Interface::process…`) | none | classify a packet: dropped, for a known pair, SYN of a new pair | `dispatch/mod.rs` |
| Socket pool (`SocketPool`) | map of pairs to connections | `process`, `create_syn`, `dispatch`, `drop_tcp_half` | `sockets/mod.rs` |
| Connection (`Connection`, `Inner`, `RwStatus`) | socket and `polling_active` behind the lock; wakers; which halves are dropped | `process`, `dispatch`, `drop_half`, the `wake_…` functions | `stream/internal.rs` |
| Halves (`ReadHalf`, `WriteHalf`) | `eof_reached`, the shared waker | `poll_read_inner`, `poll_write_inner`, `poll_close_inner`, `Drop` | `stream/mod.rs` |
| Delay queue (`DispatchQueue`, `Delays`) | tokio's `DelayQueue` and a map of pairs to its keys | `send`, `remove`, `contains`, `next` | `dispatch/poll_queue.rs` |
| Channels | dropped halves, poll updates (both unbounded), new streams (capacity 1) | send, receive, `unwrap` of a send | `dispatch/shutdown.rs`, `poll_queue.rs`, `listener.rs` |
| Listener | receiving end of the new streams | `accept`, `poll_next`, drop | `listener.rs` |
| Clock | start time | `timestamp`, `origin`, `resolve` | `time.rs` |
| smoltcp, TriLock, tokio, TUN | external | | not in the repository |

`dispatch/mod1.rs` and `dispatch/sendbuf.rs` are not declared as modules of the
crate; they are not compiled and not modelled.

**How the parts meet.**  The I/O task owns the pool and the queue.  A connection
is shared with the two halves through a lock.  The halves talk back through
channels: dropping a half announces it on the close channel; a writer whose
`polling_active` flag is off sends the socket's `PollAt` on the poll channel.
The loop calls wakers when data, room or the end of a direction arrives.

**What is hard.**  The three channels have no common order, so a message may
arrive after the connection it is about was removed, or after the same pair was
opened again.  A stream is handed to another thread before its connection is in
the pool and before its socket has seen the SYN.  Room in the transmit buffer
appears on ingress, but the writer is woken on dispatch.  `polling_active` lets a
writer skip its notification; the flag and the queue must agree.  Once both
halves are dropped, only a deadline leads to the removal.  The selector always
starts with the device.  The task that runs it is woken by whichever source
fires, while it is still polling the others.  Two clocks round a deadline, and
two structures say which peer a socket has.  `PROJECT.json` lists each of these as a hazard, at
its line, with the properties aimed at it.

## 2. Modules

```
TcpSocket <- Connection ----+
    ^                       +--- Ustunet                    (composition)
    +----- DispatchQueue ---+
                 ^
                 +--- Schedule     Handoff                  (abstract)

PollQueue => Schedule <= Ustunet     the queue, as coded and as used
Locking   => Handoff  <= Ustunet     the methods, as coded and as used

IoLoop      the task that runs the loop: slots, buffer, wakers
Ingress     from a packet to the socket that takes it
Clock       a deadline in three clocks

ConnectionProofs <- UstunetProofs <- WakeupProofs
PollQueueProofs  LockingProofs  IoLoopProofs  IngressProofs  ClockProofs   (TLAPS)
```

`Ustunet` is the centre.  The other modules each justify something that it takes
for granted, at a finer grain: `PollQueue` that the queue is one deadline per pair,
`Locking` that a method of a connection is one step, `IoLoop` that the loop comes
around whenever there is something to do, `Ingress` that a segment reaches the
connection of its pair, `Clock` that a deadline that comes out of the queue is over
for the socket too.

* **TcpSocket** - an abstraction of the library's socket, *external*, taken from
  how the crate uses it.  A socket is a record: state, whether it has a peer, data
  unsent and in flight (in segments), our SYN or FIN, the peer's window, an
  acknowledgement that is due, data to be read, and a timer.  `tcp_process` is the
  *set* of results of a segment, `tcp_dispatch` emits at most one packet, and
  `poll_at` answers `Now`, `Time(k)` or `Ingress` from these fields.
* **Connection** - each operator is the body of one method of `Connection`,
  `ReadHalf` or `WriteHalf`, from taking the lock to releasing it.  The code
  never holds the lock across an await, so a method is an atomic change (which
  `Locking` shows).  The
  record also says what the application does with each half: not handed over,
  running, last call failed, waiting, dropped, panicked.
* **DispatchQueue** - the delay queue as a map of pairs to remaining ticks.
* **Schedule** - that map as an abstract specification.
* **PollQueue** - the queue as coded: slab, map of keys, absolute instants, and
  the places that panic.
* **Ustunet** - the composition.  `pc` is the place of the I/O task: `loop` (top
  of the loop, writer), `poll_a` ... `poll_d`, `poll_queue` (the selector),
  `send` and `process` (the two halves of `create_syn`, which awaits in between),
  `exited`, `panicked`.  One action per branch:

| Action | Code |
|---|---|
| `WriteReply`, `Dispatch`, `DispatchPanics`, `NothingToWrite` | the top of `io_loop`; `SocketPool::dispatch` with its `expect` |
| `PollPending` | `Selector::poll` moving on; the queue as the last place |
| `Written`, `DeviceError` | `Selected::A`; the `?` on both device futures |
| `Receive`, `Drop`, `CreateSyn` | `Selected::B` and the classification of a packet |
| `SendStream`, `SendStreamFails`, `ProcessSyn` | the rest of `create_syn` and of `process` for a new pair |
| `DropTcpHalf`, `PollUpdate`, `Expire` | `Selected::C`, `Selected::D`, a deadline of the queue |
| `PollRead`, `PollWrite`, `PollClose`, `DropReader`, `DropWriter`, `CancelRead`, `CancelWrite` | the application's tasks |
| `Accept`, `DropListener` | `TcpListener` |
| `Tick` | the clock: every timer and every deadline comes closer |

* **Handoff**, **Locking** - the waking of the halves.  `Handoff` has one step per
  method: a poll is served, or leaves its waker and sleeps; the I/O loop changes
  the socket and wakes whom it must.  A reader that takes the last data of a stream
  whose peer has closed comes to the end of it (`Served`), and the waker of a half
  that is dropped counts no more (`Leave`).  `Locking` has the same methods as coded: take
  the `TriLock` or wait for it, test, leave the waker, release; or change the socket,
  wake reader and writer one by one, release.  A half may be cancelled or dropped
  in between.  The connection is mapped to what it was when the lock was taken.
  Of `TriLock`, an external crate, it is assumed that one user holds it and that
  releasing it wakes those who wait for it.
* **IoLoop** - the I/O task as its executor sees it: the four slots of `Selector`
  (`insert_a` ... `insert_d` with their assertions, the assertion at the top of the
  loop), `writing` with the buffer that travels into the write future and back, the
  stack of `ingress_replies`, `next_poll`, the delay queue as due and not yet due
  pairs, and who holds the task's waker.  Sources become ready between any two polls.
  What a packet does to a connection is a free choice here.
* **Ingress** - `Interface::process` down to the socket: unicast test, ports, the
  conversion of addresses to an `AddrPair`, the pool, `create_syn`, and
  `check_acceptability` with the endpoints that the socket itself keeps.  Both address
  families, an unspecified and a multicast address, and packets that do not parse.
* **Clock** - `timestamp`, `origin` and `resolve` in ticks that are finer than
  a millisecond, with the delay queue's own start and its own roundings
  (external), and the awaits between taking a timestamp and using it.

A definition whose comment begins with *Slip* is a plausible mistake in the
definition that follows it.  Nothing refers to it; it documents which mistake
which property would notice.

## 3. Runs

| Run | Question | Result |
|---|---|---|
| `connection` | one pair: every kind of segment that is not answered at once, every use of its halves, the device failing at any time | connections without halves stay scheduled, none is forgotten while held, `polling_active` never lies, no egress work without a deadline or a poll update on its way, no deadline or update later than the timer of its socket, no reader or writer stranded; a connection enters the pool as `Handoff` starts and takes only its steps |
| `progress` | liveness under fairness; the listener dropped, the device failing | a writer with room is woken; a connection without halves leaves the pool; each dropped half is announced and counted once; streams in transit belong to pooled connections |
| `accepting` | two pairs, and the application keeps accepting | every stream reaches the application, also one that waits for room in the channel; the loop comes back to the device |
| `window` | a reader and replies, under fairness | acknowledgements and window updates are sent, the latter only to a peer that probes |
| `pollqueue` | the delay queue as coded | map and slab agree, no panic, implements `Schedule` |
| `ioloop` | the task, its slots and its wakers, under fairness | no assertion fails, the task never sleeps beside a free writer and something to write, no wake-up is lost; once nothing new arrives, everything is handled and written |
| `locking` | three users of the lock, step by step | the methods implement `Handoff`; a sleeping half can be woken |
| `ingress` | packets of all kinds and two sockets | key of the pool and endpoints of the socket agree; a connected socket has a peer |
| `clock` | deadlines at every offset within a millisecond | never early by the socket's clock, never late by a millisecond |
| `stale_poll`, `early_use`, `unfinished` | statements of the repository that the code does not keep | violated, see section 6 |

**Bounds.**
`TxCap` and `RxCap` are in segments: 1 separates empty from full, and `connection`
uses 2 for the transmit buffer so that it can be partly full, partly in flight.
`Rto = 1` tells "armed" from "expired"; the code compares timers only with zero, and
`DeadlineMeetsTimer` needs no more than a deadline still pending beside a timer that
is over.
`MaxPolls = 1` bounds the poll updates on their way: a writer does not move while
the channel is full; the findings and the lost-wake-up properties need one update
that is late, and each further one only repeats `QueueSend`.  `MaxReplies` is 0
in `connection` and `accepting`, which leaves out the segments that are answered at
once (data outside the window, segments in TIME-WAIT): they delay dispatches, as a
busy device does too.  It is 1 in `progress`, and 2 in `window`, where replies are to
starve the dispatch.
`Segments` chooses what the peer sends, `AppOps` what the application does besides
accepting and dropping; a run leaves out what its properties do not depend on.
`MinBuf = 1` means nonempty buffers, 0 allows empty ones.  One pair is enough for
the safety of a connection, as a pair interacts with others only through
the place of the loop, the order of the channels and `next_poll`, and the
theorems about the channels hold for any number of pairs; a pair is opened again
after its removal.  `accepting` has two pairs, so that one stream fills the channel
of one place and another waits for room.  `MaxTime = 3` in
`PollQueue` is longer than a timeout of 2 ticks, so instants before, at and after
the present occur.  In `IoLoop` two replies distinguish a stack that is emptied from one
that is not, and one message per channel tells empty from not empty, which is all
that the loop sees.  `Ingress` has two hosts of each family and one port beside
0; two sockets in the pool suffice to mix two peers up.  `Clock` has 3 ticks to the
millisecond and 4 milliseconds to the second, so the queue's start falls on every
offset, a second ends while a deadline is pending, and a delay of 5 is longer than a
second.  `Locking` has no bound.  The proofs of section 4 remove all of these bounds for the
properties they cover, `MaxPolls`, `MaxReplies`, `MaxTime`, `MaxWaiting` and
`MaxSockets` being arbitrary numbers there.

**Deadlock** is not checked in the runs of `Ustunet` and `IoLoop`: the application
may simply stop accepting, whereupon the loop waits at `send`, and after the loop
has ended nothing moves.  `PollQueue`, `Locking` and `Ingress` are checked for
deadlock, and so is `Clock`, whose loop goes on after the last tick.

**Fairness.**  `FairSpec` of `Ustunet` (`progress`, `window`):
`WF(LoopStep)`: the runtime keeps polling a task that is ready.  `SF(Written)`: the
device takes a packet that is offered again and again; strong, because the loop
visits `poll_a` only from time to time.  `WF(Tick)`: time passes.  Nothing is
assumed of the application, except in `AcceptingSpec` (`accepting`), where it
accepts if it can: `WF(Accept)`.  This is needed: `create_syn` awaits room in the
channel of new streams inside the I/O loop (`sockets/mod.rs:146`), so while the
application does not accept, a second new stream stops everything, and the
streams that it holds are not served.  Further assumptions are hypotheses of the properties, and the
properties fail without them:

* `QueueServed`: the selector comes to the delay queue again and again.  The code
  does not promise this under sustained ingress, as futures are polled in fixed order.
* `RepliesPause`: the writer is free and no reply waits, again and again, wherever the
  loop is.  A loop that has gone quiet satisfies it, so a writer left asleep or a
  connection forgotten in such a loop would be found.  It excludes only a peer that
  keeps provoking replies: they go before every dispatch and starve all connections.
* `Probed` (in `PeerIsTold`): the peer keeps sending.  A reader that makes room
  notifies nobody, so a window update waits for the next segment.
* For `DroppedIsRemoved` the peer acknowledges what is in flight, as no socket has
  a timeout and the code retransmits forever otherwise, and it does not start
  TIME-WAIT again and again (`LetsGo`).

`FairSpec` of `IoLoop` (`ioloop`): `WF(TaskStep)`, the executor runs a task that was
woken, and `WF(DeviceReady)`, the device becomes writable again.
`EverythingIsServed` supposes that arrivals stop, for the same reason as
`QueueServed`.  So two weaknesses of the code are assumed away and not caught:
starvation of the delay queue under sustained ingress, and of every dispatch by
replies.  Nor does a property bound `ingress_replies`, which grows while the
device takes no packet; `MaxReplies` is a bound of the model.

## 4. Proofs

All theorems hold for any set of pairs, any buffer sizes and timeout, any kinds
of segments and operations, from `TcpAssumption`, `UstunetAssumption`,
`PollQueueAssumption`, `IoLoopAssumption`, `IngressAssumption` and
`ClockAssumption`, which only give the constants their types (and say that buffers,
timeouts and units of time are not zero, and that "no pair" is not a pair).

Three theorems have the hypothesis `MinBuf = 1`, that no read or write is given an empty
buffer: `WriterCorrect`, `ReaderCorrect` and `HandOffCorrect`.
It is needed.  `poll_read_inner` and `poll_write_inner` take "nothing was copied" for
"nothing is there", so a call with an empty buffer sleeps beside data or room; with
`MinBuf = 0` TLC shows it.  `WorkCorrect` and all the others do without it.

* **PollQueueProofs** - `PQTypeTheorem`, `MirrorTheorem`, `NeverPanicsTheorem`,
  `RefinementTheorem`.  The invariant is that a pair has a key exactly if the slot
  of the key holds the pair; with it, each operation on slab and map is one
  operation of `Schedule`, and the panicking branches are unreachable.
* **ConnectionProofs** - the library's operators keep the fields in their ranges, and
  unsent plus in flight within the capacity; and what each method of a connection leaves alone: the I/O
  loop never hands over, drops or marks a half except in `drop_half`
  (`Undisturbed`), a dispatch sets `polling_active` only with the answer `Now`, and
  keeps a connection without halves only with a deadline (`DispatchConn`).
* **IoLoopProofs** - `AssertionsTheorem`, `FreeWriterTheorem`, `WakeUpTheorem`, and
  the types they need.  The invariant `IoInv` says where each future is (in its slot
  except while its result is handled; the write future exactly while the writer is
  not free), that a free buffer is empty, and of each source that was polled before
  the present place that it is not ready and holds the waker - or the task was
  woken meanwhile.  The last part is what makes "no wake-up is lost" inductive:
  the property itself speaks only of a sleeping task.
* **LockingProofs** - `ReachableTheorem`, `LockingRefines`.  The invariant relates,
  at each place inside a critical section, the connection to what it was when
  the lock was taken (`HalfDone`, `LoopDone`); at the release the difference is
  exactly one step of `Handoff`, and every other step maps to a stutter.
* **IngressProofs** - `EndpointsTheorem`, `PeerTheorem`.  The invariant `Fits` gives
  the endpoints of a socket in terms of the pair under which the pool keeps it, in
  each state; that converting an address and back is the identity is a lemma.
* **ClockProofs** - `EarlyCorrect`, `LateCorrect`.  All roundings are divisions by
  constants, of which the proof uses only the two inequalities that characterise a
  quotient (`Division`, `Quotient`).  The invariant `ClockInv` places the slot of the
  queue between the timer and a millisecond after it, in ticks (`NotBefore`,
  `NotAfter`), or says that it is over already, and keeps for a pair that was handed out
  that its timer is over, across the await before the dispatch (`HandedOut`).
* **UstunetProofs** - `TypeCorrect`, `TransitCorrect`, `HalvesCorrect`,
  `DroppedScheduledCorrect`, `ActiveCorrect`, `RemovalCorrect`, `DeadlineCorrect`,
  `QueueCorrect`.
* **WakeupProofs** - `WorkCorrect`, `WriterCorrect`, `ReaderCorrect`,
  `HandOffCorrect`.

**The account of the halves.**  The inductive invariant of `UstunetProofs` is the conjunction of `TypeOK`,
`StreamsInTransit`, `HalvesAccounted`, `DroppedStaysScheduled` and
`ActiveIsScheduled`.  No conjunct is inductive alone.  Types need
`StreamsInTransit`, because between `create_syn`'s await and the processing of
the SYN the loop uses the pair it remembers.  That a close message finds its
connection needs that no half is announced twice and that a half which is marked
is announced no more; this needs to know that a half in use belongs to a pooled
connection, which is `StreamsInTransit`.  The schedule needs that a connection
enters the pool with nothing dropped and nothing active.  Most actions are
*calm* (`Calm`): they move no half, send no announcement and take no pair off the
schedule, and one lemma deals with all of them.  `Dispatch`, `CreateSyn`,
`SendStream`, `SendStreamFails`, `DropTcpHalf`, the drops of halves, `Accept`,
`DropListener` and the end of the loop have a lemma each.

`HalvesCorrect` and `RemovalCorrect` together say that the `expect` in
`drop_tcp_half` cannot fail.  The `expect` in `SocketPool::dispatch` *can*
(finding 1), and the proofs do not assume that it cannot.

**Deadlines.**  `DeadlineCorrect` says that nothing in the delay queue or in the poll
channel is due later than the timer of its socket, although a poll update that is old
replaces a deadline that is new (`dispatch/mod.rs:184`).  The reason is that no
operation brings a timer forward: it stops it, leaves it alone or sets it to a full
timeout (`NotAdvanced`), so what was on time when it was sent still is when it is taken.
`poll_at` never answers later than the timer.  The invariant (`Punctual`) speaks of the
pairs outside the pool as well, because an update may wait while its pair is removed
and opened again.

**Wake-ups.**  `WakeInv` adds to it that a pooled pair is `Attended`:

* its socket is `Coherent`: without a peer it only listens or is closed and has nothing
  to do; and what is in flight has a timer, or more is to be sent into an open
  window.  This is why `poll_at` says `Ingress` only when there is no work
  (`IngressIsIdle`), and why room can appear only in a socket that was scheduled already
  (`Answered`): an acknowledgement frees room for segments that were in flight;
* whoever waits has left a waker and waits for something that can still come
  (`Waiting`);
* if it needs a dispatch, to send or to wake a writer that has room by now, then one is
  scheduled or a poll update that schedules it is in the channel (`Needs`, `Coming`).

None of the three properties is inductive alone: that `process` may leave a writer
asleep beside new room, as it does, rests on the schedule, which rests on the socket.
Besides, the invariant says that the pool is empty after the loop has ended, and that a
socket outside the pool only listens, so that a pair enters it without work.  A writer
skips its notification when `polling_active` is set, and here `ActiveIsScheduled` is
used.

**Composition.**  `HandOffCorrect` says that each pooled connection of `Ustunet`, seen
as what a poll would find, whose waker the loop has and who sleeps, takes only steps of
`Handoff`, and enters the pool as `Handoff` starts.  The critical sections of `Locking`
implement `Handoff` too (`LockingRefines`), so that the methods, which
`Ustunet` takes for atomic, may be the ones of `Locking`.  The proof needs `WakeInv`,
because `Handoff` lets a writer be woken or closed only as the code does if it waits
properly, and that a half which was not handed over has left no waker
(`FreshInv`).  It showed a mistake in an earlier `Handoff`, in which a reader
that takes the last data always came to wait, and never to the end of the stream.
`QueueCorrect` is the same for the queue: while the loop runs it changes by one
call of `Schedule` at a time, and by time; `RefinementTheorem` shows that the queue as
coded does nothing else.  Here the end of the loop is left out, which drops the queue.

TLC confirms `ClockInv`, `WakeInv` and `FreshInv` as well, on the bounds of `clock` and
`connection`.

**Only model-checked** is liveness, which is out of the prover's reach: `WriterIsWoken`,
`DroppedIsRemoved`, `PeerIsTold`, `LoopComesAround`, `StreamReachesApplication` and
`EverythingIsServed`.  Every invariant and every action property of the passing runs is
a theorem.

## 5. What is not modelled

* Formatting of packets (`packet_to_bytes`), parsing of headers, and checksums: the
  library's, without an effect on control beyond "does not parse".
* The widths of time stamps: an `i64` of milliseconds does not overflow.
* `TcpListener::bind`, which opens the TUN device and starts the task.
* `dispatch/mod1.rs` and `dispatch/sendbuf.rs`: no `mod` declaration names them, so they
  are not part of the program.  The examples are applications; `Ustunet` lets the
  application do more than they do.
* Inside the external socket: sequence numbers, retransmission back-off, delayed
  acknowledgements, zero-window probes and keep-alives.
* Its retransmission timer is an **assumption**: `TcpSocket` takes it to be armed
  whenever something is in flight and no more is to be sent, to stop only when all of that
  is acknowledged (`Acked`, `FinAcked`), and not to be touched by a FIN that arrives
  (`FinResult`), except to start TIME-WAIT.  The
  fork of smoltcp that the crate uses is not in the repository.  `WriterNotStranded`,
  `WorkIsScheduled`, `WriterIsWoken` and `DroppedIsRemoved` rest on this, as does
  `Coherent` in the proofs: a library that idles the timer with data in flight
  would leave such a connection without a deadline, and with it a writer that gets
  room from a late acknowledgement.  `DeadlineMeetsTimer` rests on a timer never being
  set to less than it was; a library whose timeout adapts may shorten it.
* The inside of `TriLock` and of tokio's channels and timers.
* What becomes of tasks after the I/O loop has ended.  A half that is used then panics
  in an `unwrap`, which is modelled; nothing in the repository says what should
  happen, so no property does.

In `Ustunet`, moreover, only the number of `ingress_replies` counts (`IoLoop` has
the stack), and no task is polled without reason or with another waker.

## 6. Where the code and its documentation disagree

1. `stale_poll` - `sockets/mod.rs:102` expects that nothing is dispatched after
   its removal.  A poll update that is still in its channel when the two close
   messages are taken (C goes before D) reinserts the pair after the removal, and
   the I/O task panics when it expires.
2. `early_use` - `stream/mod.rs:296` wants readers to be usable before the
   handshake is finished, but covers only `SynReceived`.  The stream is handed
   over while the socket is still in `Listen`; a read then reports the end of the
   stream.  A write before the end of the handshake fails with `ConnectionAborted`,
   and then the connection is opened.  The repository's README promises APIs like
   those of any asynchronous TCP library.
3. `unfinished` - "Finished dispatching" (`stream/internal.rs:125`) is logged,
   and the connection removed, whenever one dispatch emits nothing, also with data
   in flight or held back by a closed window.

A fourth has no run of its own.  `stream/internal.rs:28` says that the writer's waker is
for a full buffer, but a write of an empty slice waits on it although there is room
(`stream/mod.rs:377`), and a read into an empty buffer waits beside data.  With
`MinBuf = 0` in `connection.cfg` TLC finds `WriterNotStranded` and `ReaderNotStranded`
violated, each by such a call; all runs and the theorems that need it suppose
nonempty buffers.

## 7. Plan

Done: the composition with its safety properties; liveness of writers, of dropped
connections, of new streams and of window updates; the delay queue, the
critical sections, the I/O task, ingress and the clock at their own grain; the
proofs of section 4.  Of the compiled code, what is left is listed in section 5.

Next, in this order:

1. **Composition** with `IoLoop`: a proof that the order in which `Ustunet` polls the
   sources and uses the writer is that of `IoLoop`, with its slots and wakers forgotten.
2. **Composition** with `Ingress`: the pairs of `Ustunet` are the keys of `Ingress`, and
   its kinds of segments are what `StateAccepts` tells apart.
3. A bound on how long a dispatch that is due *now* may be put off when a poll update
   that is old and waits for the timer replaces its deadline (`dispatch/mod.rs:184`);
   `DeadlineMeetsTimer` bounds it by the timer, if one is armed.
