# Asterisk 1.8.21: a TLA+ verification of its threading core and two of its drivers

Asterisk is a telephone exchange in one process with very many threads. A thread
per call services a channel; drivers queue frames to channels from their own
threads; timers run in scheduler threads; background work runs in
taskprocessors; and a call is moved from one channel to another, while all of
this goes on, by a *masquerade*. This project models that core: the scheduler,
the heap beneath it, the taskprocessor, the life cycle of channels with the
masquerade, the read queue of a channel, and autoservice; and of two drivers the
part that rests on it or carries calls between exchanges: the Local proxy
channel, and the reliable transport of IAX2. The modules are translated from
`src/main/*.c`, `src/channels/chan_local.c`, `src/channels/chan_iax2.c` and the
headers; `PROJECT.json` maps every definition to its lines.

Layout: `X.tla` is the specification of a component, `MCX.tla` and `MCX*.cfg`
its instances for TLC, `MasqueradeInv.tla` and the five modules
`MasqueradeLemmas`, `MasqueradeThreads`, `MasqueradeDo`, `MasqueradeCounts`,
`MasqueradeProofs` the inductive invariant of `Masquerade` and its proof;
`Iax2SendProofs`, `Iax2OrderProofs`, `Iax2AckProofs` are the proofs about `Iax2`.

## 1. Inventory

What the repository consists of, what each part keeps and does, and what makes
it hard. Parts marked (M) are modelled; for the others PROJECT.json gives the
reason and section 8 the order in which they are planned.

| Part | State | Operations | What is hard, what must hold |
|---|---|---|---|
| (M) scheduler, `main/sched.c` | heap and hash table of entries, cache of structures, id counter; thread, condition variable, stop flag | add, replace, delete, run queue, wait, thread add/poke/destroy, the `AST_SCHED_DEL` macros | callbacks run without the lock; ids outlive entries; sleeping decided before it happens. Queue and table agree; nothing runs after it was deleted; nothing due is overslept |
| (M) heap, `main/heap.c` | array, each element's own index | push, pop, remove | index kept through swaps; growth and its failure. It is a priority queue |
| (M) taskprocessor, `main/taskprocessor.c` | container of named singletons, queue, worker | get, push, unreference, ping and report commands | unlink, drop and relink are three steps; a destructor that joins. One instance; in order; no use after destruction |
| (M) channels and masquerade, `main/channel.c` | container by name, references, `masq`/`masqr`, zombie flag, driver side | rename, find, plan and perform a masquerade, hang up | uncounted pointers between channels of different threads; destruction delegated from one function to another. No use after free, no leak, one hangup per driver side |
| (M) read queue, `main/channel.c` | frames, alert pipe, soft hangup flags | queue at tail or head, read, soft hangup and its cancellation, deferred digits, splice in a masquerade | bounded queue that drops media, marks in the queue, a byte per frame. No lost wakeup, no lost control frame |
| (M) autoservice, `main/autoservice.c` | list of channels, deferred frames, generation counter | start, stop, ignore; the thread | the thread uses a private copy of the list. Nothing freed is touched; frames return in order |
| (M) Local channels, `channels/chan_local.c` | two channels, one counted private structure with flags | call, read, write, hang up, optimise away | three locks taken in either order, references that replace them, a masquerade that removes the pair from the call. Nothing freed is used, frames stay in order, both ends go, no deadlock |
| (M) IAX2 full frames, `channels/chan_iax2.c` | four octets per call, frames awaiting acknowledgement, timers | send, retransmit, acknowledge, ask again, hang up, destroy | loss, duplication, reordering, wrap; several paths that destroy a call. In order and once; nothing acknowledged is lost; delivered or given up |
| objects, `main/astobj2.c` (counts, locks, link and unlink as part of (M) modules) | counts, hash containers, iterators | ref, link, unlink, callback, iterate | iterating while others unlink |
| jitter buffers, `main/jitterbuf.c`, `fixedjitterbuf.c`, `abstract_jb.c` | frames by timestamp, history of delays | put, get, reset | wrapping timestamps, growth and shrinking |
| bridging, `main/bridging.c`, `bridges/` | bridge array of channels, thread, technology | join, impart, depart, suspend, smart migration | a bridge thread against the threads of its channels |
| device state and events, `main/devicestate.c`, `event.c` | cache per device and server, subscriptions | change, aggregate, subscribe | aggregation order, handlers during unsubscribe |
| dialing, `main/dial.c`, `apps/app_dial.c` | channels called, answer, timeout | run, join, hang up | asynchronous thread against the caller |
| call completion, `main/ccss.c` | agents, monitors, core instances | state transitions on a taskprocessor | events out of order |
| features and parking, `main/features.c` | parking lots, feature maps | park, transfer, pick up | transfers over masquerades |
| UDPTL, `main/udptl.c`; RTP | sequence numbers, retransmission | send, acknowledge, recover | loss, duplication, reordering, wrap |
| dialplan, `main/pbx.c`, `pbx/` | contexts, hints | match, execute, merge | reload during calls |
| applications, `apps/` | queues, conferences, mailboxes | many | shared membership |
| drivers, `channels/` | protocol state | many | SIP, DAHDI, PRI, ... |
| manager, HTTP, CDR, CEL, configuration, codecs, formats, functions, utilities | | | text, files, signal processing, databases |

Interactions of the modelled parts: `sched.c` keeps its entries in `heap.c`
(`Sched` takes the heap by the contract that `Heap` is shown to meet);
`ast_do_masquerade` splices the read queues and swaps the alert pipes
(`ReadQueue!Masquerade`) inside the sequence of steps that `Masquerade` orders;
autoservice reads and refills the read queue. `Local` composes a driver with the
channel core: `ast_hangup`, `ast_read`, `ast_write` and `ast_do_masquerade` appear
in it step by step, with the locks they hold while they call the driver.

## 2. The modules

Each action is one critical section, or one step between two points at which
another thread can interfere; a lock that is held across several actions is a
variable, one that is not is implicit.

**Sched.** `heap`, `ht`, `cache`, `schedcnt`, `eventcnt` are the fields of
`struct sched_context`; `fields` the contents of every `struct sched`, which is a
pointer with an owner. `rpc`, `deadline`, `limit`, `current` are the thread's
position in `sched_run`/`ast_sched_runq`, `idvar`, `tries`, `upc` a user's id
variable and position in a macro. `NextEvent` is one turn of the loop of
`ast_sched_runq`, shared by `RunqEnter` and `CallbackReturn` because the lock is
released only for the callback. Time is in ticks, `Ms` ticks to a millisecond,
so that the rounding of `ast_sched_wait` and the slack of `ast_sched_runq` are
visible; the clock is read twice on the way to a sleep and `lag` remembers how
much passed in between. Ids have `IdBits` bits.

**Heap, PriorityQueue.** The array, the index stored in each element, and the
room; `max_heapify` and `bubble_up` are the recursive loops of the code.
`PriorityQueue` is what `heap.h` promises; `IsPriorityQueue` is the refinement,
with the array's contents as the abstract set.

**TaskProcessor.** Instances of one name (names share only the container and its
lock). `clock` is the lock of `tps_singletons`, `refs` and `life` the object,
`queue`, `running`, `signalled`, `wpc`, `task` the worker; its statistics are left out. Clients
follow `ast_taskprocessor_get/push/unreference`; CLI sessions follow
`cli_tps_ping` and `cli_tps_report`, which drop their references with a plain
`ao2_ref`. `DropRef` is `internal_ao2_ref`: a count, and the destructor at zero.

**Masquerade.** One thread per channel, which services it, may rename it, and
hangs it up exactly once, and transferers that look channels up, plan a
masquerade and may perform it. `ast_do_masquerade` is `LockContainer`,
`NothingToDo` or `Unlink`, `Shuffle`, `HangupClone`, `Link`, `UnrefOriginal`,
`UnrefClone`; `ast_hangup` is `StartHangup`, `ast_hangup`, `HangupUnlink`,
`HangupClose`, `HangupUnref`. `bucket` is where the container filed a channel,
which is not its name once that has been changed in place. Names keep the
channel they were made for and a tag instead of characters. `Found` and `Linked` are
`ao2_unlink` and `ao2_link`: the bucket is chosen by the hash of the present name.
`MayMasquerade` has the tests made once the pair is settled; a driver's `hangup`
that reports a failure (`channel.c:6900-6901`) counts as one that was called.

**ReadQueue.** Every operation holds the channel lock and is one action, but for
`ast_queue_hangup`, which locks the channel twice: it sets the flag if it gets the
lock, lets go, and queues the frame in `QueueHangup` (`hanging` counts the threads
in between). Control frames and digits have serial numbers, so that a lost or repeated one shows;
media frames are alike. `__ast_queue_frame` gives the possible results of queueing,
the queue and the pipe: with `AllocFails` also the one in which the frame could not be
copied, in every function that queues, `ast_softhangup`, the mark that `__ast_read`
queues and the null frames of a masquerade included. `ReadQueued` and `ReadDriver` are the two halves of `__ast_read`.
The limits 128, 96 and 64 are constants.

**Autoservice.** `aslist`, the entries, and the thread's private copies `mons`
and `ents`. The counter `as_chan_list_state` matters only by comparison with a
saved value: `stale` is the set of threads whose saved value is still current.
A thread may stop autoservice on its channel whether or not it started it, as
`ast_hangup` does; `InService` being false is then the code's silent return. With
`NoMemory` the copy of a frame may fail where it is deferred (`autoservice.c:154-160`)
and where it is put back (295); what was lost that way is in `lost`, so that a frame
lost for want of memory can be told from one that was forgotten. `Ignored` are the
frame types `ast_autoservice_ignore` is called with; ignoring `AST_FRAME_CONTROL`
drops a deferred HANGUP too, since 294 looks at the frame type only.

**Iax2.** Two ends, `0` and `1`, of a call that is up. `oseqno`, `iseqno`, `rseqno`,
`aseqno` are the octets of `struct chan_iax2_pvt`; `tx` is what `iax2_send` has
handed to the transmit taskprocessor, `queue` is `frame_queue`, where each frame
has its timer. `net` never forgets a packet, so that any may arrive late, twice or
not at all; that the timer may fire at any time stands for any delay. `reading` is
a packet between `find_callno`, which looks the call up without `iaxsl`, and the
rest of `socket_process`, which holds it. A payload is its place in what its sender
sends; `n`, `start`, `sent`, `delivered` and `acked` are history. The handler of a
frame in order is `ProcessData`, which may send a frame of its own before the
trailing ACK is considered.

**Local.** Thread `O` called the pair and services the owner `o`; thread `P` is the
PBX on the outbound channel `c`, bridged to `b`, a channel of another driver.
`pc` and `stack` are a thread's position and the calls it has to return from, since
`local_hangup` runs inside `ast_hangup`, inside `ast_do_masquerade`, and, for a
channel without a PBX, `ast_hangup` inside `local_hangup`. Every wait for a
channel's lock or the container's is a step, `ao2_unlink` and the locks inside
`ast_hangup` and the end of `ast_do_masquerade` included; a lock that is only tried is
read in the step that tries it. `CanTry` is one step although the owner's queue is
looked at (523) before the owner is locked (535): until the masquerade
only the thread that looks adds to that queue. `found` is what `awesome_locking` saw in the pvt and then
has to see again once everything is locked. `WriteStart` and `WriteBridged` are
`check_bridge` before and after it lets go of the pvt; `QueueStart`, `WriteOther`
and `WriteBack` are `local_queue_frame`.

Definitions called `X_Something` and described as a *variant* are the
definitions with a plausible mistake; they are used by no specification and
serve to see that the properties notice it.

## 3. Runs

Passing runs (distinct states in parentheses).

| Run | Shows |
|---|---|
| `MCSched` (1.1 M, symmetric) | `QueueAgrees`, `OneOwner`, `CancelledNeverRuns`, `AtMostTwicePerRunq`: two users against the thread, with bare-context use and `AST_SCHED_REPLACE` |
| `MCSchedThread` (476 k) | `NoOversleep`, `TimeoutFindsWork`, and under fairness `DueEntriesRun`, `DestroyReturns` |
| `MCHeap` (858, symmetric) | `IndexIsPosition` and the refinement `IsPriorityQueue`, seven elements, three priorities |
| `MCTaskProcessor` (66 k) | `Singleton`, `ExecutedInOrder`, `UnreferencedIsDestroyed`, `NoUseAfterFree`, and under fairness `TasksAreProcessed`, `CallsReturn`: two clients that come and go, one that stays once it has its reference, and a CLI session from then on |
| `MCMasquerade` (209 k) | `NoUseAfterFree`, `EachSideHungUpOnce`, `NothingLeaks`, and under fairness `AllDestroyed`, two channels and two transferers |
| `MCReadQueue` (81 k) | `MarksAreLast`, `NullMeansDrained`, `HangupCalledOff`, and under fairness `SoftHangupSeen`, one channel |
| `MCReadQueueMasq` (1.2 M) | `NoLostWakeup`, `KeptOrRead`, two channels and a masquerade, with failing allocations |
| `MCAutoservice` (736 k) | `ThreadHoldsNothingFreed`, `FramesInOrder`, `FlagFollowsService`, `DeferredAreKept` (a deferrable frame is in one place, exactly once, unless it was ignored or there was no memory), and under fairness `CallsReturn`; the creation of the thread may fail for one of the two users |
| `MCIax2` (51 k) | `InOrderOnce`, `AckedWasReceived`, and under fairness `SentIsDelivered`, `CallIsDestroyed`: each end may send a frame, one hangs up, retransmissions run out |
| `MCLocal` (386 k) | `NoUseAfterFree`, `PairAgrees`, `FramesInOrder`, and under fairness `PairGoes`, `OperationsReturn`: calling, talking both ways, optimising and hanging up from every side, at any time |

Runs that end in a counterexample, each a place where the code does not do what
a comment or header says:

| Run | What happens | What is said |
|---|---|---|
| `MCTaskProcessorRelink` | no client stays, and a CLI session's drop falls between the client's drop and its relink: a destroyed object is linked | `taskprocessor.h:80-81` |
| `MCIax2Wrap` | the window test compares octets as they are: once `oseqno` has wrapped and `rseqno` has not, any number passes, and a late acknowledgement calls off the retransmission of a frame that was lost | `chan_iax2.c:10237` |

Other behaviour that a reader of the comments would not expect is part of the
models, but has no run of its own:

* A masquerade appends the frames of the original behind an end-of-queue mark of the
  clone (`channel.c:6721-6725`); `ast_channel_clear_softhangup` looks for the mark
  only at the end of the queue (2723-2728), and the hangup it should call off
  happens. `HangupCalledOff` is checked without a masquerade.
* Two threads that start autoservice on one channel at the same moment insert an
  entry each (`autoservice.c:183-216`), and frames deferred to one are put back
  before or after those of the other. `MCAutoservice` has one thread per channel.
* `AST_SCHED_DEL` tries ten times and then forgets the id (`FinishMacro`); an
  entry whose callback runs that long and then reschedules itself stays queued,
  although `sched.h:39-50` speaks of "a loop construct to ensure that the
  scheduled task get deleted".
* Ids are an unsigned counter stored in an `int` (`AsInt`): after 2^31 additions
  they are negative, where `sched.h:353` promises ">=0", and cannot be deleted.
* A CLI session that holds a reference while the last client leaves makes
  `ast_taskprocessor_unreference` link the object again, and nobody unlinks it
  any more. `UnreferencedIsDestroyed` therefore needs the client that stays.
* A ping that cannot be pushed returns with `cli_ping_cond_lock` locked
  (`taskprocessor.c:237-241`), and the next ping blocks the worker for ever;
  `TasksAreProcessed` makes an exception for it.
* Digits are not deferrable (`ast_is_deferrable_frame`, `channel.c:1818-1844`), so
  autoservice frees them, although `channel.h:2242-2244` lists DTMF among the frames
  that are cached and put back. `DeferredAreKept` says of a digit only that it is never
  repeated; that a digit is kept is false of the code as soon as the thread reads one.
* `ast_autoservice_start` leaves `AST_FLAG_END_DTMF_ONLY` set when the thread
  cannot be created; `FlagFollowsService` says exactly that.
* `channel.h:2222` says `ast_autoservice_start` returns -1 for a channel already
  in autoservice; the code counts the nested start and returns 0.

## 4. Bounds

* `Sched`: two structures and two users make the running entry, a queued entry
  and a cached one coexist; two adds make a structure be reused under
  a new id that an old one may still be held against. `Ms = 2` distinguishes ticks from milliseconds where rounding is the
  question. `MaxLag = 1` tick passes between the two clock readings. `Retries`
  is 2 instead of 10: a macro that has given up is the same after any number.
* `Heap`: seven elements are three full levels; the room starts at one and
  grows three times.
* `TaskProcessor`: two instances, so that a second one could appear beside the
  first; three clients, a CLI session, three tasks, pings included.
* `Masquerade`: two channels and two transferers let masquerades of the same pair,
  in either direction, be planned and performed by several threads at once, against
  the hangups of both; more channels are covered by the proofs.
* `ReadQueue`: limits 3, 2 and 1 in place of 128, 96 and 64 keep their order, and
  are exceeded with `MaxFrames` 3 and the frames of hangups (one channel), or by a
  masquerade. Allocations fail in `MCReadQueueMasq` only: a soft hangup whose frame
  cannot be allocated wakes nobody, so `SoftHangupSeen` is about enough memory.
  `MCReadQueue` has no masquerade, and in neither run is a HANGUP put at the head of
  the queue, as autoservice does with one it deferred: `MarksAreLast` and
  `NullMeansDrained` are about channels outside autoservice.
* `Autoservice`: two channels with a thread each, one of which nests its starts
  (`MaxUses`); two frames suffice to be out of order. `Ignored` is the control type:
  ignoring a type that is never deferred has no effect.
* `Iax2`: one frame and a HANGUP in one direction, one frame in the other, two
  transmissions of each (`max_retries` is 4 in the code). This is enough for a gap, a
  repetition, a VNAK, a stale acknowledgement and giving up; the proofs have up to
  254 frames each way. `MCIax2Wrap` starts two frames before the wrap.
* `Local`: three frames from the far end are one that waits on the owner, one whose
  writing brings the optimisation about, and one that is queued on the bridged
  channel meanwhile; one frame back is what may lie on the outbound channel. The
  pair starts with or without "/n".

Symmetry is used over the structures of `Sched` in its safety run and over the
elements in the refinement of `Heap`, whose property is a step property that
treats elements alike; never in a liveness run. Deadlock is checked in every
passing run in which the system cannot stop (heap, read queue, autoservice); it
is not where it may: a destroyed scheduler, channels that are all gone, and
taskprocessors when the tasks or instances of the bound are used up, calls that
are over.

## 5. Fairness

* `Sched!LiveSpec`: the thread runs, the clock moves on to its bound, a callback
  returns, and the joining thread goes on. No user ever has to do anything.
* `TaskProcessor!LiveSpec`: workers and calls in progress are scheduled; a task
  returns. Clients need not come or go.
* `Masquerade!LiveSpec`: `ast_do_masquerade`, `ast_hangup` and transfers that have
  begun proceed, and each channel's thread hangs it up in the end, which is what
  a thread that owns a channel does. Weak fairness suffices although the
  container lock is contended, since in the end nobody is left to compete.
* `ReadQueue!LiveSpec`: a reader whose alert pipe is readable reads, and a call of
  `ast_queue_hangup` that has begun queues its frame.
* `Autoservice!LiveSpec`: the thread and the calls in progress are scheduled;
  `ast_cond_wait` need not return without a signal.
* `Iax2!LiveSpec`: the transmit taskprocessor, the timers, a thread that has a packet
  and a channel that was told to hang up go on. The network need not deliver
  anything: `SentIsDelivered` then holds because the call is given up.
* `Local!LiveSpec`: each thread goes on with what it does, `O` reads what its channel
  has for it, and the bridge reads and ends. Nobody has to call, write or hang up.
  Weak fairness of a thread suffices although `awesome_locking` tries again and
  again, because the lock it tries is held for finitely many steps.

## 6. Proofs

`MasqueradeProofs` proves, for any finite sets of channels and transferers,

| Theorem | Statement |
|---|---|
| `InvHolds` | `Spec => []Inv` |
| `TypeCorrect` | `Spec => []TypeOK`, with counts that are never negative |
| `NeverUsedAfterFree` | `Spec => []NoUseAfterFree` |
| `SidesHungUpOnce` | `Spec => []EachSideHungUpOnce` |
| `AlwaysFoundByName` | `Spec => []FoundByName` |
| `AlwaysPairedOff` | `Spec => []PairedOff` |
| `NothingEverLeaks` | `Spec => []NothingLeaks` |

from the assumption `MasqueradeConstants` alone (the sets are finite and
disjoint, and the null pointer is in neither).

None of the properties is inductive: a step that decrements a count keeps the
channel alive only if somebody else still has a reference. `MasqueradeInv` states
the missing fact. `HoldersOf(c)` is the set of all who hold a reference to `c`:
the system (until the channel's thread or, if a masquerade is pending,
`ast_do_masquerade` has given it back), the container, a transferer's two
lookups, and the two safety references of a masquerade. `Counted` says that
`refs[c]` is the number of these holders. `Control` says the rest: where the
threads are and what their local variables then hold (`Locals`), that a
masquerade in progress was planned (`Planned`), who is a zombie and when the
clone's thread may be gone (`Zombies`), what is in the container (`Container`),
and which channels have lost their physical side (`Sides`).

The proof has two halves. Each action preserves `Control`: the `...Step` lemmas of
`MasqueradeThreads` (hangup, transfer, rename) and `MasqueradeDo`
(`ast_do_masquerade`). Each action preserves `Counted`, given `Control` before and
after: the `...Counts` lemmas of `MasqueradeCounts`, which show which holder an
action adds or removes and use the four facts of `MasqueradeLemmas` about
cardinalities (`Keeps`, `Gains`, `Loses`, `Swaps`). `MasqueradeProofs` puts them
together; a destroyed channel then has no holder (`DestroyedIsUnheld`), and the
theorems follow, since every use of a channel is a holder.

The control invariant, and with it `Inv`, `PairedOff` and `FoundByName`, are proved
and not part of a run.

About `Iax2`, from `Iax2Constants` (at most 254 frames and a HANGUP each way, so that
no packet can meet a frame 256 numbers younger):

| Theorem | Statement |
|---|---|
| `InOrderOnceHolds` (`Iax2OrderProofs`) | `Spec => []InOrderOnce` |
| `AckedWasReceivedUntilWrap` (`Iax2AckProofs`) | `Spec => []((\A p \in Peers : Unwrapped(p)) => AckedWasReceived)` |

`InOrderOnce` needs to be known of the packets on their way and not only of what
was delivered: every frame in `tx`, in `queue`, in `net` or in a thread's hands
carries the octet of its place (`oseqno` is `start + n - 1` modulo 256), and
`oseqno` and `iseqno` are `start` plus the numbers sent and delivered. A frame whose
octet is the expected one is then the next frame, because the places of all frames
lie within 255 of each other. `Iax2SendProofs` has the type invariant and what the
sending actions do to this, `Iax2OrderProofs` what the receiving ones do.

`AckedWasReceived` needs the acknowledgements: until the numbers come round, every
`iseqno` on its way to an end lies between `start` and what the other end has been
given, and `rseqno` is one of them. If frames are outstanding, the window test turns
away what is older than `rseqno`; if none is, it lets everything through, but nothing
is left for an old acknowledgement to call off. So what `Covered` covers had been
given to the other end. `MCIax2Wrap` shows that the condition cannot be dropped.

## 7. What is only model-checked, and what is not modelled

Liveness is outside the prover. `Heap` is recursive and is checked by TLC only;
`Sched`, `TaskProcessor`, `ReadQueue`, `Autoservice` and `Local` have no proofs yet.

Left out of the modelled files: the redirection to proxied channels in
`__ast_channel_masquerade` (5995-6046); what a masquerade does with formats, CDRs,
datastores, indications and connected-line data; DTMF emulation, generators,
audiohooks and file descriptors other than the alert pipe in `__ast_read`; failed
growth of the scheduler's heap (255 entries fit before it first grows); the failure
paths inside the creation of a taskprocessor; frames a framehook adds. A channel
exists from the start of a run; a channel created later behaves as one that has
been idle. `MAX_AUTOMONS` (1500 channels) is not reached.

Of `chan_local.c`: digits, text, HTML and indications, which take the way of
`local_write` through `local_queue_frame` but are partly called without the channel's
lock (`ast_senddigit_begin` calls `local_digit_begin`, 786, which reads `tech_pvt`
before it takes a reference); answering, options, device state, the flags for music
on hold and for reporting the bridged channel; generators on both channels; the
failure of `local_request`; the indications at the end of a masquerade. Two branches
cannot be taken by the threads of this model and are left out: `local_call` finding its
owner or outbound channel gone (902-910), since nobody hangs up either before the call,
and `ast_hangup` of a channel that is to take part in a masquerade as the clone
(`channel.c:2829-2839`), since `P` owns the bridged channel, plans the masquerade and
performs it before it can hang that channel up. Of `chan_iax2.c`: everything before a call is up and
everything that is not a full frame of it (registration, authentication, provisioning,
transfers, trunks, mini frames and the jitter buffer, encryption). `socket_process`
lets a few commands of a transfer pass without their turn; transfers are left out, so
they are too. `iax2_destroy` retries while it cannot lock the owner; that it lets go of
`iaxsl` meanwhile is not modelled.

Hazards without a property: the retry limit of `AST_SCHED_DEL`, ids past 2^31 and a
failed `ast_heap_push` in `schedule`; a task that drops the last reference to its own
taskprocessor, and a creation that fails half way; `ast_autoservice_stop` called with
the channel locked, which `channel.h:2229-2232` forbids.

Everything else in the repository is listed in PROJECT.json with the reason:
mostly protocol text, signal processing, external libraries and storage, which
are data rather than control, or parts that come later.

## 8. Plan

In this order, the behaviour that other parts rest on first.

1. `DTMF` emulation in `__ast_read` (begin/end pairing, minimum duration and gap)
   as a sequential timed module, then its composition with `ReadQueue` and
   autoservice's `AST_FLAG_END_DTMF_ONLY`.
2. `astobj2` containers with iterators and unlinking during traversal; the
   contract that `Masquerade` and `TaskProcessor` assume becomes a refinement.
3. Digits and indications through `Local`, and the redirection of
   `__ast_channel_masquerade` to proxied channels.
4. `jitterbuf` and `fixedjitterbuf` as algorithms over wrapping timestamps; the
   recovery of `udptl`.
5. `bridging` and `dial`: a service thread against joining and leaving channels.
6. IAX2 call setup and transfers on top of `Iax2`.
7. `devicestate`, `event`, `ccss`.
8. Proofs: `QueueAgrees`, `OneOwner` and `CancelledNeverRuns` of `Sched`;
   `Singleton` and the no-CLI `UnreferencedIsDestroyed` of `TaskProcessor` by the
   same counting of holders; `NoLostWakeup` of `ReadQueue`; `NoUseAfterFree` and
   `PairAgrees` of `Local`.
