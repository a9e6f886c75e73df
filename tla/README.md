# CLibrary, modelled and checked

CLibrary is a small collection of C components: a concurrent ring buffer, a
hash map, a timer with two implementations, a linked list, a spin lock, a
packet decoder and a logger, with demonstration drivers in `main.c` and
`main.c1`. This directory holds TLA+ modules that model them, the TLC
configurations that check the models on small instances, and theorems about
them that TLAPS proves for every instance. `PROJECT.json` lists the components,
the runs, the seeded faults each property is tested against, the source lines
each definition models, the findings, the hazards and the theorems.

## 1. Inventory

### Ring buffer (`ring_buffer.{c,h}`)

State: `start`, `end`, `elements`, two spin locks (`swlock`, `srlock`), two
mutexes with condition variables (`empty_lock`/`empty_cond` for writers that
wait, `full_lock`/`full_cond` for readers). Operations: init, `write`,
`try_write`, `write_bulk`, the versions with a lock `swrite`, `try_swrite`,
`try_swrite_bl`, `swrite_bulk`, and their read counterparts, in blocking or
polling mode. Writers and readers share memory and no common lock: the writers
store and advance `end`, the readers load and advance `start`.

Hard: every interleaving of the two sides, sleeping with a spin lock held, an
index published outside the mutex that guards the wait, a difference of indices
computed from two reads of a volatile index. Correct means: a bounded FIFO
queue for all callers together, no slot touched by both sides, no wake-up lost,
`try` calls that do not wait, busy callers that make progress.

### Hash map (`hashmap.{c,h}`)

State: an array of `table_size` elements with `in_use`, `key` and `data`, and
`size`. Operations: `new`, `put` (which doubles the table and puts every
element again when it finds no place), `get`, `remove`, `iterate`, `length`,
`free`. Sequential. Hard: linear probing bounded by `MAX_CHAIN_LENGTH` with
holes left by removals, `size` counted by two operations, a rehash that can
fail in its middle or nest. Correct means: a map from keys to data with the
right length.

### Timer (`timer.{c,h}`, `queue.h`)

State: a sorted queue or a wheel of spokes with rotation counts, the element
count, the last expiry or check time. Operations: `create`, `destroy`, `add`,
`del`, `check`, `reset`, `count`. Sequential, driven by the time its caller
passes and by callbacks into the caller. Hard: arithmetic on unsigned times,
`check` cut short by `max_cb`, state that depends on the order of calls.
Correct means: an element fires once, at the first check at or after its time.

### Linked list (`list.c`, `list_node.c`, `list_iterator.c`, `list.h`)

State: `head`, `tail`, `len`, each node's `prev` and `next`; an iterator holds
the node it will return next. Operations: push and pop at both ends, `find`,
`at`, `remove`, `destroy`, iteration in both directions. Sequential. Hard: the
pointer surgery at the ends; removals between two steps of an iterator, which
has fetched its next node already. Correct means: a sequence, read the same
way forwards and backwards.

### Spin lock (`lock.{c,h}`)

State: one lock word for each lock and one process-wide static estimate,
`spins_per_delay`. Operations: acquire through test-and-set, with spinning and
random delays, release, the update of the estimate. Concurrent. Correct means:
mutual exclusion, a free lock that does not stay free while a thread waits, and
an average of estimates that stays in their range.

### Packet decoder (`packet*`, `ip4`, `ip6`, `tcp`, `udp`, `protocol.h`, `options.h`)

State: a `Packet` with a stack of layers, the payload (a pointer and a size),
the fragment fields, the transport layer and the TCP options. Operations:
`packet_create`, `packet_destroy`, `packet_set_payload`, `packet_decode`, a
decoder for each header, which ends in a call of the next header's decoder, the
loop over TCP options, the walk over the layers, the accessors. Sequential.
Hard: every length comes from the capture; arithmetic on unsigned lengths; a
stack that may be full while the decoders go on; nothing is cleared between two
captures; two loops that a length of 0 keeps where they are. Correct means: the
layers are a chain of headers that lie inside the capture, the payload and the
accessors agree with it, a fragment is not decoded any further.

### Logger (`log.{c,h}`)

State: the level, the current file, the day it was opened for, whether there was
a message before; what `localtime` points to. Operations: `log_print`, which
opens a file of the day with the first message and when the day has changed,
`log_file`, `log_setlevel`, `log_init`. Called from every thread, without a
lock. Hard: which file a message goes to depends on the order of days, messages
and calls of `log_file`; opening a file empties it; opening may fail. Correct
means: messages go to the file of their day and are not lost.

### Headers and drivers

`ipaddr.h` and `stats.h` hold accessors and plain counters. `main.c` and
`main.c1` are programs that use the library; they show in which order and from
which threads the operations are called.

Components do not call each other, except that the drivers call all of them.

## 2. Modules

| part | abstract | model | properties | constants | proofs |
|---|---|---|---|---|---|
| ring buffer | `BoundedFIFO` | `RingBuffer` | `RingBufferProperties`, `RefusalHistory` | `MCRingBuffer`, `MCRefusalHistory` | `RingBufferProofs` |
| spin lock | `Mutex` | `SpinLock` | `SpinLockProperties` | `SpinLock.cfg` | `SpinLockProofs` |
| hash map | `KeyValueMap` | `HashMap` | `HashMapProperties` | `MCHashMap` | `HashMapProofs` |
| timer | `Alarms` | `Timer` | `TimerProperties` | `MCTimer` | `TimerProofs` |
| linked list | `NodeSequence` | `List` | `List` | `List.cfg` | `ListProofs` |
| packet decoder | `HeaderChain` | `PacketDecoder` | `PacketProperties` | `MCPacket` | `PacketProofs` |
| logger | | `Log` | `Log` | `MCLog` | `LogProofs` |

Each model but the logger's is shown to implement the abstract specification of
its component through an `INSTANCE ... WITH` that maps its variables, and the mapped
specification is a `PROPERTY` of a run. The components do not call each other,
so no module composes two of them: the interaction is between the threads (ring
buffer, spin lock, logger), the nested activations (hash map, packet decoder)
and the callbacks (hash map, timer) of one component.

A definition introduced as "a fault" is not used by the model: it is a
plausible error in the code, to be put in the place of the definition that
follows it. Under "mutants" `PROJECT.json` says which property finds which.

### RingBuffer

The write functions and the read functions are the same code with `start` and
`end`, full and empty and the pairs of locks exchanged, so every action is
written once for a thread of either side. A call is a record of which lock and
how many values; the eleven public functions are values of that record.

| code | model |
|---|---|
| `start`, `end`, `elements` | `start`, `end`, `elements` |
| `swlock`, `srlock` | `sideLock["w"]`, `sideLock["r"]` |
| `empty_lock`, `full_lock` | `mutex["w"]`, `mutex["r"]` |
| the condition variables | the threads at `asleep` |
| `i`, `nb_ready`, local `end`, `values[]` | `i`, `ready`, `pos`, `vals` |
| early check, `TRY_LOCK`/`LOCK` | `EarlyFirst`, `EarlyRefuse`, `EarlyPass`, `Lock` |
| tests at the head of `try_write`, `write_bulk` | `Check` |
| `wait_for_empty`, `wait_for_full` | `Poll`, `WaitLock`, `TestFails`, `TestPasses`, `Sleep`, `SpuriousWake` |
| `nb_empty`, `nb_full` | `Count`, `Reserve`: one step for each read of the index |
| copy loop, publication | `Store`, `Load`, `Publish` |
| `notify_full`, `notify_empty` | `NotifyLock`, `Broadcast` |
| `while (i < min_nb_buffers)`, `UNLOCK` | `Loop`, `Return` |

Every access to shared memory is a step, under sequential consistency: the
indices are volatile, and the code has no barrier of its own. What a machine
with weaker memory adds is outside the model. Arithmetic on `size_t` is modulo
`Word`.

### SpinLock

One step for each access to the lock word and to `spins_per_delay`. `S_LOCK`
is the first attempt, `TAS_SPIN` the test, `Exchange` the `xchgb`,
`perform_spin_delay` one pass of the loop; `finish_spin_delay` is `FinishReads`,
`Compare`, `Take` and `StoreEstimate`, because its `Min` and `Max` are macros
that evaluate `spins_per_delay` a second time. `set_spins_per_delay` is called by
a thread that holds a lock (`lock.c:161`), while others wait, with any value of
`Estimates`; `update_spins_per_delay` changes nothing and is an operator. A delay
may last any time; its length is modelled for its range only. `s_lock_stuck`
prints and returns, so the count of delays changes nothing and is left out. The
port is x86-64.

### HashMap

`table`, `tableSize`, `size` are `m->data`, `m->table_size`, `m->size`; `hash`
is what crc32 and the integer mixing make of a key. `hashmap_put` and
`hashmap_rehash` call each other, so a put is a stack of activations, `puts`:
`Put` pushes the caller's, `Store` finds a place, `Grow` enters `hashmap_rehash`,
`SkipUnused` and `PutAgain` are its loop, `RehashDone` its end, `GrowFails` a
`calloc` that returns NULL, after which the error goes down the stack as in the
code. `Remove` is one step; `Get` and `size` are what `hashmap_get` and
`hashmap_length` deliver. `hashmap_iterate` goes from one callback to the next
(`Iterate`, `CallbackReturns`), and the callback puts and removes; `iter` holds
the slot it has come to and, as history, the keys it owes a visit and has
visited. `usage` says what the program around the map does: some properties hold
for programs that do not both remove keys and overwrite them.

### Timer

One model of both types, chosen in `Init` and again by `Recreate`.
`zx_timer_check` calls back into the program, so it is a loop of steps (`Fire`,
`FireAndAdd`, `FireAndDel`, `Turn`, `Return`) whose locals are the record `check`; the other
functions are one step. Times are modulo `Word` and -1 is `Word - 1`. `due`,
next to the fields of an element, is the time it is meant for as a plain
number, read by the properties only. The code places an element on a wheel by the
current time, but counts its rotations from the spoke the wheel has got to: an
element added or reset when the wheel has not been checked up to now, `Behind`
ticks, may come one or more whole rounds before it is due. `early` is by how many
ticks, and the element comes at `due - early` (`Comes`). `rotation_cnt` is an int
(`AsInt`), although the quotient it is assigned is an unsigned long.

What is linked is the set of alarms of `Alarms`: `Due` maps an element to the time
it comes, `Earlier` orders those of one time as the list they are in does, and
the callbacks a check has left are its `budget`. `Alarms` allows an alarm to be
set for whole rounds less than asked for only by a timer that is `behind`. In the
wheel an element fires at the first check after, not at, the tick it comes:
`late` is 1 for a wheel and 0 for a queue.

### List

The pointers are functions from nodes to nodes, so every wrong relinking is
expressible. One iterator, with its direction and its prefetched node, may be
alive while nodes are pushed, popped and removed; the program around it does not
take out the node the iterator has fetched, which would leave it with a node
that is in no list or is freed. `list_at` and `list_find` are the operators
`AtHead`, `AtTail` and `list_find`. `owed` and `last` are history variables:
`last` tells which function was called last, the node it was given or returned
and the nodes it freed. `NodeSequence` has the same variable, so each step of the
pointers must be the operation of its own name, with its result, on the sequence.

### PacketDecoder

A decoder calls the next one as its last act, so one record, `call`, holds the
call in progress: which decoder, where it reads, how much is left. Each decoder
is one action with a disjunct that turns the header away and one that takes it.
A header is read once, therefore its content is not stored but chosen when it
is read, from `Contents`: for each decoder the fields it looks at, with their
widths. This includes what lies beyond the captured bytes, which `decode_ip`
reads when it is called with less than a header (line 66 compares the length
with `ip_hl`, itself in the header).

| code | model |
|---|---|
| `layer`, `layer_count`, `transport`, `payload`, `paysize`, `offset`, `mf`, `tcpopt_count` | fields of `packet` |
| `pkt`, `len` | `call.pos`, `call.len` |
| `decode_ip`, `decode_ip6`, `decode_ip6_rte`, `_frag`, `_ext`, `decode_udp`, `decode_tcp` | the actions of those names |
| `bind_ip`, `bind_ip6` | `Bind` with the table of the next decoders |
| `decode_tcp_options` | `RecordOption`, `SkipOption`, `OptionsEnd` |
| `packet_proto_first`, `packet_proto_next` | operators; `Walk` is the loop over them |
| `packet_win` ... `packet_tcp_urg` | `TcpHeaders`: the layer they read, if any |

`packet_decode` has the call of the link layer's decoder commented out; `Decode`
starts where that call would, at the decoders of IP (`decode_dlt`, external).
`seen` is a history of the decoding: where the innermost datagram ends by its own
account, the fragment fields that went by, whether a layer was lost. An option
stored beyond its array has no defined outcome; the model stops there.

### Log

`log_print` runs with no lock, so it is a step up to `localtime` (the clock is read
in it: a thread that holds an old time is at work, as one after `localtime` is, and
what it does once another has opened a file is a race), one for the
tests of `need_check` and the day (`Check`), one for `fopen` and one for what
follows it (`Fopen`, `SetFile`, `FopenFails`), and one for `fprintf`. The result of
`localtime` is one static object: `tm` is what the last call left in it. A file
is how many messages it holds; files of the day are numbered by the day, and two
days may have the same number of the month, which is all `log_write` compares.
`Restart` is the end of the process and the start of the next: files remain, the
static variables do not. Between the threads' steps the clock passes midnight.
`hist` is what the properties need of the past.

## 3. Runs

| run | question | instance |
|---|---|---|
| `ring_order` | one FIFO queue for all callers, the chunks of a call together | 2 + 2 threads, size 3, two values, single values and pairs in chunks, polling mode |
| `ring_mpmc` | contention on each side: exclusion, wake-ups, `try` calls, flow of data | 2 + 2 busy threads, one free slot |
| `ring_live_spsc` | the inductive invariant; ownership of slots; every call returns; an early refusal has a reason | 1 + 1 busy threads, size 3 |
| `bulk_clobber` | *violated*: "This will not clobber old values" | size 4, a bulk call of four |
| `spin_lock` | exclusion, progress, refinement | 3 threads, one lock, estimates in and beyond the bounds |
| `hash_map` | a map, for programs that do not both remove and overwrite; iterations that visit all | 4 keys, tables of 4 to 32, chains of 2 |
| `hash_remove` | *violated*: a removed key is gone, for programs that do both | the same |
| `timer` | every element fires once, in order, on time, or early by the rounds a wheel that was behind cost it | 3 elements, 3 spokes, times 1 to 6 |
| `timer_callback` | *violated*: no callback before its time, when callbacks add | 2 elements, wheel |
| `list` | each function is the operation on a sequence it is named for; the same from both ends; iteration leaves nobody out | 5 nodes |
| `packet` | a chain of captured headers; payload, accessors, fragments and options that agree with it; decodings end | two captures into one packet, 3 layers, every nesting of headers |
| `log` | the file a message goes to; none lost | 2 threads, 3 days, failing opens, restarts |

### Bounds

*Ring buffer.* Size 2 leaves one slot and makes full and empty alternate at
every step; 3 lets the indices be one, two and no slots apart on both sides of
the wrap; 4 is the least for which a count of free slots can be wrong (the
proofs show that 2 values a call are safe at every size). With two threads a
side there is an owner and a contender for each lock, and two sleepers for
a broadcast. `Word` is 16, a power of two, as `size_t` is, far above every
difference of two indices, so that only a difference that wraps comes near it.

The order of values is asked where it can go wrong: with two free slots, two
values and two threads a side, of which one may move a pair in two chunks while
the other waits (`ring_order`).

*Spin lock.* Three threads give an owner, a thread between test and exchange
and one that overtakes it. The bounds 1 and 4, with the step 2 in place of 100,
and estimates of 0, 2 and 5 let the estimate sit at and beyond each bound and
between them, and make both outcomes of each macro occur. One lock is enough for
what is asked, which is of each lock by itself; the proofs are for any number.
A delay is 1 long, and a longer one is set back to that; the proof covers any
range.

*Hash map.* Chains of two and tables that start with four slots fill with four
keys. Three hash functions mix neighbours, hashes that collide in small tables
and part in larger ones, and hashes at the end of a table; under the fourth all
keys collide at every size, so that growing never helps. Growing nested in
growing occurs. `MaxTable` stands for the memory; `calloc` may fail for the
put of the caller and in nested ones (`FailDepths`). The callbacks of one
iteration make one call (`MaxCalls`), which is enough to remove an element
ahead or behind, to fill a hole on either side, and to make the table grow.

*Timer.* Timeouts 0, 2, 4 and 6 on three spokes cover no rotation, part of one,
more than one and exact multiples; time runs to the end of the word (7) for a
queue. An add may come when the wheel is up to four ticks behind, so that an
element loses no round, one or two. The half of an int, 3, is above every number
of rotations (the theorems say so in `Countable`). A wheel's check is never cut
short by `max_cb_times` in these runs.

*List.* Five nodes give an element with neighbours on both sides that have
neighbours themselves.

*Packet decoder.* For every field the values its decoder tells apart: lengths of
0, usual, too short and too long ones (an `ip_hl` of 1 among them), whole
packets, first and later fragments, offsets the masks keep, drop and mistake. Three
layers are fewer than headers nest, so that the stack is full with headers still to
come. The first capture is long enough
for every nesting up to that, the second for a header and a transport header on
what the first left behind. `Word`, one more than the largest unsigned, is 2^24:
what matters is that it is larger than a 16-bit length and that lengths wrap.

*Logger.* Two threads are what a race takes. The days are numbered 1, 2, 1, so
that a day may be mistaken for another; three streams run out; two messages
per file tell lost from kept.

### Fairness

*Ring buffer.* The scheduler runs every thread that can run: weak fairness of
each thread's steps. A mutex that is released again and again is not withheld
from one thread for ever (strong fairness of taking it, as pthread mutexes
provide in practice); nothing of the kind is assumed of the spin locks, which is
why with several threads a side `DataFlows` promises progress to the buffer and
not to a thread. Nobody has to make a call, except in `ring_mpmc` and
`ring_live_spsc`, where each thread starts a new call when one has returned, as
the loops of the drivers do. *Spin lock.* Weak fairness of each thread's steps
inside `S_LOCK` and up to `S_UNLOCK`: who has a lock gives it back. Nobody has
to ask for one. *Hash map, timer and packet decoder.* All are sequential: a call
that has begun is carried on. The list has no loop that could fail to end, and
nothing is asked of the logger but safety.

## 4. Proofs

`tlapm` checks eight modules, one for each component and `Arithmetic`, of lemmas
about division with remainder and about least numbers, which serves the proofs
about packets, timers, the list and the ring buffer. Every theorem is for all
values of the constants that satisfy the named assumption of the model. Where a
proof needs to go through positions of a sequence one by one, it takes the least
position at which the claim fails: the library's induction theorems cannot be
used with the installed provers.

### Ring buffer (`RingBufferProofs`)

`IndInv` is the conjunction that `ring_live_spsc` checks. It is proved in four
layers, each inductive given those before:

1. `Typed`: the types, with the facts about calls that bound `i`, `ready` and
   `vals`. Theorem `TypeCorrect`, which adds to the types that every call, bulk
   calls of any length included, stays within its `values[]` (`WithinValues`).
2. `Safe`: who is between `LOCK` and `UNLOCK` holds the spin lock (`LockOK`),
   who tests or broadcasts holds the mutex (`MutexOK`), so `SideExclusion`;
   and `NoLostWakeup`. Neither of the last two is inductive alone: a wake-up is
   kept by the thread that has published and is on its way to the broadcast,
   which has to be excluded from overtaking a test by the mutex. Theorems
   `Exclusion` and `NoWakeupLost`.
3. `Windows`: what a call has copied and is still going to copy is available,
   and the comparison of indices a count has made is either still true or the
   indices leave room for two (`WindowOK`). This needs `SmallBulk`, bulk calls
   of at most two values: with more it is false (`bulk_clobber`). Theorems
   `Ownership` and `NonBlocking` hold under it.
4. `Carried`, under `SmallBulk` too: a reader's `values[]` is as long as what it
   has read (`MovesOK`), and the values of a call's current chunk (`Chunk`: those
   copied and not published) are in the slots its side works on, one after the
   other (`ChunkOK`). Other threads leave them there because the slots of a
   writer's chunk are read by nobody and those of a reader's written by nobody,
   which is `Windows` again.

`Induction` joins them: `Spec => []IndInv`.

`Refinement` says that under `SmallBulk` the ring buffer implements
`BoundedFIFO`. The queue (`Queue`) is the values in the unread slots, from
`start` on; an offer of a writer is what its call has published so far, a take
of a reader what it has published as read. Entering a call opens one, leaving it
closes it (`CallStep`, `LeaveStep`); everything between is invisible
(`HiddenStep`), because only `Publish` moves an index and nobody writes into an
unread slot (`QueueStays`); and `Publish` moves a chunk into or out of the queue
as a whole (`PutStep`, `TakeStep`), which is where `ChunkOK` is needed. In
`BoundedFIFO` a chunk moves only while no other open call of its side has moved
any: the chunks of one call stay together, as the thread that copies is alone
between `LOCK` and `UNLOCK` (`AloneOnSide`).

`EarlyRefusals` is about one thread a side (`OneASide`), where `RefusalJustified`
is to hold. It does not follow from what a refusal compares alone, so `Reasoned`
says what a thread knows between its reads: if it has read the index of its own
side first, that is still the index; if the other's, the history has recorded
what it would refuse for.

### Spin lock (`SpinLockProofs`)

`TypeCorrect` includes the range of the delays: whatever fraction `random()`
gives, the next delay lies between the two bounds. `Exclusion` strengthens "no
two owners" with "the word of an owned lock is 1", without which an exchange
could return 0 while somebody owns the lock. `Refinement` says that the spin
lock implements `Mutex`; the holder of a lock is chosen among its owners, so the
proof first shows there is one at most (`OwnersHold`), then that each step
acquires, releases or stutters. `AverageStaysInRange` is what `lock.c:177` says:
an average of two estimates within the bounds is within them, for any bounds and
weight. That the process's estimate is within them is not claimed (section 5).

### Linked list (`ListProofs`)

For any number of nodes. The invariant, `ListInv`, says that the list has an
*order*: a sequence of `len` distinct nodes whose `next` and `prev` links are
those of neighbours, with `head` and `tail` at its ends (`Chain`). The order is
not a variable. It is what a walk from the head finds, and `ChainIsOrder` shows
that there is no other; so a step need only exhibit a sequence that is a chain
afterwards: the old one with a node at an end (`WithLast`, `WithFirst`) or without
the node at a position (`Cutting`). `list_rpop`, `list_lpop` and `list_remove` all
link the neighbours of a node to each other (`Closes`), and the chain that is
left is computed once for the three (`ClosedChain`). The walks of the code are
recursive functions; the proofs use two equations for one step of them
(`FollowNone`, `FollowOn`), which follow from the existence and uniqueness of the
trail of a walk.

`Ahead` places the iterator: its node is in the order, and the nodes it owes
are at that node or on the far side. `IteratorOwesNothing` is not inductive, as
it does not say that the links it follows are those of the list; `LooksAgree`
speaks of whole walks, which a step changes all at once, where the chain speaks
of neighbours, of which it changes two. Theorems `BothWays` and `IteratorComplete`.

`Refinement` shows that each function is the labelled operation of
`NodeSequence`: a push at its own end, a pop that returns the node of its own end
or none, the removal of the node given, which alone is freed, and a destroy that
frees exactly the members. The lemmas `PushedLast` ... `PoppedFirst` say what
happens to the sequence; that the loop of `list_destroy` frees the members is
that the order is what a walk along `next` finds.

### Packet decoder (`PacketProofs`)

All six invariants of the run hold for any number of layers and captures and any
contents of the headers of their widths. Each decoder is shown once to do one of
two things: it `Refuses` its header and changes no layer, or it `Accepts` it as a
layer of a protocol and a size (`DecodeIp` ... `DecodeTcp`, `StepCases`). What the
invariants need is then proved of these two and of the options' steps, instead
of eight decoders each. The inductive parts, each on top of those before:

- `Typed`, and `Room`: a layer is added only when the stack has room. `TypeCorrect`.
- `Reading` (position and length left add up to the capture, and the length is
  not negative, because a decoder goes on only past what it compared) and
  `Recorded` (what is left from the start of a layer of this decoding `Holds` its
  header: the fixed part and the length it states, with the two exceptions of
  section 5). `HeadersCaptured`.
- the options: as long as none stalled, there are no more than bytes gone by
  (`OptionsBounded`): the count that is not tested is bounded by the length that is.
- `Passing`: a fragment field that went by is either stopped or one of the three
  offsets of which the mask leaves nothing. `FragmentsAreStopped`.
- `Topmost`: `transport` is set from whatever layer is on top, so the accessors
  are right because a layer below of protocol TCP would be one of this decoding
  and TCP ends a decoding; with a full stack the top is no TCP layer. This needs
  to speak of lost layers and of layers of an earlier capture (`Older`): nothing
  clears them, so after a decoding without a TCP header of its own the accessors
  may still find one of those, and never one of this. `AccessorsRight`.
- `Following`: the payload begins where the innermost layer ends and ends, modulo
  `Word`, where the innermost datagram does. The second half is an equation
  modulo `Word` that survives every `Advance`, in `decode_ip6_ext` twice and with
  swapped bytes. `PayloadFollows`.

`Refinement` shows that the decoder implements `HeaderChain`. `Expected` says of the
decoder that runs next that it reads where the innermost layer ends and that its
header may follow that layer's; the walk a client makes over the layers sees
each of them once and in their order (`WalkSeesLayers`), so a layer added is one
more header at the end of the chain, and everything else settles it or stutters.

### Hash map (`HashMapProofs`)

For any keys, data, hash functions, initial table sizes, chain lengths and
allocations that fail. An element may be in a slot of the table or in a slot, not
yet passed, of an old table that some put of the stack is emptying: these are
the *cells* (`Live`, `Item`). The steps move elements from cell to cell, and the
stack of puts is as deep as it likes. `IInv` is the conjunction of

- `Typed`, and `Stacked`: only the innermost put looks for a slot, and each other
  one waits for the element it has come to.
- `Placed`: an element lies on the chain of its key, and, if nothing is ever
  removed, with no hole before it.
- `Orderly`: no two cells hold one key. It is what overwriting breaks after a
  removal, so it is claimed for callers that do one of the two: for those that
  only remove it needs that the key put is in no cell (`CallerNew`), for those
  that only overwrite, that a key's slot is found before the first hole
  (`Placed`).
- `Counted`: `size` is at least the number of slots in use and, for callers that
  do not overwrite, that number, also while a rehash sets it to 0 and counts the
  elements again.
- `Visiting`: while the table has not grown, the keys an iteration owes lie ahead
  of it and those it visited do not.

`GetFinds`, `IterateVisits` and `Implements` (the refinement of `KeyValueMap`,
step by step, `calloc` failing in the middle of a rehash included) assume that no
caller both removes and overwrites (`"both" \notin Usages`), as `hash_map`
does; without it they are false (`hash_remove`). `SizeIsRight` assumes nothing.

### Logger (`LogProofs`)

For any finite set of threads, any days and files, and any bounds. Nothing is
locked, so what one static variable says of another is true only as long as no
thread is at work while another opens a file (`hist.raced`). Up to then, `IInv`:

- `Alone`: who opens a file is alone, so what `log_write` has compared before
  holds when it stores the new file.
- `Dated`: `tm` is the day of every thread that compares, `day_value` that of
  every thread that writes.
- `Kept`, the inductive part of `NothingLost`: files of days hold messages only
  up to the day in `tm`, and if that of `tm` does, `day_value` is its day, so no
  comparison finds a change and the file is not opened, and emptied, again.
- `Current`: the file in use is of the day in `day_value`, unless an `fopen`
  failed. It gives `OwnDay`.
- `Choosing`: the file that was chosen is still in use, or `tm` has passed the
  day of the choice, and every thread at work with it.

`Started` and `Streams` hold with races too: the count of open streams is what
shows that NULL is written to only before the first success. Each action is
first reduced to what it does to the variables (`AfterPrint` ... `AfterRestart`),
and each part of `IInv` is then proved of these.

### Timer (`TimerProofs`)

For any elements, timeouts, number of spokes and width of `unsigned long`.
`Well` says what a queue and spokes are with regard to the elements in use; it
is proved of lists with one element more and one less, so that a step that fires
one element while its callback adds or deletes another is two such moves. On it:

- `Typed` and `Counted`: theorem `TypeCorrect`, which says that no list holds a
  freed element and that `elem_cnt` is right.
- `QueueHoldsLastTick`: all elements of a queue expire at the last tick of the
  word (`timer.c:83`, section 5). A fact the refinement of the queue needs, not
  something promised.
- `RotationExact` holds between calls only. During a check the loop has counted
  the rotation of some elements of its spoke and not of others, so `Waiting`
  says of each element how many ticks are left, at the tick the loop has come to
  (`Base`), until it comes: its rotations and part of one more, or, where
  `Passed`, whole rotations and one more. An element that is added or reset enters
  it with `early` as the difference between the two places its time is counted
  from, the current time and the spoke the wheel has got to. `Clocked` adds that
  `spoke_index` is that of `Base`,
  modulo the wheel size, and that the differences of times do not wrap around;
  `Enough`, that `max_cb_times` suffices for the elements that are left. Where
  the loop looks at an element, its cursor is `spoke_index`, so what is left is a
  multiple of the wheel size and hence exactly its rotations
  (`CurrentWaits`): none left means that it comes. Theorem `RotationsAreExact`, for
  callers as in `Plain`: `max_cb_times` is at least the number of elements, and
  callbacks on a wheel add none (else `timer_callback`); and for timeouts whose
  rotations an int can count (`Countable`). Adds and resets come at any time,
  whether or not the wheel has been checked.
- `ImplementsAlarms`: theorem `Refinement`, for the same callers, timeouts being
  less than `Word` as those of unsigned long are. Lists become alarms by `DueOf`
  and `OrderOf`; lemmas `ViewTakeQueue`, `ViewPutQueue`, `ViewTakeSpoke` and
  `ViewPutSpoke` say that unlinking an element takes an alarm out and appending
  one sets it as the last of its time. On a wheel the latter needs that all which
  comes at one time is on one spoke (`OneSpoke`, from `Waiting`: two cursors that
  agree modulo the wheel size are equal). Then each function is an action of
  `Alarms` (`AddIsStep` ... `ReturnIsStep`); `PassBy` and `Turn` are hidden. Two
  facts carry the rest. What the loop fires is due and first (`FirstDue`): on a
  wheel nothing waits from before `Base`, and what the loop has passed by on the
  spoke waits a whole round more; on a queue the loop is at the head (`AtFirst`)
  and all have one time (`Near`, with `QueueHoldsLastTick`: less than two rounds
  of `Word`, so the last tick is one number). And where the loop ends with
  callbacks to spare (`InBudget`), nothing is due (`NoneDue`). A callback that
  sets an alarm does so before its own is taken out and `Alarms` after, which
  makes no difference (`SetThenTaken`, `TakenTwice`).

### Only model-checked

Liveness (`EveryCallReturns`, `DataFlows`, `LockMoves`, `PutReturns`,
`CheckReturns`, `DecodeReturns`), which TLAPS does not handle here. All other
properties of the passing runs are theorems. `Ownership`, `NonBlocking` and
`Refinement` of the ring buffer are proved for bulk calls of at most two values
because they are false for others (`bulk_clobber`); `EarlyRefusals` for one thread
a side because it is false for more (section 5); `Refinement` and
`RotationsAreExact` of the timer for callers as in `Plain` and timeouts as in
`Countable`.

## 5. What the code does otherwise than it says

Three runs are expected to find a violation:

- `bulk_clobber`: `nb_empty` and `nb_full` read the other side's index twice;
  when it wraps in between, `write_bulk` stores over unread values.
- `hash_remove`: a put that finds a hole left by a removal stores its key a
  second time, and `hashmap_remove` then uncovers the old data. If the table
  grows while a key is stored twice, the older element is put last and the
  update is undone.
- `timer_callback`: an element a callback adds to a wheel is placed by the
  current time, on a wheel that still lags behind it, and may fire in the same
  check.

Met while modelling, and without a run of their own:

- `TRY_LOCK` is `pthread_spin_lock`, so `try_swrite` waits for the lock for as
  long as its holder sleeps on a full buffer, against its comment
  (`ring_buffer.c:265`), which has it return immediately.
- The early check of `try_swrite` reads two indices at two instants. With one
  thread a side a refusal always has a reason (`RefusalJustified`); with two
  writers the indices it compares may belong to no instant. The theorem
  `EarlyRefusals` has the hypothesis for that reason.
- An element that the program adds to a wheel, or resets, when the wheel has not
  been checked up to that time comes too early, by whole rounds of the wheel
  (`timer.c:216-221`, `443-448`): its spoke is counted from the current time and
  its rotations from the spoke the wheel has got to. A caller avoids it with a
  check before the add, as the drivers do (`main.c:213`, `251`). `RotationExact` and
  `ImplementsAlarms` say by how much (`Early`, `TimeAfter`), for all such calls.
- `update_spins_per_delay` relies on inputs "within the allowed range"
  (`lock.c:177`). The estimate is shared by all locks, and a process that waits for
  two of them leaves the range: two threads in `finish_spin_delay` at once, each
  with its own lock, compare, and then add or subtract on what the other stored.
  `set_spins_per_delay` takes any value. So no property gives the estimate a
  range, only `AverageStaysInRange` the average of two that are in it.
- A `calloc` that fails in a nested put loses the elements not yet moved;
  `KeyValueMap` has an action that says so, and `ImplementsMap` that this is all.
- A callback of `hashmap_iterate` that makes the table grow: the loop goes on in
  the new table, and elements are visited twice or not at all. Without its
  exception for growing, `IterateVisitsEachOnce` is violated.
- `hashmap_put` counts an update as a new element, so `hashmap_length` is right
  only for programs that do not overwrite.
- A wheel check that `max_cb_times` cuts short sets `last_check_relative_tick`
  all the same; with small budgets for wheels in `MaxCbTimes`, `RotationExact` is
  violated.
- `last_expire_time` of an empty queue is the largest unsigned long
  (`timer.c:83`), so a queue accepts only elements that expire at that time
  (`timer.c:181`) and refuses all others, though the repository's own tests add
  elements 5 and a million ticks ahead and print when each will occur
  (`main.c:107-113`, `143-149`). The model follows the code; what is checked of a
  queue is therefore what it does with elements of one time.
- A queue reset that fails leaves the element out of the queue, allocated.
- A TCP option whose type is beyond the table ends the loop unless it is longer
  than all options together, against the comment (`tcp.c:56`), which has it
  skipped.
- `decode_ip` compares the length left with the length the header states
  (`ip4.c:66`) and not with the fixed 20 bytes, so with an `ip_hl` of 0 to 4 a
  header is read and recorded that lies partly beyond the capture.
- The length a TCP header states is never compared with what is left
  (`tcp.c:123`), so its options may be read beyond the capture.
- The accessors of a `Packet` used again read the TCP header of an earlier capture
  after a decoding that finds none (`packet.c:48` clears the payload only).
- The masks of the IPv6 fragment field are meant for network order, but the field
  has been converted (`ip6.c:116`): a fragment whose offset lies in the dropped
  bits only is decoded as a whole packet (`FragmentsStop` names the offsets).
- `decode_ip6_ext` moves the payload by the header's length and by the same
  length with its bytes swapped (`ip6.c:151`).
- `packet_create` clears a `Packet` up to `tcpopt_count` and not that
  (`packet_private.h:61`); nothing at all is cleared between two captures.
- An `ip_hl` of 0 followed by protocol IP, and a TCP option of length 0, are
  decoded for ever.
- `packet.c:340-351`: an alternative payload may be set by half, its size without
  its pointer.
- `log.h:33` has messages go to stderr when nothing is set up; the first message
  opens the file of the day. For the same reason a file given to `log_file` before
  the first message (`log.h:40`) is given up with it: `ChoiceLasts` is for a file
  given after a message.
- Files are opened with `"w"`, so a process that starts again on the same day
  empties the file of the day; streams are never closed.
- Two threads that print the first message of a day open its file one after the
  other and lose what was written in between: `NothingLost` and `OwnDay` except
  logs in which a thread was at work while another opened a file.

## 6. Not modelled

- Ring buffer: `zx_ringbuffer_destroy` and `zx_zero_ringbuffer`, which no other
  call may overlap; the other choices of `USE_LOCK_TYPE`; the value `~0U` a
  refused bulk call returns; failures of the pthread functions, which assert.
- Spin lock: ports other than x86-64, the test program under `S_LOCK_TEST`.
- Hash map: `hashmap_free`; an iteration inside the callback of another;
  `table_size` beyond an `int`.
- Timer: callbacks that delete the element they are called for (it is freed
  twice) or call `zx_timer_check`, clocks that go back, `mem_ocupy`.
- List: failed allocations; the removal of a node an iterator has fetched.
- Packet decoder: addresses, ports, identifiers and the counters of `s_stats`, on
  which nothing depends; `packet_layer_rem`, which nothing calls; `packet_stats`;
  the link layer's decoder, which is not in the repository.
- Logger: the text of messages, the months of files.
- `ipaddr.h` and `stats.h` have no control flow; the drivers appear as the
  programs the models assume.

## 7. Plan

Order: what several threads share first, then what depends on long sequences of
calls, then functions of their input. Every component with control flow is
modelled, and its safety proved. Left: wheel checks that `max_cb_times` cuts
short, with what can still be promised after one.
