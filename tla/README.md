# CF: models, checks and proofs

TLA+ models of CF, the CFDP file delivery application of cFS, the TLC runs that
check them and the theorems that the TLA+ proof system checks.  Paths below are
relative to the repository's `fsw/src/` unless they start with another
directory.  `PROJECT.json` lists, for every definition, the lines it models.

## 1. The system

CF moves files between a spacecraft and the ground by CFDP, in class 1 (send
and forget) and class 2 (acknowledged).  One cFS task runs everything: ground
commands come from the software bus, and once per wakeup the engine cycles over
its channels.  There are no threads inside CF.  What makes it hard is the
interleaving of PDUs from an unreliable link, timers, ground commands, a message
budget that stops a wakeup at any point, and many transactions that share the
same fixed pools.

| Component | State | Operations | Interacts with |
| --- | --- | --- | --- |
| Engine (`cf_cfdp.c`) | `CF_Engine_t`: enabled, channels, sequence number | init, disable, cycle, receive PDU, start / finish / recycle / cancel a transaction | calls every other part |
| Send machine (`cf_cfdp_s.c`) | `CF_Transaction_t` in S1/S2: sub-state, offset, flags for PDUs that are due, counts of ACKs and FINs, segments to repeat | tick, NAK tick, new data, receive FIN / NAK / ACK, dispose of the source | files, chunk list, timers, PDU output |
| Receive machine (`cf_cfdp_r.c`) | `CF_Transaction_t` in R1/R2: sub-state, sizes, `cached_pos`, CRC, temporary file, chunk list | tick, receive metadata / file data / EOF / FIN-ACK, gap report, CRC in pieces, dispose of the temporary file | files, chunk list, timers, PDU output |
| Dispatch (`cf_cfdp_dispatch.c`) | none | tables from sub-state and PDU type to handlers | both machines |
| Chunk lists (`cf_chunk.c`) | sorted array of byte ranges, bounded | add, remove from first, compute gaps | both machines |
| Transaction pool (`cf_utils.c`, `cf_cfdp.c`) | slots, queues, history, chunk list free lists, queue counters | find, insert by priority, dequeue, traverse, recycle | engine, commands |
| Playback and polling (`cf_cfdp.c`) | directory handle, busy, `num_ts`, pending file name | initiate, process one wakeup | pool, file system |
| Scheduler (`cf_cfdp.c`, TickTransactions) | tick type, resume point, `tx_blocked` | run the phases until the budget is spent | both machines, software bus |
| Linked lists (`cf_clist.c`) | circular doubly linked lists | insert, remove, pop, traverse | pool |
| Commands (`cf_cmd.c`) | none of its own | play back, cancel, abandon, suspend, resume, purge, enable, disable, freeze, parameters | engine, pool |
| Software bus (`cf_cfdp_sbintf.c`) | pipes, the buffer being filled, messages sent this wakeup | get a buffer, send, receive | scheduler |
| Codec, CRC, timers (`cf_codec.c`, `cf_crc.c`, `cf_timer.c`) | octets, a running sum, a countdown | encode, decode, digest, tick | engine |
| Application, tables, telemetry | configuration table, counters | start-up, validation, reports | all |

What makes each one correct, and what is hard about it:

* **Send machine** - the source file is removed only on the word of a peer that
  has the copy; EOF comes after all the data; every sub-state ends even if the
  peer is silent.  Hard: late and repeated FINs, a NAK in every sub-state,
  failing reads, commands between any two steps.
* **Receive machine** - a file is put in place only if it is the file sent; all
  FINs say the same and say the truth; the temporary file never stays.  Hard:
  PDUs in any order before and after the metadata, a chunk list that overflows,
  a CRC computed over several wakeups, a receive transaction that ends and is
  created again by a late PDU.
* **Chunk lists** - the gaps reported are the bytes missing.  Hard: the full
  list, ranges that touch or overlap several others, the edges of the file.
* **Pool** - slots, history entries and chunk lists are neither lost nor shared;
  a node is on the queue its `q_index` names.  Hard: many ways to end a
  transaction, in every state, also from a command on a disabled engine.
* **Playback and polling** - counters never undercount and are returned; each
  playback ends.  Hard: counters kept apart from what they count.
* **Scheduler** - no state message starves, new data keeps the order of the queue,
  everything is sent, every wakeup ends.  Hard: the resume point, loops that go on
  while messages are taken, transactions that take messages and send none.
* **Linked lists** - the pointers of a list are a ring and a traversal visits
  each node once.  Hard: a node that leaves while it is visited.
* **Codec, CRC, software bus** - what is encoded is decoded, what is cut short is
  not made up, both sides compute the same checksum, lengths are true, no buffer
  is lost.  Hard: fields of varying width, stale octets behind a short message.
* **Application, commands, tables** - a command is counted once and a rejected one
  changes nothing; it reaches the transactions it names and no other; the engine
  can always be enabled again; numbers stay unique over restarts.  Hard: partial
  failures, and state that outlives the engine.

The hazards, each at its line and with the properties that watch it, are in
`PROJECT.json`.

## 2. The modules

| Module | Models | Written as |
| --- | --- | --- |
| `CF_Runs` | sets of bytes as runs; what a list of bounded length may remember | operators |
| `CF_ByteSet` | what a chunk list promises: a set of bytes that may forget when it is full | abstract specification |
| `CF_Chunks` | `cf_chunk.c`, the array itself | implements `CF_ByteSet` |
| `CF_Cfdp` | status, condition codes, limits, class, PDUs | operators |
| `CF_Sender` | `cf_cfdp_s.c` and its dispatch | one operator per C function, transaction to transaction |
| `CF_Receiver` | `cf_cfdp_r.c` and its dispatch | the same |
| `CF_Delivery` | what a transfer promises to the two sides that ask for it: source, copy, phase of each side, reports | abstract specification |
| `CF_Transfer` | one transfer: sender, network, receiver, files, commands | composes `CF_Sender` and `CF_Receiver`; the state machine; implements `CF_Delivery` |
| `CF_TxnPool` | one channel: slots, queues, history, chunk lists, counters, playback, polling, commands | state machine |
| `CF_Queues` | what the linked lists promise: sequences, and traversals that visit each node once | abstract specification |
| `CF_CList` | `cf_clist.c`, the pointers, and the inline functions of `cf_utils.h` that count | implements `CF_Queues` |
| `CF_Tick` | `CF_CFDP_CycleEngine` and `CF_CFDP_TickTransactions` for one channel: phases, loops, message budget, resume point | state machine, one tick function per step |
| `CF_Codec` | `cf_codec.c`: fields and PDUs as octets, the encoder and decoder state | operators |
| `CF_Crc` | `cf_crc.c`, with words of four digits of any radix | operators |
| `CF_Wire` | building and sending PDUs, what the link and other implementations do to them, receiving | composes the last two; state machine |
| `CF_App` | start-up, main loop, every ground command on several channels, tables, sequence numbers and lookup, enabling and disabling the engine | state machine |
| `CF_Transfer_proofs` | | lemmas per C function of both state machines and per action: the safety of the files, the outcome, the refinement of `CF_Delivery` |
| `CF_Facts_proofs` | | facts about numbers and sequences that the next six need |
| `CF_Chunks_proofs`, `CF_TxnPool_proofs`, `CF_Tick_proofs`, `CF_App_proofs`, `CF_CList_proofs`, `CF_Wire_proofs` | | the theorems about those modules |

`CF_Transfer` and `CF_TxnPool` divide the code: the first follows one
transaction through everything it can meet and leaves resources to chance
(`has_chunks`, `HistStatuses`, `RxLists`); the second has all the resources of a
channel and leaves to chance when a transaction fails or completes.
`CF_Chunks` is the detail below `CF_Transfer`: that it implements `CF_ByteSet`
is what allows a transfer to hold a set of segments, with `LearnOutcomes` and
`ChunksAfterNak` for the list that overflows.  In the same way `CF_CList` is the
detail below the sequences of `CF_TxnPool` and `CF_Tick`.

`CF_Tick` looks at several transactions and reduces each to what it has to send;
it shows when the wakeups which `CF_Transfer!FairSpec` asks for come.  `CF_Wire`
is the detail of the PDUs, which are records in `CF_Transfer`; its round trip is
why records will do.  `CF_App` stands above: its transactions have a key and a
state, and a step of the engine is any step of the others.

### How state and actions correspond to the code

*Files.*  A file is `FileSize` segments, each the data of one file data PDU;
offsets count segments.  `temp` is the set of segments written to the temporary
file, `dst` says whether what was put in place is the file sent.  `src` is what
became of the source.

*CRC.*  The receiver digests the file in order, from `crc_pos`, `CrcPerWakeup`
segments per wakeup (`rx_crc_calc_bytes_per_wakeup`).  The digest is right if
every segment was digested at its place, so the model keeps whether it was; a
CRC that agrees by accident is left out.  The file position that
`CF_CFDP_R_ProcessFd` and `CF_CFDP_R_CalcCrcChunk` share is `cached_pos`, as in
the code.

*Network.*  `net` holds every PDU ever sent; any may be delivered at any time,
repeatedly, or never.  That is loss, delay, reordering and repetition together.
A PDU carries the class that `CF_CFDP_GetClass` writes, and the dispatch compares
it, as the code does.

*Timers.*  Each tick may find a timer run out or not.  A retry count is exact.

*Wakeups.*  Each phase of a wakeup is an action: maintenance (`S_Wakeup`,
`R_Wakeup`), NAK data (`S_AnswerNak`), new data (`S_NewData`, one segment per
action where the code sends as many as the budget allows) and the start of a
pending transaction (`S_Start`).  Other transactions of the channel use the same
budget, so a phase may or may not be reached: keeping the phases apart allows
every schedule.  `blocked` is a wakeup of this transaction that finds the budget
spent in the middle.

*Mutants.*  An operator whose comment starts with "Mutant" is not part of the
model.  It is a plausible bug of the definition that follows it, which the
properties must catch; no run uses it.

*Scheduler.*  One action is one call of a tick function by
`CF_CFDP_DoTick`, so the loops of the code are loops of the model.  `tick` holds
the locals of `CF_CFDP_TickTransactions`, and `todo` the nodes that the traversal
has yet to visit.  A wakeup is granted `budget` messages: the table's limit, the
semaphore and the buffer pool refuse alike in `CF_CFDP_MsgOutGet`.  `Reads` is
whether a file can be read this time; a file that is closed (`fd`) never can.  A
transaction has the sub-state of a sender, since `CF_CFDP_S_Tick_NewData` looks at
nothing else: it ticks a transaction that was abandoned in DATA_NORMAL as it does an
active one.  `left` is what DATA_NORMAL has still to send, and `ending` stands for
whatever ends a transaction when `CF_CFDP_S_CheckState` comes to it: an error, a
limit, a FIN, a cancel.  Between wakeups anything may arrive, until `settled`: from
then on nothing does, and the inactivity timers that run have run out.  A timer that
stands still (`TimerRuns`) does not.

*Wire.*  A PDU is its octets.  `base` is the buffer with what earlier messages
left in it, `size` what the bus says.  A PDU may be cut short or be written by
another implementation, with a CRC, 64-bit sizes or longer identifiers.  The octets of
the file are digits in base `Radix`, so that sums of words stay small.

*Lists.*  `heap` has the two pointers of each node, the head of each list and
`q_size`; `walk` the locals of a traversal, which is one step per node.  Forward
and backward traversals are the same loop along `next` or `prev`.

*Application.*  `app` is what is kept in `CF_AppData` and zeroed or not when the
engine is enabled, `os` what the operating system keeps: pipes and open files.
One action is one message from the command pipe.  A handler is an operator from
a state to the states it may leave; calls that can fail are alternatives.  The
codes, the lengths and the arguments of commands are enumerated, wrong ones
included.  `Wakeup` carries one PDU: with several it would be several wakeups.

*Pool.*  The FREE queue is a set, since its slots are all alike.  A history
entry is reduced to whether its status is an error.  Queues are sequences;
`q_size`, a telemetry counter in the code, is kept because
`CF_CFDP_StartRxTransaction` decides by it.  Counters wrap around at
`CounterModulus`.  The directory of a playback gives any number of names before
it ends.  A polling directory's interval and enabling are left to chance.

## 3. The runs

| Run | Checks | Distinct states |
| --- | --- | --- |
| `chunks` | the array is sorted and its chunks apart; no gap exactly when the file is complete, and gaps are the missing bytes; it implements `CF_ByteSet` | 247 |
| `class2` | class 2, two segments: types and limits; EOF follows all data; success means delivered | 956 316 |
| `hostile` | class 2, one segment, every file operation and resource may fail, wakeups may be blocked: the source is safe, FINs are true, complete means written, nothing is left open or behind | 510 483 |
| `commands` | class 2, one segment, one ground command of any kind at any moment: a cancelled transfer leaves files alone; FINs agree; the transfer implements `CF_Delivery` | 746 468 |
| `class1` | class 1, two segments, closure, faults, used chunk lists, a cancel: only identical copies; both ends end | 45 546 |
| `ends_class2` | class 2, an empty file, fair timers: both ends end | 13 250 |
| `pool` | two slots, received, commanded and polled files of two priorities, every command: queues agree, resources conserved, receive limit, counters cover what they count, order of arrival, ended stays ended | 1 232 486 |
| `pool_ends` | two playbacks, three slots, fair: each ends | 11 787 |
| `lists` | four nodes, two queues, a list of chunk lists: the pointers are rings, counts are lengths, and the lists implement `CF_Queues` | 5 317 |
| `tick` | one receive and two send slots, wakeups with a limit of two messages and without one, a file that may fail to be opened or read, errors, cancel and abandon in any sub-state, suspension, freeze, restart: the resume point is queued; data in order of the queue; state messages are served; everything is sent; wakeups end, each with the exceptions of section 5 | 599 516 |
| `wire` | PDUs of every type, entity numbers of one to three octets: length and buffers, checksums and data in place, round trip, a cut PDU is never made up | 243 036 |
| `app` | two channels, four ground commands of every code, tables, wakeups, failures, restarts: types and chunk size; pipes match the engine; keys are unique; all or nothing; only the named transactions; a frozen channel only receives | 1 760 081 |

A property that is a conjunction says several things about one matter; each
conjunct is explained where it is defined.

### Bounds and why they are enough

* `FileSize` 0, 1 and 2: no data, one segment, and two, which gives order,
  gaps and a partly received file.  All safety properties of a transfer are
  proved for every size.
* `AckLimit = 1`: one retry, so that a limit is reached and a repeat within the
  limit exists.
* `TxChunks`, `RxChunks` of 2 for two segments: a list in a transfer does not
  overflow in these runs.  It does in `chunks`, and the theorems hold for every
  length.
* `MaxRx = 1`: one receive transaction.  A second one, created by a late PDU
  after the first was recycled, is covered by the theorems, but not by the
  liveness properties.
* `MaxCommands = 1`: the commands differ in the place where they strike; the
  theorems hold for any number.
* Pool: two slots are the smallest number at which users compete, so at most two
  transactions wait at a time, one of each priority or two of one; three history
  entries for two slots let an entry be taken from the free list and from the
  oldest.  The theorems hold for any number of each.
* Lists: with four nodes a list has a first, a last and two inner nodes, and the
  other lists may be empty, have one node or two.
* Scheduler: three transactions put the resume point on either queue, at the
  front or behind it; two segments and a budget of two let a wakeup end within,
  between and after the data of a transaction.  `Budgets = {0, 2}`: each wakeup has
  no limit or one of two messages, so that the loops which only a limit ends occur.
  `Troubled = {s2}` and `Unreadable = {s2}`: one sender is asked for data again,
  errs, is cancelled, abandoned or suspended and cannot read its file; it may be in
  front of the healthy one or behind it.  With a receiver among the `Troubled`, one
  segment and `Budgets = {1}` the run passes as well.  The theorems hold for any sets
  and any budgets.
* Wire: numbers at and beyond the widths of one and two octets; names of no, some
  and too many characters; up to two entries in each list; cuts of one, six and
  fourteen octets, which end in a header, a body and a list; a file of 27 octets,
  no multiple of four, in pieces that do not divide it.  `Radix = 8` keeps the words
  below 2^31; the theorems hold for every radix up to 256, which is the code's, and for
  every size of PDU, list, name and file.
* Application: two channels with two slots each let keys collide within a channel
  and between channels.  `MaxGiven = 4` messages from the ground reach: enable,
  transmit, disable, enable; and a table, a parameter and a command that uses it.
  Wakeups do not count.  `WordModulus` is 2^32 in the code and 2^30 in the run,
  since TLC's numbers end at 2^31; no value of the run reaches either.  The
  theorems hold for every number of channels, slots and messages and for every
  set of peers, parameters, values and commands.

The constants that limit the model and not the code are `MaxRx` and
`MaxCommands` in `CF_Transfer`, `MaxCommands` in `CF_TxnPool`, `MaxNaks` and
`Troubled` in `CF_Tick`, and `MaxGiven` and `MaxFiles` in `CF_App`; they
appear as guards.

Deadlock checking is off in the runs of `CF_Transfer`, where a transfer that is
over has nothing left to do, and in that of `CF_Wire`, where a PDU with which
nothing can be done any more is not followed further.

### Fairness

`CF_Transfer!FairSpec` asks that a sender that can start does, that it sends
data that is due, and that a wakeup at which the timers have run out comes again
and again to a transaction that exists and is not suspended.  The wakeup is
driven by the scheduler application, and `CF_CFDP_TickTransactions` goes through
each queue.  That timers run out is an assumption about the peer: it does not
send for ever.  Nothing is asked of the network, so nothing need be delivered.
The runs that use it have no congestion, no suspend and no abandon: a suspended
transaction may stay for ever, and an abandoned sender does (section 5).  That
the message budget comes round to state messages is what `CF_Tick` shows with
`StateMessagesServed`, for every transaction and whatever the others do.  New data and
the start of a pending transaction it reaches only if no other sender of the channel
hogs it: one abandoned in DATA_NORMAL, or one that is asked there for data which it
cannot read, takes the messages of those behind it for ever (`EverythingIsSent` with
its exception `Hogged`).  A wakeup without a limit may also never end (`Endless`).
The fairness of `S_NewData` and `S_Start` in `CF_Transfer!FairSpec` is therefore that
of a channel without such a sender; on one with it, `TransferEnds` is not claimed.

`CF_Tick!FairSpec` is weak fairness of the wakeup and of all that follows in it: the
scheduler application sends its wakeups, and a wakeup which has begun goes on.
Nothing is asked of the ground or the peers but that they fall silent in the end
(`Settle`), where a property says so.  `Settle` may be as late as one likes, so
that it finds the timers run out asks nothing of the timers but that they run.

`CF_TxnPool!FairSpec` asks that a pending transaction is started, that a
transaction on the TX queue completes (which is what `TransferEnds` shows) and is
recycled, and, as strong fairness, that a directory that is read again and again
comes to its end: directories are finite, but a playback is visited while other
playbacks take its slots.  The playbacks of `pool_ends` have one priority: more
urgent files may keep a playback waiting for as long as they keep coming.

## 4. What is proved

Every invariant and every action property that the runs check of `CF_Chunks`,
`CF_Transfer`, `CF_TxnPool`, `CF_Tick`, `CF_App`, `CF_CList` and `CF_Wire` is a
theorem, and so are the three refinements, for every value of the constants.  Liveness
is all that is left to TLC.

| Module | Theorem | States |
| --- | --- | --- |
| `CF_Chunks_proofs` | `StaysSortedApart` | the chunks are in order, and no two touch |
| | `GapsAreExact` | no gap means complete; a report names the first missing runs |
| | `ChunksImplementByteSet` | the array implements the set of bytes of `CF_ByteSet` |
| `CF_Transfer_proofs` | `TypeCorrect` | `TypeOK` |
| | `SourceIsSafe` | a class 2 source is removed or moved only if the copy is in place |
| | `FinIsTrue` | a FIN that says "retained" is true for as long as it can be delivered |
| | `CopiesAreIdentical` | what is put in place is the file that was sent |
| | `EofComesLast` | an EOF without error comes after all the data |
| | `SuccessIsDelivery` | a sender that knows of success delivered the file |
| | `FinsNeverDisagree` | all FINs of a receive transaction say the same |
| | `CompleteIsWritten` | complete means written, if `ListsComeEmpty` |
| | `NothingRemains` | no file handle or temporary file outlives the work, if `NoAbandon` |
| | `CancelIsRespected` | after a cancel no file is removed, moved or put in place |
| | `TransferDelivers` | sender, receiver, network and commands implement `CF_Delivery` |
| `CF_TxnPool_proofs` | `QueuesAlwaysAgree` | a transaction is on the queue its `q_index` names, once |
| | `NothingIsLost` | slots, history entries and chunk lists are conserved |
| | `RxIsLimited` | never more than `CF_MAX_SIMULTANEOUS_RX` |
| | `CountersCover` | `num_cmd_tx` and `num_ts` cover what they count |
| | `HoldStaysFinal` | HOLD is final |
| | `ArrivalOrderStays` | priority, then order of arrival |
| `CF_Tick_proofs` | `ResumeStaysQueued` | `tick_resume` is a transaction that a traversal reaches |
| | `DataGoesInOrder` | new data goes out in the order of the queue |
| `CF_App_proofs` | `AppTypes` | types, widths of parameters, the chunk size |
| | `PipesAreMatched` | pipes match the engine |
| | `KeysNameOne` | a key names one transaction of a channel, if `EntitiesDiffer` |
| | `CommandsDoAllOrNothing` | counted once; rejected means unchanged; who changes the table |
| | `OthersStay` | a command reaches the transaction it names and no other |
| | `FrozenChannelsOnlyReceive` | a frozen channel only receives |
| `CF_CList_proofs` | `RingsStay` | `prev` undoes `next`, a node is on one list at most, `q_size` is the length |
| | `ListsImplementQueues` | lists and traversals implement the sequences of `CF_Queues` |
| `CF_Wire_proofs` | `WholeMessages` | a message is as long as its header says, it fits, and no buffer is lost |
| | `RoundTrips` | what CF encodes it decodes to the same header and body; what it does not support it rejects |
| | `CutsForgeNothing` | a PDU cut short anywhere is rejected, or its lists and data are prefixes |
| | `ChecksumsEqual` | what is written is the file; the checksum does not depend on the pieces |

The constants are assumed to have the types that the modules' `ASSUME`s state.
Some of these are more than types.  `CF_TxnPool` and `CF_Tick` have counters that
wrap around, and their `ModulusAssumption` and `NumbersAssumption` say that the
limits fit the counters' types, as the slots fit `q_size` and `num_ts` (16 bits) and the
budget fits `outgoing_counter` (32).  Given that, `CF_CList` counts `q_size` without a
width.  `CF_Chunks` lets every chunk end at or below `MaxOffset`: the theorems hold
for each value of it up to 2^32 - 1, which is where the code's sums of an offset and
a size would wrap around.  `CF_App`'s `NumbersAssumption` keeps
`NumChannels` and `NumPolldirs` below the 254 and 255 that mean `CF_COMPOUND_KEY` and
`CF_ALL_CHANNELS` in a command.  `CF_Wire`'s `SizeAssumption` asks that the longest NAK,
the longest metadata and an EOF with a fault location fit `MaxPduSize` (the default is
512 octets for 58 segments), and that `MaxPduSize` fits the 16 bits
of the length field; `WireAssumption` that numbers fit 32 bits, a name's length its octet, and
a digit of the file an octet (`Radix <= 256`).  Without the first an encoding
fails, which nothing in the code looks for.

Three theorems have a hypothesis, because the property does not hold without it:

* `ListsComeEmpty` (`CompleteIsWritten`): no chunk list is handed out with the
  ranges of its last owner (section 5).
* `NoAbandon` (`NothingRemains`): an abandoned receiver leaves its temporary file
  (section 5).
* `EntitiesDiffer` (`KeysNameOne`): no number that the table or a command gives to
  this entity is a peer's.  CFDP requires it of a network and CF cannot check it.

They are hypotheses and not assumptions of the modules, so nothing else rests on
them.

### The inductive invariants

None of these properties is inductive.  Each module has one invariant that is,
checked with TLC on the module's run before it was proved (of `WireInv`, which
speaks of every buffer there could be, TLC checks only what follows from it).

`ChunksInv` (`CF_Chunks_proofs`).  `Apart` says that of any two chunks the earlier ends
before the later begins, with a byte between: then the runs of the set of bytes are
exactly the chunks (`RunStartsAre`, `RunIs`).  The binary search ends at the one
`Place` for a chunk, by induction over what remains.  Each function that combines
yields the array with the chunks from one position to another `Replaced` by a new
one; that the new one `Fits` between its neighbours and `Merges` what it replaces
makes the result sorted and the set of its bytes the union.  A full array forgets a
smallest chunk, also when the one to be added is the smallest and the code does not
insert it: in the abstract both are the eviction of a smallest run.  For the gaps,
`StopsAfter` says where the loop of the code ends and `RankIs` that the number of
missing runs up to a byte is the number of gaps reported up to it; the run before
the first chunk, which the code reports whatever the limit, is `Initial`.

`FileInv` (`CF_Transfer_proofs`).  The source is removed
because of a FIN; a FIN is sent because the receiver recorded the file as retained; it
recorded that because it moved the temporary file; it moved it because the CRC
was right.  `FileInv` has one link for each: `SenderOK` (a sender
that noted "retained" was told the truth, and its size is that of the file),
`PdusOK` (each FIN in the network that says "retained", and each size in a
metadata PDU, is true), `ReceiverOK` (a receiver that noted "retained" moved the
file, one that is complete has the metadata, and while its outcome is open every
segment below `crc_pos` is in the temporary file).  The last is the subtle one:
file data may move `cached_pos` under the CRC, and the proof shows that the
digest then never turns out right.  That is why `CF_CFDP_R_CheckComplete` may be
wrong (section 5) and the files are still safe.  There
is one lemma for each C function, that it keeps `SenderOK` or `ReceiverOK`, and one
for each action; `NextInv` joins them.

`OutcomeInv` (`CF_Transfer_proofs`, on top of `FileInv`).  `S_Conduct` and `R_Conduct`
say how a transaction has behaved: what cancelled it left an error, so a cancelled
one never reaches the step that removes or moves a file; its EOF follows its data;
it reports only after it dealt with its file, and then always the same.  FINs agree although the
code rebuilds each of them from the transaction, because what a FIN is built from no longer
changes once one may be sent; the invariant therefore compares every FIN in the
network with what the transaction would say now.  That the temporary file is
gone at the end needs that it exists only while the outcome is undecided, and
that a file is open only while the transaction is active.

The refinement of `CF_Delivery` follows from both.  A sender is open, cancelled, over,
or in HOLD with a success or a failure; `S_Keeps` and `S_Moves` say that no function takes it
back, and `S_Conduct` that the step to success is taken only when a FIN confirmed it
(where one is asked for).  The one tick that touches the source is the one that
ends the transfer, with the outcome for which the file was moved (`S_FilesTick`).  A
receiver puts its copy in place before it has reported anything, since it is
`Undecided` until then, and a FIN it adds says what every earlier one said.

`PoolInv` (`CF_TxnPool_proofs`).  `ChannelOK`, which every function keeps, says what the
resources are counted by: history entries by the used slots, chunk lists by the
used slots of a direction that hold one, each queue by the `q_index` of the
slots.  `RxIsLimited` needs in addition what relates `q_size["RX"]`, by which the
code decides, to the queue: equal while the engine is enabled, zero while it is
disabled, when no step moves a transaction to or from the RX queue; enabling
empties the channel.  Most functions only mark and count, and share
one lemma (`Marks`).  The counters are covered as long as no command has struck
(`commanded = 0`), because of the double finish of section 5.

`TickInv` (`CF_Tick_proofs`).  `PhaseOK` says that a wakeup with a resume point has not
come to it, and that while a traversal goes on nothing was blocked: a traversal
ends at the first transaction that is, so there is at most one resume point to
remember, and the phases after the state phases skip nothing.  `DataOK` says that
what the data traversal has passed had nothing left that it would try to send, which
is what `CF_CFDP_S_Tick_NewData` decides by: it includes a transaction in HOLD.  Its
loop is left only when that is so or when no message is to be had, and a message that
is taken and not sent leaves the loop where it was.

`AppInv` (`CF_App_proofs`).  A key is unique because every transaction that this
entity started has a number no greater than `seq_num`, which also holds for the
PDUs in the command pipe; parameters stay within limits because the table that
waits to be applied (`pending`) is valid, too, and the pipes match because an
enabling that fails leaves a channel that is not `ready`.  The proof follows the
code: `Done(s, r)` is what every handler guarantees of the states it may leave,
`AnswersOK` adds the counting, and `TurnOK` is one message of the command pipe.

`ListsInv` (`CF_CList_proofs`).  `Holds(h, Q)` says that the pointers `h` hold the
sequences `Q`, one for each list: `next` goes through each in a ring and `prev` back, the
head is its first node, no two have a node in common, and a node on none points to
itself.  Each function of `cf_clist.c` takes pointers that hold `Q` to pointers that
hold the sequences which `CF_Queues` says result; there is a lemma for each.
`ListsInv` says it of `Held`, the sequences that following `next` from the heads finds, and
the lemmas on `Chain` show that what is found is what is held.  `Counted` adds
`q_size`.  `AtNode` is about the traversal that goes on while its callback moves nodes:
it stands at some place of some list, and the `start` it remembers is that list's
first node (last, backwards).  That is why it stops: when the node that leaves is
`start` itself, the code moves `start` along, and the proof of the refinement has to show
that what is left to visit is then still the rest of the list, and not one round more.

`WireInv` (`CF_Wire_proofs`).  `OnWire(w)` says of the message under way that its first
`size` octets are those of some buffer in which the encoder left the PDU that it was
meant to be (`PduIn`), but for the flags that a peer set; or that it announces
identifiers that are too long (`LongOn`).  The lemmas about encoders say at which octet
each field of each PDU lies, given the lengths in the header, and that writing it
leaves what is before it alone; so the size that `CF_CFDP_SetPduLength` writes last
does not disturb the header, and by `SizeAssumption` no encoder breaks.  Those about
decoders say that reading at that octet gives the field back, or that the
decoder breaks when the message ends before it, and that a broken decoder stays
so.  A decoder that comes to the end of a cut message is therefore broken unless the cut
was between two elements of a list or in the data, which are what may be shorter.
`Outcome(r, w)` collects what `Received` may answer for a message that is `OnWire`;
`RoundTrips` and `CutsForgeNothing` follow from it.  For the checksum, `CrcAt(i)` is the state
after `i` octets: digesting any piece takes `CrcAt(i)` to `CrcAt(j)`, and finalizing
`CrcAt(FileLength)` gives `ModularSum`.  The invariant says that the sender is at
`CrcAt(txn.foffs)`.

Codec and CRC are folds over octets.  Their definitions are recursive functions on
sets of indices, and what such a function computes was shown by induction in the proof
itself: `FoldExists` builds it, and `ValueRuns` and `DigestRuns` follow its run index by
index.  That is within reach because each fold is a definition of its own, with a
step that is known; nothing is proved about folds of an arbitrary operator.

`CF_Facts_proofs` has what these proofs need and the library does not offer: the
least member of a set of numbers and, from it, induction over a set; facts about
inserting into and removing from sequences.

### Only model-checked

* All liveness: `TransferEnds`, `PlaybackEnds`, `StateMessagesServed`, `EverythingIsSent`,
  `WakeupEnds`.  They rest on fairness and ENABLED, which the prover does not handle.

## 5. What the repository says and the code does not do

Each of these was seen in a counterexample.  The models behave as the code does,
so the properties above are stated for what the code does keep, and a run shows
the disagreement when the claim is stated instead:

* `cf_cfdp.c:1061` - a chunk list is handed out with what its last transaction
  left in it; only `CF_ChunkListInit`, at engine start, empties it.
  `cf_cfdp_r.c:86` judges completeness by "having received all filedata PDUs (no
  gaps)".  With a used list a file of which nothing was received is complete.
  The CRC then rejects it, so no bad file is put in place, but the transfer fails.
  (`hostile` with `RxLists = {{}, {0}}` violates `CompleteMeansWritten`.)
* `cf_cfdp_s.c:895` - the inactivity timer does not run in DATA_NORMAL, whatever
  the state.  `cf_cfdp.c:2085`: "Put this transaction into the holdover state,
  inactivity timer will recycle it".  A sender abandoned while it sends data is
  never recycled, and keeps its slot and chunk list.  (`ends_class2` with
  `Commands = {"abandon"}` and `MaxCommands = 1` violates `TransferEnds`.)
  It does not keep still either: `cf_cfdp.c:1348` asks for the sub-state and not
  for the state, so the loop at `cf_cfdp.c:1382` takes messages for a file that is
  closed until the budget of the wakeup is spent, at every wakeup.  Senders behind it never send data,
  and nothing pending is started, since the wakeup is blocked before TX_PEND.
  (`tick` violates `EverythingIsSent` without its `[]Hogged`.)  An active sender in
  DATA_NORMAL that is asked again for data it cannot read does the same in the NAK
  phase, and there even to its own new data.
* `cf_cfdp.c:2072` - abandoning a transaction in HOLD finishes it twice, and the
  counters of commanded files or of the playback wrap around.  `cf_cfdp.c:2070`
  asserts that this cannot be ("sanity check").  (`CountersCoverUnfinished`
  without its `commanded = 0` is violated in `pool`.)
* `cf_cfdp.c:1382` - the loop that sends new data goes on while
  `outgoing_counter` changes, and `CF_CFDP_MsgOutGet` counts a message before the
  file is read.  `cf_cfdp.c:1363`: not to keep "looping the same TXN if it is not
  making progress".  `cf_cfdp.c:1547` repeats the NAK phase likewise, "so long as
  something was produced".  On a channel without a message limit and without a
  semaphore a file that cannot be read, or is closed, keeps the wakeup in these
  loops for ever.  (`tick` violates `WakeupEnds` without its `[]Endless`.)

Others, seen while modelling:

| Code | Says otherwise | What happens |
| --- | --- | --- |
| `cf_cfdp.c:143` | `cf_cfdp_dispatch.c:172` "transactions cannot change modes mid-stream" | in HOLD the class is read as 1, so late ACKs of a class 2 transaction are discarded by the peer |
| `cf_cfdp_s.c:248` | `cf_cfdp_s.c:235` "count and re-ack but otherwise ignore it" | FINs repeated beyond `ack_limit` turn a success into a failure |
| `cf_cfdp_r.c:207` | `cf_cfdp_r.c:195` "only accept the first EOF, ignore dupes" | EOFs repeated beyond `ack_limit` end a healthy transaction |
| `cf_cfdp_r.c:144` | `cf_cfdp_types.h:103` "Checking the CRC on the complete file" | file data repeated during the check moves the position, and an intact file fails |
| `cf_cfdp_s.c:959` | assertion `cf_cfdp.c:401` | metadata that is due is sent from HOLD |
| `cf_cfdp_r.c:1100` | assertion `cf_cfdp.c:666` | a NAK that is due is sent from HOLD, where the class reads 1 |
| `cf_cfdp_s.c:677` | `fsw/inc/cf_fcncodes.h:311` "close out cleanly" | a sender cancelled in DATA_NORMAL ends without an EOF |
| `cf_cfdp.c:2086` | `cf_cfdp_r.c:693` "the temp file is deleted" | abandoning a receiver leaves its temporary file |
| `cf_cfdp.c:1404` | `fsw/inc/cf_fcncodes.h:345` "immediate reset" | a transaction abandoned on PEND is started later |
| `cf_utils.c:161` | `cf_cfdp_types.h:138` "placeholder for new transactions" | a new transaction may start with the error of an old one |
| `cf_cfdp.c:1095` | `fsw/inc/cf_internal_cfg.h:57` "outstanding" | a transaction that fails before it starts stays counted, in `num_cmd_tx` or in the `num_ts` of its playback, which then never ends |
| `cf_cfdp.c:1871` | `cf_cfdp.c:1873` "no more active transactions" | after a double abandon the playback slot is given back too early |
| `cf_utils.c:448` | `cf_utils.h:289` "priority sorted" | a transaction more urgent than all that wait goes to the back |
| `cf_cmd.c:777` | `docs/dox_src/cfs_cf.dox:1276` "remove all entries" | a purge leaves the pending queue as it is, in HOLD |
| `cf_cmd.c:906` | `fsw/inc/cf_fcncodes.h:456` "Invalid parameter combination" | a queue or type of unknown value is accepted and nothing is written |
| `cf_cmd.c:986` | | the file of a written queue stays open when everything was written |
| `cf_cfdp.c:1236` | `fsw/inc/cf_fcncodes.h:665` "Reinitialize engine" | an enabling that fails half-way leaves the pipes of earlier channels; the next one forgets them, and creating them again fails |
| `cf_cfdp.c:2311` | | disabling closes once more the directory of a playback that has read its last name, and leaves the file handles of transactions set |
| `cf_cmd.c:1146` | `cf_app.c:100`, the checks of the table | parameters have checks of their own: a table may have what a command may not set, and the other way round; a value is cut to the width of its field, while the event reports the value given |
| `cf_cfdp.c:1768` | `CF_EntityId_t`, 32 bits | the destination of a playback is passed in 16 bits |
| `cf_cmd.c:1087` | | the number of this entity may change under a transfer, whose PDUs then have another source |
| `cf_cmd.c:361` | "it isn't correct to have the same EID re-using a TSN in the same system" | a file sent to oneself exists on two channels, and a command reaches the first |
| `cf_cfdp.c:2327` | `cf_cfdp.c:2326` "all queue counters must be reset" | commands to a disabled engine leave the counters wrong |

## 6. What is not modelled, and why

* Timers' countdown (`cf_timer.c`): a timer has run out or it has not.  What a
  second is worth in ticks is arithmetic of one line.
* The trailing CRC of a PDU: CF sends none, and cuts off the one it receives
  without a look at it.
* `OS_remove` that fails: a file that is to be removed is gone.
* Zero-length file data in `CF_Transfer`: each segment has data.
* Telemetry other than the command counters and `q_size`, which the code itself
  reads; events and their text.
* `CF_App` has no PDUs of a transaction number that an earlier engine of this
  entity used and that arrive after it was enabled again: with them
  `KeysAreUnique` does not hold, and nothing in the code would make it so.
* Unit tests, stubs, build files, the command database and the EDS: not behaviour
  of the application.
