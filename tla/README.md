# MCAS in TLA+

MCAS (Memory-Centric Active Storage) is a network-attached key-value store in
C++.  A server runs one or more *shards*.  A shard is one thread that polls its
client connections, its ADO (active data object) processes and its background
tasks, and never blocks: a lock that cannot be had is refused.  Keys live in
*pools* held by a storage backend (`mapstore` in DRAM, `hstore` in persistent
memory).  A pool may have an ADO process, which runs user code on values in
place; shard and ADO process talk over lock-free queues in shared memory.

This directory holds TLA+ models of the parts whose correctness depends on
interleavings, on ordering or on long sequences of calls, the TLC
configurations that check them, and TLAPS proofs.  Paths below are relative to
`src/src/` of the repository, `S/` stands for `server/mcas/src/`.

## 1. Inventory

| part | source | state | operations | module |
|---|---|---|---|---|
| MPMC queue | `lib/common/include/common/mpmc_bounded_queue.h` | ring of nodes with sequence numbers, two cursors | enqueue, dequeue, empty | `MpmcQueue` |
| value locks, direct transfers | `S/shard.cpp`, mapstore `put`, `lock`, `swap_keys`, `erase` | RW lock per pair, shared and exclusive tables keyed by address, pending renames | PUT, GET, ERASE, PUT/GET_LOCATE and RELEASE, session end | `DirectIo` |
| pools and ADO tables | `S/pool_manager.h`, `S/ado_map.h`, `S/shard.cpp`, mapstore pools | reference counts per session, name and handle maps, proxy reference counts | CREATE, OPEN, CLOSE, DELETE, session end, POOL_DELETE answer, configure request of a plugin | `PoolSessions` |
| ADO work | `S/shard_ado.cpp`, `components/ado/ado_proxy`, `server/ado/src/ado.cpp` | work requests, deferred and lifetime unlocks, queues both ways | invoke, put + invoke, signals, callbacks, completion, session end | `AdoInvoke` |
| hstore hash table | `components/store/hstore/src/hop_hash_base.tcc`, `persist_map_controller.tcc` | buckets with owner words and in-use flags, size, segment count; each in cache and in persistent memory | emplace, erase, resize, recovery; write-back, power failure | `HopHash` |
| hstore redo record | `components/store/hstore/src/persist_atomic_controller.tcc`, `persist_fixed_string.h` | cells, reference-counted blocks, the record of one pending change | replace, update, swap, insert, erase, pin, redo; crash | `AtomicRecord` |
| ccpm allocator | `lib/libccpm/src/area_ctl.cpp`, `area_top.cpp`, `cca.cpp`, `doubt.cpp` | alloc words, state bytes, doubt record, chains by free run | allocate, free, restore; crash | `CcAllocator` |
| client library | `components/client/mcas-client` | asynchronous handles, buffers | put_direct, get_direct, polling | the direct operations, in `DirectIo` |
| UIPC and SPSC queues, connections, index, iterators, rcalb, fabric, TLS, launcher, ADO manager, cluster, bindings | | | | not modelled (section 5) |

What is hard here and out of the reach of the unit tests:

* every shared table of a shard is keyed by something that is reused: value
  addresses (`_locked_values_shared`, `_pending_renames`), pool handles
  (`_ado_pool_map`), slots (`_outstanding_work`);
* an operation of a client takes several requests, and other clients' requests,
  ADO callbacks and disconnects come in between;
* locks taken at one place are released at another: by the RELEASE request, by
  the completion of a send, by the completion of the ADO work, by the plugin, or
  at shutdown of the ADO process;
* early returns and exceptions after a lock or a reference was taken;
* in persistent memory, stores that become durable in another order than they
  were made, a failure between any two of them, and one more in the recovery.

`PROJECT.json` lists the main hazards at their lines with the properties that
cover them.

## 2. Modules

### `MpmcQueue` (abstract: `BoundedFifo`; proofs: `MpmcQueueProofs`)

`Mpmc_bounded_lfq`, one atomic access per action: `EnqueueLoad`, `EnqueueNode`
(the load of the node's sequence and the comparison), `EnqueueClaim` and
`EnqueueClaimFails` (the weak compare-and-swap, which may fail spuriously),
`EnqueueData`, `EnqueuePublish`, and the same for `dequeue`; `empty` has a load
of the cursor and one of the node.  `pc`, `seq` and `item` are the registers of
a thread.  Cursors and sequences are natural numbers: the code's 64-bit counters
do not wrap in practice.  `avail[c]` is a history variable, the tickets that
were published when the consumer's call began.  The memory model is sequential
consistency; the code uses acquire and release accordingly.

`BoundedFifo` is the specification: a sequence of at most `Size` items, and the
item last handed to each consumer.  An `enqueue` takes effect when `_head_seq` is
advanced, although the item is written later, and a `dequeue` when `_tail_seq` is
advanced, although the item is read later: the item of a ticket is in its node
once published and with its producer before (`ItemOf`).

### `DirectIo` (abstract: `DirectKv`; proofs: `DirectIoProofs`)

One shard over one mapstore pool, and clients that follow the client library.
`ptr`, `lk`, `pend`, `plk` are the map entries and locks of a key and of its
`___pending_` key, `data` and `len` the value memory.  `sh_*` is
`_locked_values_shared`, `ex_*` `_locked_values_exclusive`, `rename`
`_pending_renames`.  Each handler is one action, including the store calls it
makes (`PutRelease` is `io_response_put_release` with
`release_pending_rename`: lock, unlock, swap, erase, and the failures of each).
The RDMA write of a client is an action of its own, between LOCATE and RELEASE.
Values have a length (`Len`) because mapstore overwrites in place only for equal
lengths, and because a pending object is handed out whatever its length;
`Torn` stands for memory with parts of two values.  `ok` records the answer.

`DirectKv` is what a user may expect: a map in which a put_direct becomes visible
at once at its release, or not at all, and at most one is in progress per key.

### `PoolSessions` (proofs: `PoolSessionsProofs`)

The `Pool_manager` of each session (`refs`, `n2p`, `p2n`), mapstore's pools and
sessions (`pools`, `opened`), `_ado_map` (`ado_ref`, `ado_pool`) and
`_ado_pool_map` (`map_ado`, `map_count`), POOL_DELETE events on their way
(`event`), and the handles the client library holds (`held`).  A pool handle is
the address of a mapstore session, so a closed handle may be given out again.
`ado_enabled` is a configuration, chosen once.  `alive` becomes FALSE where the
code throws out of the main loop.  A plugin may take and return references to its
own proxy (`ConfigureIncRef`, `ConfigureDecRef`: the configure request with
`CONFIG_SHARD_INC_REF` and `CONFIG_SHARD_DEC_REF`), as long as the main loop polls
it; `plugin_ref` counts what it has taken.  That it returns no more than it took is
its own part of the contract, which the shard does not check; with such a
reference the last close leaves the process running.

### `AdoInvoke` (proofs: `AdoInvokeInvariant`, `AdoInvokeProofs`)

One pool with its ADO process.  Requests (`InvokeAdo`, `PutAdo`,
`PutAdoDetached`, the signalled `PutSignal`, `GetSignal`, `EraseSignal`, and what
each does on refusal, on a value that is too large, lack of memory or lack of a
slot), callbacks while the
first request of `queue` runs (`OpenKey`, `UnlockKey`, `EraseKey`,
`ResizeValue`), `DoWork`, completions (`Complete`, `CompleteValue`,
`CompleteStale`), sends and session ends.  `deferred`, `life` and `explicit` say
who is to release a lock the plugin took.  Flags are sets of bits, as
`FLAGS_ADO_LIFETIME_UNLOCK` and `FLAGS_NO_IMPLICIT_UNLOCK` have one in common.
What user code does is bounded by the interface: `AdoWrite` writes to what the
plugin has locked.  Left out: a get of a large value without the post-get signal,
which `DirectIo` has, and the key that a completion with the erase status reads
from an erase signal, whose pair is gone already.

### `HopHash` (proofs: `HopHashInvariant`, `HopHashProofs`)

The table as two arrays of buckets: `line`, what the program sees, and `pm`, what
is in persistent memory.  A bucket is one cache line with an owner word (`own`,
the offsets of the contents it owns, and `use`, the in-use flag of its own
content) and a content, of which the model keeps the key.  `Persist` copies the
lines the code persists; `Evict` writes back any line at any time; `Crash`
forgets `line`.  `emplace` is `Emplace`, `NearestFreeBucket`, moves to make space
(`MoveStart` .. `MoveDone`), `InsertStart` .. `InsertDone`, or a resize when no
free bucket can be brought near (`NoNearEmptyBucket`, `ResizePass1`,
`ResizeInterlog`, pass 2 by bucket, `ResizeEpilog`, after which `emplace` looks for
its key once more and starts again), or `hop_hash_full`; `erase`
is `Erase`, `EraseOwner`, `EraseDone`; the constructor finishes an unstable
resize and then repairs flags and size (`ScanElement`, `ScanDone`).  A change of
the size word is persisted in the step that makes it.  `told` is the history of
what the caller was told, `stale` of the case described under `hop_stale`.
`NoKey` is the key of a bucket whose flag was cleared by `erase`.  Bucket mutexes,
the strings' reference counts and the allocation states are left out.

### `AtomicRecord` (proofs: `AtomicRecordProofs`)

`persist_atomic_controller`: one record (`rec`) describes the pending change of a
pool, `size` saying which: 0 none, -1 a replacement, -2 a swap, n > 0 an update
of n entries.  A cell holds its string inline or refers to a block; `heap` has
the counts and the bytes.  Each store that a crash can separate from the next is
a step: the assignment of the new value to the record, the size, the entries of
an update, the release, copy and count of a replacement, the two copies of a
swap, the reset of the record; the content and the owner of an insertion
(`Insert`, `InsertOwner`); the owner, the content and the in-use flag of an erasure
(`Erase`, `EraseContent`, `EraseMark`); and the pointer, the block and the mark of a
pin (`Pin`, `PinAllocate`, `PinFixed`), which makes a short value lockable by
moving it out of line.  `loose` is the content that is in use without an owner.
The release of a last reference stores a null pointer in the cell, which stays
marked as out of line until the next store (`Released`, `NullCell`).

A crash is the process stopping between two stores, which survive.  `Recover` is
the constructor: contents in use and the record reconstitute their blocks, a
content without an owner is marked free (its block stays counted until the next
opening, `orphan`), and the record is redone.  `reconstitute` dereferences the
pointer of every string out of line, so an opening that finds a null pointer
ends the process, each time (`Unreadable`).  `SwapCrash` and `FreeCrash` say
whether crashes strike a pending swap and those intervals.  A WRITE of n bytes is
n entries of one byte.  `committed` is the history of what the finished calls and
the pending one mean; for a pin that fails or is cut short it takes what that
leaves of the value.  Keys are short strings: the string of a long key has the
same interval when the record is cleared.  Moves of contents in the hash table
are in `HopHash` only.

### `CcAllocator`

`cca` over two regions, each a tree of `area_ctl`s.  `bits` is the alloc word of an
area (stored and persisted at once), `state` the bytes that tell a client's first
element, aligned with the element or not, from its continuation, `saved` those bytes in persistent memory; `dt` is
the doubt record of a region, `cptr` the client's pointers, which are persistent
too, `tier` the volatile chain an area is in.  `allocate` searches the regions
round robin (`AllocateStrategy1`, `AllocateRecovery1` which is `restore_all`,
`AllocateRecovery2` which subdivides, `NextRegion`, `AllocateFail`), then both
`allocate` and `free` go through the doubt record: `SetDoubtBytes`,
`SetDoubtPtr`, `TellClient`, `MarkElements`, `ClearDoubtBytes`, `Rechain`,
`ClearDoubtPtr`.  `Crash` may come before any of them, and `Restore` is the
constructor with the client's oracle of what it owns.  `RegionAt` is the address of
a region, which decides how much slack an alignment takes (`RunLength`).

The modules do not share variables.  `DirectIo` has signals off and `AdoInvoke`
has no direct transfers; each has the locks of the same store, and the lock rules
(`Free`, `Take`, `Give`; `CanReadLock`, `Unlocked`) agree.  `PoolSessions` is
what makes "one pool with its ADO process" true or not.

## 3. Runs

| run | instance | states | checks |
|---|---|---|---|
| `mpmc` | 2 producers, 2 consumers, 2 nodes, 3 items | 118,716 | `TypeOK`, `ExclusiveNode`, `QueueInv`, `ImplementsFifo`, `EmptyIsEmpty` |
| `direct_io` | 2 clients, 2 keys, 1 length, 3 memory cells | 72,768 | `TypeOK`, `LockInv`, `GrantBacked`, `ReadStable`, `ImplementsDirectKv` |
| `pool_sessions` | 2 sessions, 2 pools, 3 handles, with and without ADO | 473,962 | `TypeOK`, `HandleBacked`, `OpenPoolsExist`, `AdoRefsExact`, `AdoServing` |
| `ado_invoke` | 2 clients, 1 large key, 2 slots, signals on or off | 535,854 | `TypeOK`, `LockBacked`, `OneAnswer`, `TargetStable` |
| `ado_sync` | 2 clients, 2 keys, a slot per client, no closes | 16,880 | `WriteLocksOwned`, `ReadLocksOwned`, `Answered`, `Completes` |
| `cca` | 2 regions, 3 pointers, 2 crashes | 151,745 | `TypeOK`, `DoubtCovers`, `RunsExact`, `ChainsExact`, `FailsWhenFull` |
| `hop_hash` | 5 keys, 4 buckets growing to 8, 2 failures | 399,502 | `TypeOK`, `ToldDurable`, `OneOwner`, `OwnedMarked`, `AtomicCalls`, `MovesApproach` |
| `atomic` | 2 keys, 2 blocks, values of 1 and 2 bytes, 2 crashes | 893,660 | `TypeOK`, `Restartable`, `AllOrNothing`, `CountsExact`, `SourceStable`, `Recovers` |
| `cca_restore` | as `cca` | | `DoubtResolved` is violated |
| `hop_stale` | as `hop_hash`, 1 failure | | `NoResurrection` is violated |
| `atomic_swap` | as `atomic`, crashes in a swap | | `AllOrNothing` is violated |
| `atomic_free` | as `atomic`, 1 crash, also where a cell has a null pointer | | `ReplaceRestarts` is violated |

Ten more configurations are kept beside the runs, for the same modules; they
are not listed in `PROJECT.json`:

| configuration | module | shows |
|---|---|---|
| `DirectIoLengths.cfg` | `MCDirectIo` | 1 key, 2 lengths: `TypeOK`, `LockInv`, `GrantBacked`, `ReadStable` hold (19,673 states) |
| `DirectIoLeak.cfg` | `MCDirectIo` | `LocksReturned` is violated |
| `DirectIoTorn.cfg` | `MCDirectIo` | `PutDirectIntegrity` is violated |
| `PoolSessionLeak.cfg` | `MCPoolSessions` | `SessionPoolsClosed` is violated (no ADO) |
| `PoolAdoShared.cfg` | `MCPoolSessions` | `AdoPerPool` is violated (with ADO) |
| `AdoExhausted.cfg` | `MCAdoInvoke` | `Answered` is violated (one slot) |
| `AdoLifeLock.cfg` | `MCAdoInvoke` | `LifeLocksReleased` is violated |
| `CcaLines.cfg` | `MCCcAllocator` | state bytes beyond the first cache line: `DoubtCovers` is violated |
| `CcaSlack.cfg` | `MCCcAllocator` | alignments above the element size: `RunsExact` is violated |
| `AtomicPin.cfg` | `MCAtomicRecord` | `PinHarmless` is violated |

Bounds.  Two threads on each side of a ring of two nodes let each thread lose a
race, meet a full and an empty ring and wrap around.  Two clients are enough for
overlapping readers, for a reader under a writer and for a session that ends
under another; a third memory cell lets the old value, the pending object and a
new allocation exist together.  `MaxReaders` bounds the read locks that are never
returned (see `DirectIoLeak.cfg`); beyond it the code's `trylock` refuses as well.
Three handles let a closed one be reused while two are open.  `MaxRefs` and
`MaxAdds` bound counters that only grow by repeating a request, `MaxPlugin` the
references of a plugin.  `MaxDeferred`
stands for `MAX_ALLOWED_DEFERRED_LOCKS`.  Clients, handles, cells and slots are
interchangeable, so symmetry is used, except where a liveness property is
checked.

`direct_io` has values of one length, for which the refinement of `DirectKv` holds;
`DirectIoTorn.cfg` is what happens with two.  The lock properties do not depend on
lengths: `DirectIoLengths.cfg` and the theorems, which hold for any `Len`.

`HopHash`: three keys share a home with room for two, so that inserts move other
contents, resize, and fail with `hop_hash_full` once the second segment is
there; one key wraps around the end and has another home after the resize.  The
reach is two, which does not exercise the narrowing of the eligibility mask over
longer distances.  Failures after the first strike the recovery.  `AtomicRecord`:
two bytes are the shortest value that goes out of line (`SmallLimit`), two blocks
let the heap be exhausted, two entries let an update write a byte twice; crashes
after the first strike the constructor.  In `atomic` no crash strikes a pending
swap (`SwapCrash`), as the redo of one is wrong (`atomic_swap`), and none finds a
null pointer (`FreeCrash`), as no opening comes from there (`atomic_free`).
`CcAllocator`: elements of one and four units, so that requests of 2 to 5 units
stay on one level, need a subdivision or go to the upper level, and an alignment
of two may start within an element; two regions of different height, one of them
at an odd address, make the round robin skip one.  `FirstLine` says which state bytes share
the cache line of the alloc word, in `cca` all of them.

Deadlock is checked for the queue, `DirectIo`, `HopHash` and `AtomicRecord`.
`PoolSessions` and `AdoInvoke` may really stop, as their main loop ends by
exception, and so may `CcAllocator`, when `restore` throws, and the pool of
`atomic_free`, which cannot be opened.

Fairness is assumed in three runs.  In `ado_sync` the plugin returns from `do_work`
(`DoWork`), which MCAS requires of plugins, and the main loop, which polls the
proxies in every round, handles a completion that is there (`Complete`,
`CompleteValue`).  Nothing is assumed of clients.  In `atomic` and `atomic_free` a
process that runs goes on with its call, and a pool that is down is opened again
(`WF_vars(Step)`); crashes are bounded by `MaxCrashes`.

### What the violated properties show

* `cca_restore`: a crash after the doubt was recorded and before the alloc word was
  written leaves an element that `locate_element` refuses, and `restore` throws
  where its comment says it marks the range as the client's.
* `hop_stale`: `erase` clears the in-use flag in the cache and marks the size
  stable; after a power failure the flag may be set again, the constructor has
  no reason to look, and a resize makes the erased content owned.  The
  properties of `hop_hash` exempt the states after such a resize (`stale`) and
  only those.
* `atomic_swap`: `do_swap` saves nothing of the second value, so that repeated
  after its second copy it stores the first value twice.
* `atomic_free`: the assignment of a `persist_fixed_string` frees the old block and
  nulls its pointer before it copies the new string.  A crash in between leaves a
  string out of line without a block, which `reconstitute` dereferences before the
  record can be redone, although `operator=` says that it "must be restartable".
  An erasure and the clearing of the record have the same interval.
* `DirectIoLeak.cfg`: `add_locked_value_shared` emplaces an entry per target and
  counts; the second of two overlapping readers takes a second read lock in the
  store, of which only one is returned.  The pair can then never be written
  again.  `info/locking.md` promises an unlock for each get.
* `DirectIoTorn.cfg`: `release_pending_rename` throws when the key is locked and
  leaves the rename and the pending object.  The next put_direct of the key gets
  that object, with its old length, and makes a value visible that nobody put.
* `PoolSessionLeak.cfg`: at the end of a session a pool is closed only together
  with the ADO process it is the last user of.
* `PoolAdoShared.cfg`: each open takes a reference to the ADO proxy, but only the
  last close returns one.  The entry that is left serves whatever pool is next
  given that handle.
* `AdoExhausted.cfg`: when no work request is free the exception is logged, the
  pair stays locked and the client is not answered.
* `AdoLifeLock.cfg`: the two flags share bit 0x20, so a lock for the life of the
  ADO process is taken for one the plugin releases, and stays.
* `CcaLines.cfg`: `el_allocate_n` persists the state bytes after the first one only.
  When that byte is not in the cache line of the alloc word it may be lost after
  the doubt has been cleared, which `area_ctl.cpp:421` says is not before the
  state bytes are persistent.
* `CcaSlack.cfg`: for an alignment above the element size in a region that does not
  have it, the larger of two slacks is added where both are needed, so that the
  allocation reaches one element beyond the run that was found free.  The comment
  (`area_top.cpp:447`) says that the run is sufficient.
* `AtomicPin.cfg`: `pin` makes the pointer in the bytes of the value, before there is
  a block.  When no block is to be had, or the process stops, the value keeps its
  length and loses those bytes.

Further disagreements met while modelling, which follow from the actions named
and have no run of their own: a signalled get of a large value takes its read
lock twice and returns it once (`CompleteValue`), and when the second lock is
refused the client gets no answer (`GetSignalLost`); a value too large for its
response stays locked (`GetTooLarge`); a post-put signal that cannot
lock its pair leaves the client without an answer (`PutSignalLost`), and a put
that was refused is answered with the plugin's status (`PutSignal`); a detached
put without memory leaves the root value locked (`PutAdoOutOfMemory`); the
completion of a synchronous request reads the handler of a session that may be
gone (`CompleteStale`); a callback without a work id is answered twice
(`OpenKey`); a CREATE of a pool the session has open takes a reference and gives
no handle (`CreateOpenPool`); a DELETE with an ADO process ends the main loop when
another session has the pool open (`DeleteEvent`); the second reader of a value
loses its memory registration (`AddLockedValueShared`, `sh_mr`); `dequeue`
returns false behind a producer that is slow to publish (hence the second case
of `EmptyIsEmpty`), and a ring of one node accepts two items (hence `Size >= 2`);
a put refused on a locked pair ends the main loop (`PutAdoThrows`);
`_failed_async_requests` keeps what is never read.  In the redo record: the entry
of kind ZERO calls `fill_n` with a count of 0 and changes nothing (it is left out
of the model); `inline_t::assign` leaves the fill out of the size; an update whose key is
missing throws `key_not_found`, which the constructor's handler of `range_error`
does not catch, after the finisher has cleared the record, so the next opening
succeeds (`UpdateDone`, `ClearCell`, `Recovers`).

## 4. Proofs

The proofs are for all values of the constants that satisfy the named `ASSUME`s of
the modules, which TLC evaluates in each run.

| module | theorem | states |
|---|---|---|
| `MpmcQueueProofs` | `TypeCorrect`, `QueueInvariant`, `NodeExclusion` | `[]TypeOK`, `[]QueueInv`, `[]ExclusiveNode` |
| | `EmptyReports` | `EmptyIsEmpty`, an action property |
| | `Refinement` | `ImplementsFifo` |
| `DirectIoProofs` | `TypeCorrect`, `LockInvariant`, `GrantsBacked` | `[]TypeOK`, `[]LockInv`, `[]GrantBacked` |
| | `ReadStability` | `ReadStable`, an action property |
| | `Refinement` | `ImplementsDirectKv`, for values of one length |
| `PoolSessionsProofs` | `TypeCorrect`, `HandlesBacked`, `PoolsExist`, `RefsExact`, `OpensServed` | `[]TypeOK`, `[]HandleBacked`, `[]OpenPoolsExist`, `[]AdoRefsExact`, `[]AdoServing` |
| | `EventsFindProxy` | a POOL_DELETE event under way has its proxy |
| `AtomicRecordProofs` | `RecordTypes`, `RecordRestartable`, `RecordAllOrNothing`, `RecordCountsExact` | `[]TypeOK`, `[]Restartable`, `[]AllOrNothing`, `[]CountsExact`, with no crash in a pending swap |
| | `RecordInvariant`, `RecordSourceStable` | the inductive invariant; `SourceStable`, an action property, likewise |
| `AdoInvokeProofs` | `AdoTypes`, `AdoLocksBacked`, `AdoOneAnswer` | `[]TypeOK`, `[]LockBacked`, `[]OneAnswer` |
| | `AdoTargetStable` | `TargetStable`, an action property |
| | `AdoWriteLocksOwned`, `AdoReadLocksOwned`, `AdoAnswered` | `[]WriteLocksOwned`, `[]ReadLocksOwned`, `[]Answered`, where `Undisturbed` |
| `HopHashProofs` | `HopToldDurable`, `HopOneOwner`, `HopOwnedMarked` | `[]ToldDurable`, `[]OneOwner`, `[]OwnedMarked` |
| | `HopAtomicCalls` | `AtomicCalls`, an action property |
| | `HopTypes`, `HopMovesApproach` | `TypeOK` and `MovesApproach` as long as `~stale` |

### The queue

For any sets of producers and consumers, any items and any `Size >= 2`.

`ExclusiveNode` is not inductive.  `QueueInv` says of each ticket in which state
its node is: free (`FreeTicketInv`), or claimed and being written, published, or
being read (`ClaimedTicketInv`), and of each thread in the middle of a call which
ticket it owns and that no other does (`ProducerInv`, `ConsumerInv`).  Two tickets
share a node only if they differ by a multiple of `Size`; a lemma about `%`
carries that, and the window `tail_seq .. tail_seq + Size` does the rest.

`EmptyReports` needs more than `QueueInv`: the sequence of a node only grows
(`NodeGrows`), so the node of a ticket that was published when a call began has
at least that sequence later (`NodeAge`, `AvailInv`).  A consumer that finds its
node not ready has therefore lost its ticket to another dequeue, or stands
before a producer that is still writing.

`Refinement` shows that the advance of `_head_seq` appends one item to the abstract
queue and the advance of `_tail_seq` removes the first (`ClaimRefines`,
`TakeRefines`), and that the plain store to the node, the publication, the plain
load and the recycling change nothing that the abstract queue shows
(`DataRefines`, `PublishRefines`, `LoadRefines`, `RecycleRefines`).  The extra
invariant `DataInv` says that a producer about to publish has stored its own item.
Sequences are compared index by index, so no induction is needed.

### Direct transfers

For any clients (a finite set), keys, values and memory; lengths are arbitrary
except in the refinement.

`LockInv` is the agreement of the tables of the shard with the locks of the store
and the clients' view; it is proved together with `TypeOK`, since a lock counter
stays in range only if a release finds the lock it releases.  The conjunct about
several readers of one value needs their number, and the lemmas on `Readers` with
`FiniteSetTheorems`.  `ReadStability` follows from the same invariant: what a
client reads is the memory of a read-locked key and of no other object
(`ReadTarget`), and each action that writes memory or moves a key needs the key
unlocked or writes elsewhere.

`Refinement` assumes that all values have one length, as `direct_io` does; with two
lengths the statement is false, which `DirectIoTorn.cfg` shows.  It needs that every
object then has that length (`LengthInv`), so that a transfer fills the object,
and that a pending object that was written holds what its client announced
(`WrittenInv`), as nobody else writes to it (`WriteTarget`).  PUT_LOCATE begins a
transfer to a key nobody else transfers to, because the lock of the pending key
was free; the remote write is invisible; PUT_RELEASE commits the announced value
at the announced key; a failed release and the end of a session leave the map
alone.

### Pools

For any finite sets of sessions and handles and any names and bounds, with and
without ADO processes.  The inductive invariant adds to the checked properties:

* `CountInv`, `ProxyInv`: an entry of `_ado_pool_map` or `_ado_map` exists exactly as
  long as it is referenced;
* `SharersCounted`: the references of a handle are at least the sessions that have it
  open, which is why a release never finds the entry gone;
* `EventsCovered`: opens and POOL_DELETE events under way together hold at most the
  references of the proxy.  A delete by handle turns an open into an event and
  returns no reference;
* `NoAdo`: without ADO processes the tables stay empty, hence the end of a session
  closes nothing under another one.

`AdoRefsExact` counts the references as pairs of a handle and a number, beside those
the plugin has taken, so that one open adds one pair and a release removes one pair
for each handle it releases; the lemmas on cardinality (`OneToOne`, `OneMore`, `OneFewer`) carry the rest.

### The redo record

For any keys, blocks, values, updates and any number of crashes, under the
hypothesis `SwapCrash = FALSE`: no crash strikes a pending swap, where
`Restartable` is false (`atomic_swap`).  `FreeCrash` is not restricted: a crash that
leaves a null pointer leaves a pool that is never opened again, of which
`Restartable` and the properties of an idle pool say nothing.

`Restartable` is not inductive.  The invariant says that the cells are well formed
and no block belongs to two keys (`CellsInv`); that a content without an owner is
there only while one is made or destroyed, or since a crash (`LooseInv`); that
while the pool is open the count of a block is the number of cells, record, call
and ownerless content that refer to it (`CountInv`), so that the block of the new
value survives the release of the old one; what is being inserted or pinned
(`TableInv`); which sizes go with which step (`PcInv`); what the description of a
change is on its way into the record and once it is pending (`CallInv`,
`PendingInv`); where the two values of a swap are (`SwapInv`); how far an update has
come, where of several entries for a byte the last counts (`ProgressInv`), so that
the entries may be made again from the first; and what table and record mean
together (`MeaningInv`), which is `Restartable` key by key.  The lemmas about steps
take two facts about numbers and small sets as hypotheses (`GreatestExists`,
`SmallCardinals`), which are proved from the libraries at the end of the module.

### ADO work requests

For any finite sets of clients and slots, any keys, values, signals, flags and
bounds: asynchronous requests, callbacks, values too large for a message, sessions
that end with work outstanding, and every refusal.  `AdoInvokeInvariant` has the
invariant, the requests of clients and the callbacks, `AdoInvokeProofs` the
completions, the sessions and the theorems.

`LockBacked` counts owners and readers of one pair.  The invariant says the same of
sets (`Backed`), so that a step changes them by one request; lemmas on cardinality
give the numbers back.  It needs besides:

* `SlotInv`: a free slot has no deferred unlocks, a request that locks has a
  target, and the target of a writing request is not deferred a second time, so
  that a completion unlocks each pair once;
* `PresentInv`: only pairs in the map are locked, hence an erase of an unlocked pair
  takes no lock away;
* `SharedInv`: a large value that is being sent, or will be when its request
  completes, is counted as shared;
* `QueueInv`, `DoneInv`, `ApartInv`: requests in the ADO process and completions on
  their way back are outstanding, each once.  A slot is given out again only after
  its completion was taken, so no late completion meets the request after it;
* `AnswerInv`: the client of a synchronous request waits, and for that request
  alone.

`AdoTargetStable` follows: handlers of client requests touch only unlocked pairs
(`RequestsUntouched`), a callback the pairs its own request holds
(`CallbackKept`), a completion erases its target only when it alone holds it
(`CompletionKept`).

That nothing else is locked, and that no client waits in vain, is not true of the
code at large: `AdoExhausted.cfg` and section 3 show how a lock or an answer is lost.
`Undisturbed` excludes those ways by conditions on the constants: synchronous
requests that name their work, no large values, no signal but post-get, no failing
allocation, sessions that stay open, `MaxDeferred + 1` no less than the number of
keys, and a slot for each client.  `ado_sync` is an instance; the theorems also
cover plugins that keep locks (`Lifetimes` is not restricted), signalled gets and
any numbers of clients and keys.  `OwnedInv` is the other half of `LockInv`: a write
lock has its owner, a read count is the number of requests that read (`Exact`), and
each waiting client has a request.  Two bounds are shown never to be met: requests
map one to one to waiting clients, so a client that asks finds a slot
(`SlotLeft`), and a key that is locked anew is not among the deferred ones, so there
is room for it (`DeferralFits`).  A completion then releases exactly what the
request held (`ReleasedExact`).

### The hash table

For any keys, hashes, reach of an owner, base size, number of segments and number
of power failures, in calls, in the resize and in the recovery, with cache lines
written back at any time.  As in the run, everything holds up to the first resize
that begins with stale in-use flags (`stale`); `hop_stale` shows that it fails
behind one.  `TypeOK` is part of what is lost there (a resize may look for the
home of a key that was cleared), hence the condition in `HopTypes`; the run checks
it without.  `HopHashAssumption` asks what holds in the build: the
reach of an owner (`owner::size`, 63) fits the owner word (64 bits), whose width
divides the base table (128 buckets), and the table is at least twice the reach;
the `static_assert` of `hop_hash_base.h` asks only that it exceeds the reach.  `PowersAssumption` restricts no
constant: it states of `2^i` what the provers, which have no exponentiation, must
know.

`HopHashInvariant` has the invariant, one lemma per action, and that what a power
failure would leave (`Durable`) is the set of keys of the table (`Present`) at
every step (`DurablePresent`).  `ToldDurable` is not inductive; the invariant adds:

* `Well`, `Unique`, `Agree` (`TableInv`): an owner bit leads to a content in use
  whose key has that owner for its home; no key is led to twice; memory has the
  owner words of the cache and every content in use.  Only cleared flags may be
  ahead of memory, and that is why a content must be unowned before it is freed;
* `PhaseInv`: what the call in progress has found.  A bucket that is to be filled
  is free, the copy of a moved content is unowned until its owner bit is set, and
  the content being moved is nearer to the home than the free bucket: the free
  bucket itself is not eligible, since no owner leads to it;
* `ResizeInv`: from pass 1 on each content has a key of its own and is in its old
  place, its new place or both, and both copies of the table, cache and memory,
  are on the way from the old owner words to the new ones (`HalfWay`).  Every
  state a failure leaves there is again a state from which pass 2, begun anew,
  ends in the doubled table with the same keys (`FinalTable`);
* `ToldInv`, `SizeInv`: what was told against what is present, and the count, which
  is trusted only while it is not marked unstable.

The bucket arithmetic (offsets around the end of the table, the home of a key in a
doubled table) is in the first lemmas (`PlaceAt`, `DistanceTo`, `HomeDoubles`,
`FinalPlace`).

### Only model-checked

`Completes` and `Recovers` are liveness, which is out of the prover's reach.
`WriteLocksOwned`, `ReadLocksOwned` and `Answered` are proved where `Undisturbed`
holds; they are not true of every configuration.  `MovesApproach` and the types of
`HopHash` are proved up to `stale` only.  `CcAllocator` has no proofs: its
properties are about the bits of words, free runs and chains of areas, and a proof
for every width needs an induction over the bits of a word, which the provers
cannot do.

## 5. What is not modelled

Most of the tree under `src/` is not the program: bundled libraries (EASTL,
rapidjson, flatbuffers, libpmem and others), kernel modules, unit tests,
benchmarks, examples and language bindings.  The definitions of this project
stand for a small share of its lines, and no honest model would stand for much
more of it.  Of the program itself:

* statistics, logging, encoding of messages, configuration, process launch: no
  state of interest;
* fabric, TLS, zyre: libraries, taken as their users see them.  The connection
  handler and its buffer pools are a layer over the fabric component, whose
  completions and ordering are those of libfabric;
* UIPC channels: two rings with one writer and one reader each, and a free list
  that is the modelled MPMC queue; the SPSC ring itself and the sleeping
  variants of the queues are not modelled;
* memory growth of mapstore, its attributes and iterators; the secondary index and
  the find task, which are used by the shard's thread alone;
* ADO callbacks that change no lock (memory, pool information, iteration, find);
* hstore: the allocation states that arm the crash-consistent heap (`as_emplace`,
  `as_pin`, `as_extend`) and `mod_owner`, timestamps, DAX and pool management,
  memory of segments lost by a failure before a resize is recorded, and in the
  redo record power failures that tear the 24 bytes of a string header;
* ccpm: `add_regions`, `set_root`, a crash in the initialisation of a region, more
  than two levels of areas, the undo log of its containers.  The order within a
  chain is abstracted to any order;
* rcalb: volatile metadata, one thread.
