# TLA+ models of SaFFI

SaFFI lets Rust programs pass futures, vectors, boxes and strings across the C ABI, and
gives plugins a shared thread that calls their callbacks. These modules model the
parts of it that run concurrently: the waker cell and the future around it
(`ffi/src/futures`), the callback registry with the thread that reads it
(`libsavmasync`) and the code store of the loom tests; and the containers of `ffi/src`,
whose hard part is who owns an element. TLC checks them on small instances; TLAPS proves
every safety property and every refinement that a passing run checks for all instances.
Liveness is TLC's alone.

Paths below are relative to the repository.

## 1. Inventory

| component | state | operations | hard part |
|---|---|---|---|
| **Waker cell** `ffi/src/futures/atomiccw.rs` | one 64-bit word (LOCKED, NOTIFIED, NEW, count), one host waker | `inc`, `dec`, `wake`, `update`, `drop` | lock, flags and count in one word; wakes race updates and the last `dec` |
| **Future bridge** `ffi/src/futures/mod.rs`, `implements.rs` | `FutureState` (cell, `raw_waker`, `future`), `FFIFuture` (fingerprint of the last waker, `flags`) | `create_future`, `FFIFuture::new`, `poll`, `Drop`; `poll_future` for each `CBReason`; the RawWaker functions | lost wakes; wakers that move and addresses that recur; who drops the future, who the box |
| **Callback registry** `libsavmasync/src/space.rs` | pointer to an array of slots, an owner count for each array, queue of replaced arrays, two mutexes | `write`, `remove`, `gc_left`, `try_gc`, `get`, the guard, the parallel filter | arrays replaced and freed under a reader that takes no lock |
| **Slicer** `libsavmasync/src/lib.rs` | idle count, the thread | `init` (the loop), `register`, `unregister`, `signal_init` | collection while reading; parking; never starving a plugin |
| **Plugin glue** `savmasync/src/lib.rs` | none | `setup_fn`, `cleanup_fn` | what may happen after `cleanup_fn` |
| **Vector** `ffi/src/vector/mod.rs` | length, capacity, elements | push, extend, pop, the `_aided` variants | hints about length and capacity that may be stale; overflow |
| **RTBox, SharableStr** `ffi/src/boxed`, `ffi/src/string` | one allocation; a box also has the function that frees it | new, into_raw, from_raw, drop, unbox | who frees, and whose code drops the value |
| **SwappableCodeStore** `members/loomtests/src/arcstore/im.rs` | lock word with readers and flags, pointer, count | `get`, `set`, guard | readers against the writer; flags in the lock word |
| `salloc`, `libsalloc`, `FFISafe` | none | forwarding, marker | none |
| loom copy of the cell, benchmarks, tests | - | harnesses | none |

**How they interact.** The executor polls an `FFIFuture`; `poll` calls through `_cb` into
`poll_future` in the library that made the task, first with the executor's waker (if its
fingerprint changed: `update`), then with `PollCollect`. The task's future gets the one
`raw_waker`, whose clones (counted in the cell) go to event sources. A source's thread
calls `wake`, and the cell calls back through `WAKER_VTABLE` into the executor. Plugins
call `register` and `unregister` from `setup_fn` and `cleanup_fn`, on any thread; the slicer
reads the registry without a lock and runs the callbacks on a rayon pool.

**What makes them correct.**
*Cell*: the lock excludes; the box lives as long as a handle; a host waker is used only
between hand-over and free, and is freed once; a wake that was accepted reaches the host.
*Bridge*: the cell holds a clone of the waker last polled with; the future is dropped by the
thread that polls it; it completes when its events have happened; nothing leaks.
*Registry*: no array is used after it was freed, or lost; a removal reaches every array
in use; a pass calls only what was registered.
*Slicer*: registered callbacks are called again and again; idle, it collects and parks.
*Code store*: no code is freed under a reader or kept after its last guard; flags and code
belong together; `get` and `set` return.
*Containers*: the block holds the capacity its header records; an element has one owner at any
time; a boxed value is dropped by the library that made it; a vector is a list.

The full list of what is hard to test, line by line, is under `hazards` in `PROJECT.json`.

## 2. Modules

```
HostWakerContract        what the cell promises the host
   ^ refines                                    <- HostWakerContract_proofs
AtomicFFICWaker          the cell               <- AtomicFFICWaker_proofs
   ^ INSTANCE, refines
FFIFuture                host, task, executor, sources around the cell
                                                <- FFIFuture_proofs
CallbackRegistry         what the registry promises plugins
   ^ refines
Registrations            the registry           <- Registrations_proofs
   ^ INSTANCE
Slicer                   the slicer's loop around the registry
                                                <- Slicer_proofs
CodeStoreContract        get and set as atomic operations
   ^ refines
CodeStore                SwappableCodeStore     <- CodeStore_proofs

VectorBlock              sizes, growth and contents of a block, as functions
   ^ EXTENDS
Vector                   Vector<T>              <- Vector_proofs
FFIBoxes                 RTBox, SharableStr
   ^ INSTANCE (both)
Containers               a vector of boxes, in two libraries   <- Containers_proofs
   v refines
ElementList              a list whose elements have one owner
```

`MC*` modules give bounds and symmetry; operators under a comment that begins
with `Slip:` are plausible mistakes in the definition that follows them. No
specification uses them: each property is shown to fail when its slip replaces the definition.

### AtomicFFICWaker
`state` is the `AtomicU64` as a record, `data` the cell. A *handle* is one counted
reference: `Base` for the one of `new`, the others made by `clone_waker`. Each has a
program counter and the locals `current_state`/`prev` (`cur`), `new_data` (`arg`) and
`old_data` (`old`). One atomic access is one step:

| code | actions |
|---|---|
| `wake` | `WakeBegin` (load), `WakeRetry`, `WakeLock` / `WakeSkip` (the exchange, by LOCKED), `WakeCall`, `WakeUnlock` |
| `update` | `UpdateBegin`, `UpdateRetry`, `UpdateLock`, `UpdateSwap`, `UpdateUnlock` (`fetch_and`), `UpdateNotify`, `UpdateFree` |
| `clone_waker`, `drop_waker`, end of `wake_consume` | `Clone`, `Dec`, `DropData`, `FreeBox` |

A weak exchange that fails spuriously retries with the same word, which is a stutter.
Atomics are sequentially consistent: the memory orderings of the code are not modelled.
`owed` is a history variable: who has undertaken to call the host since its last call.
`HostWakerContract` sees the clones of host wakers and the calls of the host. A call takes time and
names a clone (`HostCall` is the one that each handle is in). A wake goes to the installed clone, which stays
installed, and the cell's, until the wake returns. A clone is freed once, by one caller, after it was replaced or with
the cell, while nobody else is in a call on it; and the cell goes only when no accepted wake is outstanding.
With `Updaters = Handle` the cell does not keep this contract: one update installs a clone while the other
one calls the clone it replaces.

### FFIFuture
`hpc` is the one thread that owns the `FFIFuture` (it is not `Send`): `New`, `PollBegin`,
`KeepWaker` or `SendWaker`..`WakerSent`, `Visit`*, then `Yield`, `Wait` or `Ready`, and
`Drop`, `DropRaw`, `DropFuture`, `DropBase`. All cell accesses are actions of
`AtomicFFICWaker`. Three things are outside the repository and do what Rust's contract
for futures asks: the *executor* (polls when woken, polls with other wakers over time:
`Move`, `Retire`), the *event sources* (`Fire`, `Cancel`; each has its own thread and
its event happens once), and the *future* (looks at every source whose event it has not
seen and leaves a clone there: `Visit`; may wake itself: `Yield`). An address may be used
again as soon as no waker with it exists; with `CloneSharesData` (true of `Arc`-based wakers)
a stored clone keeps the original's data, and so its address, alive.

### Registrations
Arrays are numbered in the order they are made, and are sequences of slots; one not made yet is empty. Writers are the threads of the
registrations, each in `write` or `remove`, with one step for every shared access that the
reader can tell apart (`WriteSlot`/`WriteActivate`, `WriteGrow`/`WriteDisown`/`WritePush`,
`RemoveCurrent`, `GcLeftOrphan`/`GcLeftFree`/`GcLeftRemove`, the locks). The reader is one
thread with a job for each slot: `ReadLoad` (load of the pointer), `ReadOwn` (increment),
`ReadFilter`, `ReadCallback`, `CallbackReturns`, `ReadEnd`, `TryGcLock` or `TryGcMiss` (it gives up, as
the queue is locked), `TryGcVisit`, `TryGcUnlock`, `ReadDrop`. `gc_left` and `try_gc` hold the lock of the queue
over their loops, and `scan` is what the one that holds it has yet to visit. A reader
whose array was freed takes no further step (`ReadFreed`), since what it reads is
undefined. `CallbackRegistry` is the view of a plugin: registering and removing are
atomic, and a pass calls only what was registered at some time since it began.

### Slicer
The loop of `init()` on the registry's actions: `PassStep`, `JobStep`, `CallbackReturns`
(with the callback's answer), then by `executed_work` and the idle count `Worked`, `Collect` (`CollectStep` is
the rest of `try_gc`), `Pause` or `Park`/`Unpark`, and `Loop`, where the guard is dropped. `GcEvery` is the
code's 10 and `PauseLimit` its 1010; spinning and yielding differ in nothing the model sees.

### CodeStore
`lock` is the word as a record: the lock bit, the flags, the readers. `get` is `GetBegin`,
`GetEnter` (`fetch_add`), then `GetLoad`, `GetCount` (`CodeGuard::new`), `GetLeave`, or
`GetBack`, `GetSpin` when the word was locked. `set` is `SetBegin`, `SetRetry` or `SetGiveUp`,
`SetLock`, `SetSwap`, `SetDec`, `SetUnlock`. Codes are numbered as they are made, so
that an address never recurs. `tries` is a bound or `Unlimited`. There is one writer: the code
says that several are undefined behaviour (`im.rs:65`). In the refinement a `set` takes effect
when it releases the lock, and a `get` when it returns. `Flag` has both flags.

### Vector, FFIBoxes, Containers
`vec` is the block: `len` and `cap` of the header, its size in `bytes`, its `slots`. `Allocated` is
`allocate`, wrapping sizes included: a realloc keeps what the new block has room for and loses
the rest, as a block may get smaller. An allocation beyond `Memory` fails; a smaller one
may fail too. `push`, `extend_array` and `extend_from_slice` run
without interruption and are one step (`PushSeq`), or the panic of a failed allocation
(`PushSeqFails`). `extend` calls the iterator, so it is a step for each item: `ExtendBegin`,
`ExtendNext`, and `ExtendEnd` or `ExtendPanics`, with the caller's `known_cap` as `known`.
The other hints have no effect when they are right, and undefined ones when they are wrong.
`claim` is the iterator's lower bound, which may be anything. After a capacity whose size is no
usize (`~Sound`) nothing is defined and the vector takes no further step.

`FFIBoxes` counts, for each box and string, the blocks allocated for it less the times one was freed
(`live`), the variables that own it (`hand`), the raw pointers under way (`raw`), and says whose
code dropped the value (`dropper`). `mfree` is the function that the block of a box begins with: `New` stores the one
of the library that makes the box, whichever library drops the box calls the one it finds there, and
with the block it is lost. `Containers` joins the two: a call moves its arguments into the
vector or the iterator (`MoveIn`), a panic drops what was not moved, `Drop` drops
what the vector holds. With `plain` the elements are Copy and own nothing.

## 3. Runs

| run | bounds | distinct states | shows |
|---|---|---|---|
| `waker` | 3 handles, 2 host wakers | 52,336 | the safety of the cell, and its contract |
| `future` | 2 sources, 3 wakers, 2 addresses, 3 clones, 1 self-wake | 577,623 | the bridge uses the cell as specified; the fingerprint is right when clones share data; who drops the future |
| `future_live` | 1 source, 2 wakers, 3 clones | 54,372 | `Completes`, `Released` |
| `registry` | 3 registrations, arrays of 1, 2, 4 slots, 4 calls of `register` | 845,009 | removal, registration, counts, leaks, contract |
| `slicer` | 3 registrations, arrays of 2 and 4 slots, no removal | 60,311 | no use after free without removals; callbacks are called for ever; collection; parking |
| `slicer_remove` | 2 registrations, arrays of 1 and 2 slots, 3 calls of `register` | 119,454 | `unregister` returns; collection, although `try_gc` gives up on a locked queue |
| `codestore` | 2 readers of 2 calls each, 2 sets, bounds of 1 and 2 or none on their tries | 161,816 | nothing freed in use, counts, atomicity of `get` and `set`, both return |
| `containers` | 3 boxes, 1 string, 2 libraries; bytes as words, elements of 8 bytes, at most 5, 2 in a call | 211,067 | one owner for everything, capacity, growth, the vector is a list |
| `lost_wake` | 2 sources, 1 waker | - | **violated**: `Completes` |
| `gc_race` | 2 registrations, arrays of 1, 2 slots | - | **violated**: `NoUseAfterFree` |
| `unregister` | 2 registrations, one array | - | **violated**: `QuietOnceUnregistered` |
| `store_set` | 1 reader, 2 sets | - | **violated**: `WaitsForReadersOnly` |

*Why the bounds suffice.* The cell's races are between one update and the wakes and drops
of other handles: three handles give an update, a wake that holds the lock and one that is
absorbed at once; two clones give a replaced waker and its replacement, three in the
bridge give another replacement while the first is still being freed. Two addresses for
three wakers force a reuse. In the registry the first array is of length 1 or 2 instead of
16, so that it fills up and is replaced, twice, with readers on each; four calls of
`register` for three registrations let a removed one come back. `GcEvery = 2` and
`PauseLimit = 4` (2 in `slicer_remove`) keep every branch of the idle loop. `slicer_remove` replaces the array, so that
the queue is not empty when `gc_left` and `try_gc` contend for it: `unregister` waits while `try_gc` visits an
array, and `try_gc` gives up with an orphan waiting. In the store two readers give one that
holds a guard of an old code and one that meets the lock; two sets give a replaced code with
guards on each side, and a set after one with flags; `MaxGets` bounds the gets, without which
readers could keep a set waiting for ever, as the code lets them. In the containers a word of 8 bits
with elements of 8 bytes has the same order of limits as the real one: a claim of 5 is
granted and makes later pushes with a stale hint shrink the block, one of 32 makes `calc` wrap, one of
255 makes the sum of lengths wrap, and capacities double beyond `Memory`. Three boxes are one more than
the first capacity, so that vectors of boxes grow or fail to; one has another maker than the rest. Plain
values, which may be repeated, give vectors of 5.

*Deadlock* is checked in every run: the cell and the bridge end in `Terminated`, when the
box is dropped; the registry never ends. The store ends when every call was made and has
returned, and the containers when the vector is dropped or `~Sound`.

*Symmetry* (executor wakers, addresses and clones in `future`, registrations in `registry`, boxes of
one maker in `containers`) is used only in runs without liveness; no constant tells the permuted
values apart.

*Fairness.* `FFIFuture!FairSpec`: weak fairness of the host's thread (an executor polls
a task it was woken for, and finishes a poll or a drop it has begun), of each handle's steps in
`wake`, `update` and `dec` (operating-system scheduling), and of each event (a source that
never fires makes any future wait). Nothing forces a drop. `Slicer!Spec`: weak
fairness of the slicer thread, whose callbacks return, and strong fairness of each plugin's thread inside
`write` and `remove`. Weak fairness is not enough for these: the slicer takes the lock of the queue again and
again, and a writer that waits for it would be entitled to nothing (TLC finds it waiting for ever). The
mutexes are those of `parking_lot`, whose fairness is eventual: every so often an unlock hands the mutex over to the
thread that has waited. Nothing forces a plugin to register or to unregister. `GarbageCollected` says
nothing of runs in which a removal has freed the array that the slicer looks at (`gc_race`).
`CodeStore!Spec`: weak fairness of each thread inside `get` and of the writer inside `set`; nobody has
to call them, or to drop a guard. A weak exchange that fails spuriously with the same word is a stutter,
so it does not fail for ever.

### What the violated runs say

* **`lost_wake`** (`atomiccw.rs:93-99, 124-127`). `wake` leaves NOTIFIED to whoever holds LOCKED.
  `update` looks at it; a `wake` does not, and it may have called the executor
  before. With two sources: source 1 calls the executor under the lock, the poll sees event 1
  only and returns Pending, event 2's wake is absorbed, source 1 unlocks and
  clears NOTIFIED. One source that fires once cannot do it, hence `future_live`.
  `DelegatedWakeKept` states what does hold: a wake that locked, or that an
  update absorbed, is delivered.
* **`gc_race`** (`space.rs:206-226` against `165-187`). The owner count is incremented after the
  pointer was loaded, and `unregister` frees an array without owners. Without removals
  the slicer is the only one to free arrays, and the race is gone (`slicer`).
* **`unregister`** (`space.rs:143-163`). `remove` does not wait for a pass under way, so a callback
  can be called, or still run, after `cleanup_fn` has returned.
* **`store_set`** (`im.rs:79-85`). The test for readers masks the lock bit only. Flags that a `set` has stored
  count as readers, and nothing clears them: the next `set` spins until its tries are used up,
  or for ever. The contract has it that a code set with flags is final.

`FingerprintSound` depends on `CloneSharesData`. `poll` compares addresses of wakers, not
the stored clone as `will_wake` does (`mod.rs:190-194`); with wakers whose clones have another data pointer
an address may be used again and the check is wrong. No run shows this, as the wakers of usual
executors are not of that kind.

## 4. Proofs

Each theorem below holds for every value of the constants that satisfies the module's assumptions: any
finite number of threads, wakers, arrays, codes, boxes. Where a property is not inductive the proof goes
by an invariant that is, which TLC checked on the run's instance first. A composition
has the theorems of its parts: the module of its proofs makes an INSTANCE of the part's proofs
(`CP`, `SP`, `VP`), shows that each step of the composition is one of the part or leaves it alone,
and cites what is proved there.

| module | theorems | assumed besides the module's assumptions |
|---|---|---|
| `AtomicFFICWaker_proofs` | `TypeCorrect`, `BoxOutlives`, `LockIsExclusive`, `WakesAreNotDropped` | - |
| | `HostWakersStayLive` | `SingleUpdater` |
| `HostWakerContract_proofs` | `ClonesDoNotLeak`, `CellKeepsContract` | `SingleUpdater` |
| `FFIFuture_proofs` | `FutureDrivesCell`, `FutureKeepsCell`, `TypeCorrect`, `HostDropsFuture` | - |
| | `FingerprintIsSound` | `CloneSharesData` |
| `Registrations_proofs` | `TypeCorrect`, `OwnersAreCounted`, `ArraysAreKept`, `RegistersOnce`, `RemovesEverywhere`, `RegistryIsAtomic` | - |
| | `ReaderIsSafeWithoutRemoval` | `Removing = {}` |
| `Slicer_proofs` | `UsesRegistry`, `RegistryHolds`, `TypeCorrect` | - |
| | `SlicerIsSafeWithoutRemoval` | `Removing = {}` |
| `CodeStore_proofs` | `TypeCorrect`, `GuardsAreCounted`, `ReadersAreSafe`, `StoreIsAtomic` | - |
| `Vector_proofs` | `BlockIsLargeEnough`, `ElementsAreWritten`, `VectorTypeCorrect`, `ExtendGrowsOnce` | - |
| `Containers_proofs` | `UsesVector`, `BoxesFitTheBlock`, `VectorGrowsOnce`, `ContainersTypeCorrect`, `MakerDropsBox`, `BlocksAreOwnedOnce`, `VectorIsList` | - |

### The waker cell
From `HandleAssumption` (the handles are finitely many, `Base` is one, `NoWaker` is not a clone).

* **`TypeCorrect`**, **`BoxOutlives`**. Types alone are not inductive: the count stays natural
  only because a handle that calls `dec` is counted. `RefInv` is `TypeOK`, that `state.refs` is the
  number of handles that exist and have not brought it to zero, that the handle
  that did so is the only one left, and that no handle points to a dropped box. Each action
  leaves the counted handles alone (`CountedMoves`), adds the one it counts (`CloneCounts`) or
  removes the one it discounts (`DecCounts`, `DropCounts`); the cardinalities follow
  from `FiniteSetTheorems`.
* **`LockIsExclusive`**. Inductive by itself, given
  that the word has its type: only `WakeLock` and `UpdateLock` set the bit, from clear.
* **`WakesAreNotDropped`** (`DelegatedWakeKept`). Inductive given `LockExclusion`: whoever undertook a delivery
  is the one that holds the lock, or the update that has released it and has yet to look at
  NOTIFIED as it was. It says nothing of wakes that find another wake holding the lock, which are
  the ones `lost_wake` loses.
* **`HostWakersStayLive`**. `WakerInv`
  adds where each clone is: the argument of an update is held and not installed
  yet, the old waker is held and not installed any more, the stored one is held unless
  the word is new, and what wake or update saw of NEW is still true when it is used.
  `SingleUpdater` is needed: with two updaters `UpdateNotify` may call a waker
  that the other one has freed. `FFIFuture::poll` is the only caller of `update`
  and `FFIFuture` is not `Sync`; `FutureKeepsCell` discharges the assumption for the bridge.
* **`ClonesDoNotLeak`**. `HeldMeansOwned` is `NoWakerLeak` said of each clone: it is held exactly while it is the
  stored one of an open cell, on its way in, or on its way out.
* **`CellKeepsContract`**. Step simulation of `HostWakerContract` from `HostInv` (`RefInv`, `LockExclusion`,
  `WakerInv`) and `OwedInv` (NOTIFIED, while an update holds the lock, is a wake that the contract knows
  to be owed). The exchange of a wake is `Accept` or `Delegate`, the call that an update makes for others `Deliver`, the
  return of a call `Woken` or `Freed`, the swap `Install`, the end of `update` `Retire`, and the `dec` that gets to zero
  `Close`. `Install`, `Retire` and `Close` ask that no call of another handle is under way on the clone
  they concern: that is lock exclusion, with the one updater, and with the count.

### The bridge
From `FutureAssumption` (finitely many sources, apart from the two other handles; `NoWaker` and `NoAddr` are
no waker and no address).

* **`FutureDrivesCell`**, **`FutureKeepsCell`**. The bridge is a use of the cell, whose theorems it
  therefore has, with `Base` as the one updater.
* **`HostDropsFuture`** (`FutureDroppedByHost`). `BaseInv` says where the host's reference is: until the host is
  done it exists, and is idle except in `update`. A thread that is about to drop the Box is by `RefInv` the only
  handle there is, so it is the host's own or the host is done, after `DropFuture`.
* **`FingerprintIsSound`**. `FpInv`: the address in the fingerprint is that of the waker whose clone is stored or,
  in `update`, on its way in; and present wakers have different addresses. The second part is where
  `CloneSharesData` comes in: as the stored clone is held, its waker is present even after the executor has
  dropped it, so that no new waker is made at its address and an equal address means the same waker.

### The registry and the slicer
From `RegistrationsAssumption` and `SlicerAssumption`.

* **`OwnersAreCounted`**, **`ArraysAreKept`**, **`TypeCorrect`**. `ArrayInv`: one writer at a time between the lock and the
  unlock, only the holder of the queue's lock, `gc_left` or `try_gc`, looks at what is queued (`Scanning`; what a
  collection by the reader may change is `GcMoves`), the slot that a write will activate holds its callback, what a
  collection scans or is about to free has been replaced, jobs are those of the reader's array, and the counts themselves.
* **`ReaderIsSafeWithoutRemoval`**. `QuietInv` adds that nobody is in `unregister`, so that only the reader frees arrays.
  `Removing = {}` is not a formality: `gc_race` shows the violation with one removal.
* **`RegistersOnce`**, **`RemovesEverywhere`**. `SlotInv`: every array made has a slot (`Long`), an active slot is the first
  with its callback, so that it is the one that `remove` finds, although inactive slots keep theirs (`Ordered`), a
  registration in force is in the current array (`Present`), and one that is being removed is only in arrays
  that `remove` and the scan of `gc_left` have yet to get to (`Absent`).
* **`RegistryIsAtomic`**. `PassInv` adds that every active slot of the reader's array, and every job that has passed the
  filter, is of a registration that was registered since the pass began (`Callable`).
* **`UsesRegistry`** and what follows from it. `SpinInv` for the idle count: `Collect` raises it without a
  look at the limit, but only from multiples of `GcEvery`, and the next number is not one.

### The code store
From `CodeStoreAssumption` and `NoGuardAssumption` (`NoGuard` is no guard).
`StoreInv` relates the parts: the readers in the word are those between `GetEnter` and `GetLeave` or `GetBack`; while it is
locked there is none between the load and the leave, and no flag; a reader that has entered has the stored code;
the count of each code is its guards and one for the store; and a code is freed when its count is zero.
All four theorems follow from it. **`StoreIsAtomic`** is a step simulation: the step in which a `get` leaves the word is
the contract's `Get`, the release of the lock its `Set`, and the drop of a guard its `Release`.

### The containers
`Vector_proofs` is from `BlockAssumption` (sizes are natural numbers, an element is smaller than
the header and not empty, the first block has a size that is a usize); `Containers_proofs` also from
`ContainersAssumption` (finitely many boxes, which are not strings, each with a maker; a call may have an element).

* **`BlockIsLargeEnough`**. `BlockInv` adds to `BlockHoldsCapacity` the types of the block,
  that the items left fit into `MaxLen`, and that a hint `known` is never *above* the capacity: `extend`
  goes on with the hint of its call while the capacity changes under it, and only since every
  reallocation by a stale hint still asks for the length it needs (`NewCapEnough`) do the elements stay
  inside. `CalcExact` and `RoomOfSize` say that a size that does not wrap is exact and has room for
  exactly its count; `ReserveAndWrite` combines them for one reservation, and each action has a lemma.
* **`ElementsAreWritten`**: a realloc moves all that is below the length. **`ExtendGrowsOnce`**: `GrowInv`, that an extend
  without a hint has room for what was promised, and has reallocated once at most until more than that has come.
* **`BlocksAreOwnedOnce`**. `OwnInv`: no box is twice in the vector and the iterator (`Distinct`) or there and in a
  variable (`Apart`), and those owned are those alive (`Alive`). `LifeInv`: only an owned vector is in a call of `extend`.
* **`MakerDropsBox`** (`DroppedByMaker`). `MadeInv`: a box that something owns has its block, and in it the function of the
  library that made it. That nothing drops a box it does not own, when another function or none may be
  found there, is `OwnInv`.
* **`VectorIsList`**. Step simulation of `ElementList` from all of these: `Listed` is the sequence of the
  slots below the length, and each operation of the block is the one of lists.

### Only model-checked
Liveness under fairness: `Completes`, `Released`, `KeepsCalling`, `GarbageCollected`, `IdleParks`, `UnregisterReturns`,
`GetReturns` and `SetReturns`. The provers do not reason about ENABLED, on which fairness rests. The properties of
the runs that expect a violation are not theorems. Nothing is proved about memory orderings, which are
not modelled.

## 5. Not modelled

* Memory orderings: interleavings of sequentially consistent accesses only. The loads and
  stores that are `Relaxed` in `write` are followed by a `Release` of `active`.
* Width of the count: 2^61 clones are out of reach.
* An executor that polls from inside `wake` (it would wait for a lock its own thread holds),
  an unbounded storm of wakes against one `update`, a poll after `Ready`, a `FutureTask`
  dropped unwrapped, panics across the ABI: listed as hazards.
* `flag` of `Result` is never set by `poll_future`, so the panic in `poll` is unreachable.
* `set_vtable` (once, before sharing), `wake_and_free` and `waker_clone` (no caller).
* The same (id, callback) registered twice at a time.
* Elements of size zero (`calc` and the header are different for them), destructors of elements that
  panic, and debug builds, which panic where sizes wrap.
* What happens to a vector whose capacity has no size, and to a `SharableStr` whose allocation has
  failed (`str.rs:27-37` writes to null): nothing is defined.
* `SharableStr::into_raw` borrows the string (`str.rs:51`): the callers modelled forget it. The
  bytes of a string and their UTF-8, the length in front of them.
* Wrong `known_len` and `known_cap`, which the code calls the caller's risk; `extend_from_slice_aided`
  takes the two in the other order than its siblings.
* Several writers of a code store, which it rules out; its last code, which it never frees (it has no `Drop`);
  a storm of readers without end against `set`; the width of its counts.
* The loom copy of the cell, whose steps are those of the shipped one (it checks besides that it is
  dropped once, which `BoxOutlivesHandles` covers), and the stateless crates.

## 6. Plan

Done: 1. cell, 2. bridge, 3. registry, 4. slicer, 5. proofs about the cell, 6. vector and the
proof about its block, 7. code store, 8. boxes and strings, composed with the vector, and the proofs of every safety
property and refinement above.

9. A pair registered more than once in `Registrations`.
10. Lemmas for the progress arguments, which TLC alone checks as a whole: what holds of the lock and of the counts
    while a thread waits, and variants that each step of the slicer, of a removal or of a `set` brings down.
11. What does hold of `QuietOnceUnregistered` and of `NoUseAfterFree` with removals: which step of which thread may
    break them, as invariants with that step excepted.
