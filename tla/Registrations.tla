----------------------------- MODULE Registrations -----------------------------
(***************************************************************************)
(* The callback registry of libsavmasync/src/space.rs: an array of slots   *)
(* behind an atomic pointer, replaced by one of twice the length when it   *)
(* is full, and freed by a garbage collection once no reader owns it.      *)
(*                                                                         *)
(* Writers are the threads that call register and unregister, one for each *)
(* registration; they exclude each other with `writerlock`.  The only      *)
(* reader is the slicer thread, whose jobs look at the slots in any order, *)
(* as rayon runs them in parallel.  Atomics are sequentially consistent.   *)
(* A reader that has lost its array to dealloc takes no further step: what *)
(* it reads then is undefined.                                             *)
(***************************************************************************)
EXTENDS Naturals, FiniteSets, Sequences

CONSTANTS
  Reg,       \* registrations (id, f), each with a thread that registers it
  Nobody,    \* the null callback of a slot that was never used
  Removing,  \* the registrations that are unregistered again
  FirstLen,  \* the length of the first array: 16
  MaxVec,    \* bound: arrays made in a run
  MaxRounds  \* bound: how often register is called

ASSUME RegistrationsAssumption ==
  /\ IsFiniteSet(Reg)
  /\ Nobody \notin Reg
  /\ {"todo", "passed", "done"} \cap Reg = {}
  /\ Removing \subseteq Reg
  /\ FirstLen \in Nat \ {0}
  /\ MaxVec \in Nat \ {0}
  /\ MaxRounds \in Nat

VARIABLES
  vector,    \* the current array; arrays are numbered as they are made
  slots,     \* the slots of every array, none of those not made yet
  owners,    \* VectorDescriptor::owners
  freed,     \* arrays given to dealloc
  gc,        \* the queue of arrays that were replaced
  wpc,       \* the next step of each writer
  scan,      \* arrays that whoever holds the lock of `gc` has still to look at
  doomed,    \* gc_left: the array it found without an owner
  rounds,    \* how often register was called
  rpc,       \* the next step of the reader
  rvec,      \* the array the reader has loaded
  job,       \* the job of each slot while a pass runs: "todo", "passed", "done" or the callback
  callable   \* history: what has been registered since the reader loaded the pointer

writers == <<wpc, scan, doomed, rounds>>
reader == <<rpc, rvec, job>>
vars == <<vector, slots, owners, freed, gc, writers, reader, callable>>

Vec == 1..MaxVec
Slot == [active : BOOLEAN, fn : Reg \cup {Nobody}]
EmptySlot == [active |-> FALSE, fn |-> Nobody]
Slots(v) == DOMAIN slots[v]

\* write() and remove() between taking `writerlock` and releasing it.
Writing == {"w_slot", "w_active", "w_disown", "w_push", "w_unlock",
            "r_current", "r_gc", "r_scan", "r_unlock"}

TypeOK ==
  /\ vector \in Vec
  /\ slots \in [Vec -> Seq(Slot)]
  /\ owners \in [Vec -> 0..2]
  /\ freed \subseteq Vec /\ gc \subseteq Vec /\ scan \subseteq Vec /\ doomed \subseteq Vec
  /\ wpc \in [Reg -> {"out", "w_lock", "in", "r_lock"} \cup Writing]
  /\ rounds \in 0..MaxRounds
  /\ rpc \in {"idle", "loaded", "pass", "after", "gc"}
  /\ rvec \in Vec
  /\ job \in Seq({"todo", "passed", "done"} \cup Reg)
  /\ callable \subseteq Reg

\* new_init
Init ==
  /\ vector = 1
  /\ slots = [v \in Vec |-> IF v = 1 THEN [i \in 1..FirstLen |-> EmptySlot] ELSE <<>>]
  /\ owners = [v \in Vec |-> IF v = 1 THEN 1 ELSE 0]
  /\ freed = {} /\ gc = {}
  /\ wpc = [r \in Reg |-> "out"]
  /\ scan = {} /\ doomed = {}
  /\ rounds = 0
  /\ rpc = "idle" /\ rvec = 1 /\ job = <<>>
  /\ callable = {}

--------------------------------------------------------------------------------

First(S) == CHOOSE i \in S : \A j \in S : i <= j

FreeSlots == {i \in Slots(vector) : ~slots[vector][i].active}

\* The registrations in force: those in active slots of the current array, and the one
\* that a write has stored in a slot it is about to activate.
Registered ==
  {slots[vector][i].fn : i \in Slots(vector) \ FreeSlots} \cup {r \in Reg : wpc[r] = "w_active"}

\* Nobody is in a critical section of `writerlock`; nobody holds the lock of `gc`.
WriterUnlocked == \A r \in Reg : wpc[r] \notin Writing
GcUnlocked == rpc # "gc" /\ \A r \in Reg : wpc[r] # "r_scan"

Goto(r, loc) == wpc' = [wpc EXCEPT ![r] = loc]

\* A registration made now is one that the pass under way, if any, may call.
NoteRegistered(r) == callable' = IF rpc = "idle" THEN callable ELSE callable \cup {r}

--------------------------------------------------------------------------------
(* write() *)

\* register(id, f) is called.
Register(r) ==
  /\ wpc[r] = "out" /\ rounds < MaxRounds
  /\ rounds' = rounds + 1
  /\ Goto(r, "w_lock")
  /\ UNCHANGED <<vector, slots, owners, freed, gc, scan, doomed, reader, callable>>

WriteLock(r) ==
  /\ wpc[r] = "w_lock"
  /\ WriterUnlocked
  /\ Goto(r, "w_slot")
  /\ UNCHANGED <<vector, slots, owners, freed, gc, scan, doomed, rounds, reader, callable>>

\* The first slot that is not active gets the id and the callback.
WriteSlot(r) ==
  /\ wpc[r] = "w_slot"
  /\ FreeSlots # {}
  /\ slots' = [slots EXCEPT ![vector][First(FreeSlots)].fn = r]
  /\ NoteRegistered(r)
  /\ Goto(r, "w_active")
  /\ UNCHANGED <<vector, owners, freed, gc, scan, doomed, rounds, reader>>

WriteActivate(r) ==
  /\ wpc[r] = "w_active"
  /\ slots' = [slots EXCEPT ![vector][First(FreeSlots)].active = TRUE]
  /\ Goto(r, "w_unlock")
  /\ UNCHANGED <<vector, owners, freed, gc, scan, doomed, rounds, reader, callable>>

\* Slip: vectwrite gets the current slots only.
CopyOnly(r) ==
  [i \in 1..(2 * Len(slots[vector])) |-> IF i \in Slots(vector) THEN slots[vector][i] ELSE EmptySlot]

\* The contents of an array of twice the length: the current slots, the new registration,
\* and slots that are not active.
CopyWith(r) ==
  [i \in 1..(2 * Len(slots[vector])) |->
     IF i \in Slots(vector) THEN slots[vector][i]
     ELSE IF i = Len(slots[vector]) + 1 THEN [active |-> TRUE, fn |-> r] ELSE EmptySlot]

\* All slots are active: an array of twice the length gets them and the new one, and
\* takes the place of the current array.
WriteGrow(r) ==
  /\ wpc[r] = "w_slot"
  /\ FreeSlots = {} /\ vector < MaxVec
  /\ slots' = [slots EXCEPT ![vector + 1] = CopyWith(r)]
  /\ owners' = [owners EXCEPT ![vector + 1] = 1]
  /\ vector' = vector + 1
  /\ NoteRegistered(r)
  /\ Goto(r, "w_disown")
  /\ UNCHANGED <<freed, gc, scan, doomed, rounds, reader>>

\* Slip: the replaced array keeps the owner that the pointer to it was.
WriteDisownNot(r) ==
  /\ wpc[r] = "w_disown"
  /\ Goto(r, "w_push")
  /\ UNCHANGED <<vector, slots, owners, freed, gc, scan, doomed, rounds, reader, callable>>

\* drop(VectorGuard(old))
WriteDisown(r) ==
  /\ wpc[r] = "w_disown"
  /\ owners' = [owners EXCEPT ![vector - 1] = @ - 1]
  /\ Goto(r, "w_push")
  /\ UNCHANGED <<vector, slots, freed, gc, scan, doomed, rounds, reader, callable>>

\* Slip: the replaced array is forgotten.
WritePushNot(r) ==
  /\ wpc[r] = "w_push"
  /\ GcUnlocked
  /\ Goto(r, "w_unlock")
  /\ UNCHANGED <<vector, slots, owners, freed, gc, scan, doomed, rounds, reader, callable>>

\* gc.lock().push(old)
WritePush(r) ==
  /\ wpc[r] = "w_push"
  /\ GcUnlocked
  /\ gc' = gc \cup {vector - 1}
  /\ Goto(r, "w_unlock")
  /\ UNCHANGED <<vector, slots, owners, freed, scan, doomed, rounds, reader, callable>>

WriteUnlock(r) ==
  /\ wpc[r] = "w_unlock"
  /\ Goto(r, "in")
  /\ UNCHANGED <<vector, slots, owners, freed, gc, scan, doomed, rounds, reader, callable>>

--------------------------------------------------------------------------------
(* remove() *)

\* unregister(id, f) is called.
Unregister(r) ==
  /\ wpc[r] = "in" /\ r \in Removing
  /\ Goto(r, "r_lock")
  /\ UNCHANGED <<vector, slots, owners, freed, gc, scan, doomed, rounds, reader, callable>>

RemoveLock(r) ==
  /\ wpc[r] = "r_lock"
  /\ WriterUnlocked
  /\ Goto(r, "r_current")
  /\ UNCHANGED <<vector, slots, owners, freed, gc, scan, doomed, rounds, reader, callable>>

\* The array v after the closure `remove`: the first slot with the id and the callback,
\* active or not, is made inactive.
Without(v, r) ==
  LET match == {i \in Slots(v) : slots[v][i].fn = r}
  IN  IF match = {} THEN slots[v] ELSE [slots[v] EXCEPT ![First(match)].active = FALSE]

RemoveCurrent(r) ==
  /\ wpc[r] = "r_current"
  /\ slots' = [slots EXCEPT ![vector] = Without(vector, r)]
  /\ Goto(r, "r_gc")
  /\ UNCHANGED <<vector, owners, freed, gc, scan, doomed, rounds, reader, callable>>

\* gc_left locks the queue; its loop visits every array that is in it now.
GcLeftLock(r) ==
  /\ wpc[r] = "r_gc"
  /\ GcUnlocked
  /\ scan' = gc
  /\ Goto(r, "r_scan")
  /\ UNCHANGED <<vector, slots, owners, freed, gc, doomed, rounds, reader, callable>>

\* owners == 0: the array leaves the queue to be freed.
GcLeftOrphan(r, v) ==
  /\ wpc[r] = "r_scan" /\ doomed = {}
  /\ v \in scan /\ owners[v] = 0
  /\ doomed' = {v}
  /\ scan' = scan \ {v}
  /\ gc' = gc \ {v}
  /\ UNCHANGED <<vector, slots, owners, freed, wpc, rounds, reader, callable>>

\* Slip: the array leaves the queue only.
GcLeftForget(r) ==
  /\ wpc[r] = "r_scan" /\ doomed # {}
  /\ doomed' = {}
  /\ UNCHANGED <<vector, slots, owners, freed, gc, wpc, scan, rounds, reader, callable>>

GcLeftFree(r) ==
  /\ wpc[r] = "r_scan" /\ doomed # {}
  /\ freed' = freed \cup doomed
  /\ doomed' = {}
  /\ UNCHANGED <<vector, slots, owners, gc, wpc, scan, rounds, reader, callable>>

\* Slip: an array that is still read keeps the registration.
GcLeftSkip(r, v) ==
  /\ wpc[r] = "r_scan" /\ doomed = {}
  /\ v \in scan /\ owners[v] # 0
  /\ scan' = scan \ {v}
  /\ UNCHANGED <<vector, slots, owners, freed, gc, wpc, doomed, rounds, reader, callable>>

\* owners != 0: the registration is taken out of the array.
GcLeftRemove(r, v) ==
  /\ wpc[r] = "r_scan" /\ doomed = {}
  /\ v \in scan /\ owners[v] # 0
  /\ slots' = [slots EXCEPT ![v] = Without(v, r)]
  /\ scan' = scan \ {v}
  /\ UNCHANGED <<vector, owners, freed, gc, wpc, doomed, rounds, reader, callable>>

GcLeftUnlock(r) ==
  /\ wpc[r] = "r_scan" /\ doomed = {} /\ scan = {}
  /\ Goto(r, "r_unlock")
  /\ UNCHANGED <<vector, slots, owners, freed, gc, scan, doomed, rounds, reader, callable>>

RemoveUnlock(r) ==
  /\ wpc[r] = "r_unlock"
  /\ Goto(r, "out")
  /\ UNCHANGED <<vector, slots, owners, freed, gc, scan, doomed, rounds, reader, callable>>

--------------------------------------------------------------------------------
(* The reader: get(), the iteration over the array, the drop of the guard *)

\* descriptor()
ReadLoad ==
  /\ rpc = "idle"
  /\ rvec' = vector
  /\ rpc' = "loaded"
  /\ callable' = Registered
  /\ UNCHANGED <<vector, slots, owners, freed, gc, writers, job>>

\* Slip: the guard is made without being counted.
ReadOwnUncounted ==
  /\ rpc = "loaded" /\ rvec \notin freed
  /\ job' = [i \in Slots(rvec) |-> "todo"]
  /\ rpc' = "pass"
  /\ UNCHANGED <<vector, slots, owners, freed, gc, writers, rvec, callable>>

\* VectorGuard::new
ReadOwn ==
  /\ rpc = "loaded" /\ rvec \notin freed
  /\ owners' = [owners EXCEPT ![rvec] = @ + 1]
  /\ job' = [i \in Slots(rvec) |-> "todo"]
  /\ rpc' = "pass"
  /\ UNCHANGED <<vector, slots, freed, gc, writers, rvec, callable>>

\* Slip: no slot is filtered out.
ReadNoFilter(i) ==
  /\ rpc = "pass" /\ rvec \notin freed
  /\ job[i] = "todo"
  /\ job' = [job EXCEPT ![i] = "passed"]
  /\ UNCHANGED <<vector, slots, owners, freed, gc, writers, rpc, rvec, callable>>

\* The filter `process` of the parallel iterator.
ReadFilter(i) ==
  /\ rpc = "pass" /\ rvec \notin freed
  /\ job[i] = "todo"
  /\ job' = [job EXCEPT ![i] = IF slots[rvec][i].active THEN "passed" ELSE "done"]
  /\ UNCHANGED <<vector, slots, owners, freed, gc, writers, rpc, rvec, callable>>

\* fnptr is loaded, and called unless it is null.
ReadCallback(i) ==
  /\ rpc = "pass" /\ rvec \notin freed
  /\ job[i] = "passed"
  /\ job' = [job EXCEPT ![i] = IF slots[rvec][i].fn = Nobody THEN "done" ELSE slots[rvec][i].fn]
  /\ UNCHANGED <<vector, slots, owners, freed, gc, writers, rpc, rvec, callable>>

\* The callback returns.
CallbackReturns(i) ==
  /\ rpc = "pass"
  /\ job[i] \in Reg
  /\ job' = [job EXCEPT ![i] = "done"]
  /\ UNCHANGED <<vector, slots, owners, freed, gc, writers, rpc, rvec, callable>>

\* pool.install returns when every job is over.
ReadEnd ==
  /\ rpc = "pass" /\ \A i \in DOMAIN job : job[i] = "done"
  /\ job' = <<>>
  /\ rpc' = "after"
  /\ UNCHANGED <<vector, slots, owners, freed, gc, writers, rvec, callable>>

\* The reader calls try_gc while it still owns its array.
TryGcLock ==
  /\ rpc = "after"
  /\ GcUnlocked
  /\ scan' = gc
  /\ rpc' = "gc"
  /\ UNCHANGED <<vector, slots, owners, freed, gc, wpc, doomed, rounds, rvec, job, callable>>

\* The queue is locked: a writer collects garbage or pushes.
TryGcMiss == rpc = "after" /\ ~GcUnlocked /\ UNCHANGED vars

TryGc == TryGcLock \/ TryGcMiss

\* Slip: the owners are not looked at.
TryGcVisitAny(v) ==
  /\ rpc = "gc" /\ v \in scan
  /\ scan' = scan \ {v}
  /\ freed' = freed \cup {v}
  /\ gc' = gc \ {v}
  /\ UNCHANGED <<vector, slots, owners, wpc, doomed, rounds, reader, callable>>

\* An array without an owner leaves the queue and is freed.  An array in the queue gets no
\* owners and loses only the reader's guard, so that this is one step.
TryGcVisit(v) ==
  /\ rpc = "gc" /\ v \in scan
  /\ scan' = scan \ {v}
  /\ LET orphans == {u \in {v} : owners[u] = 0}
     IN  freed' = freed \cup orphans /\ gc' = gc \ orphans
  /\ UNCHANGED <<vector, slots, owners, wpc, doomed, rounds, reader, callable>>

\* Slip: try_gc looks again until the queue is empty.
TryGcUntilEmpty ==
  /\ rpc = "gc" /\ scan = {}
  /\ scan' = gc
  /\ rpc' = IF gc = {} THEN "after" ELSE "gc"
  /\ UNCHANGED <<vector, slots, owners, freed, gc, wpc, doomed, rounds, rvec, job, callable>>

TryGcUnlock ==
  /\ rpc = "gc" /\ scan = {}
  /\ rpc' = "after"
  /\ UNCHANGED <<vector, slots, owners, freed, gc, writers, rvec, job, callable>>

\* try_gc goes on.
TryGcStep == TryGcUnlock \/ \E v \in Vec : TryGcVisit(v)

\* The guard is dropped.
ReadDrop ==
  /\ rpc = "after" /\ rvec \notin freed
  /\ owners' = [owners EXCEPT ![rvec] = @ - 1]
  /\ rvec' = 1
  /\ callable' = {}
  /\ rpc' = "idle"
  /\ UNCHANGED <<vector, slots, freed, gc, writers, job>>

\* The count or the slots of a freed array are accessed: nothing is said of what follows.
ReadFreed == rpc # "idle" /\ rvec \in freed /\ UNCHANGED vars

--------------------------------------------------------------------------------

Write(r) ==
  \/ WriteLock(r) \/ WriteSlot(r) \/ WriteActivate(r)
  \/ WriteGrow(r) \/ WriteDisown(r) \/ WritePush(r) \/ WriteUnlock(r)

Remove(r) ==
  \/ RemoveLock(r) \/ RemoveCurrent(r)
  \/ GcLeftLock(r) \/ GcLeftFree(r) \/ GcLeftUnlock(r) \/ RemoveUnlock(r)
  \/ \E v \in Vec : GcLeftOrphan(r, v) \/ GcLeftRemove(r, v)

Job(i) == ReadFilter(i) \/ ReadCallback(i) \/ CallbackReturns(i)

Read ==
  \/ ReadLoad \/ ReadOwn \/ ReadEnd \/ ReadDrop \/ ReadFreed
  \/ \E i \in DOMAIN job : Job(i)

Next ==
  \/ Read
  \/ TryGc \/ TryGcStep
  \/ \E r \in Reg : Register(r) \/ Unregister(r) \/ Write(r) \/ Remove(r)

Spec == Init /\ [][Next]_vars

--------------------------------------------------------------------------------

\* The array of a reader, from the load of the pointer to the drop of the guard, is not
\* given back to the allocator.
NoUseAfterFree == rpc # "idle" => rvec \notin freed

\* Once unregister has returned, no array that is still in use has the registration
\* active: neither the current one nor those that a pass is still reading.
RemovedEverywhere ==
  \A r \in Reg : wpc[r] = "out" =>
    \A v \in (1..vector) \ freed : \A i \in Slots(v) : slots[v][i].active => slots[v][i].fn # r

\* Once register has returned, exactly one active slot of the current array has the
\* registration, whatever arrays it was copied through.
RegisteredOnce ==
  \A r \in Reg : wpc[r] = "in" =>
    Cardinality({i \in Slots(vector) : slots[vector][i] = [active |-> TRUE, fn |-> r]}) = 1

\* The count of an array is the number of its users: the pointer to it, until the write
\* that replaced it drops that reference, and the guard of the reader.
OwnersAreUsers ==
  \A v \in (1..vector) \ freed :
    owners[v] = (IF v = vector \/ (v = vector - 1 /\ \E r \in Reg : wpc[r] = "w_disown") THEN 1 ELSE 0)
                + (IF rvec = v /\ rpc \in {"pass", "after", "gc"} THEN 1 ELSE 0)

\* An array that was replaced is freed or waits to be, except while the write that
\* replaced it is at work.
NoArrayLeak ==
  \A v \in 1..(vector - 1) :
    \/ v \in freed \cup gc \cup doomed
    \/ v = vector - 1 /\ \E r \in Reg : wpc[r] \in {"w_disown", "w_push"}

\* Once unregister has returned the callback is not called any more, nor still running:
\* its code may be unloaded.
QuietOnceUnregistered ==
  \A r \in Reg : wpc[r] = "out" => \A i \in DOMAIN job : job[i] # r

Registry == INSTANCE CallbackRegistry WITH
  registered <- Registered,
  passing <- rpc # "idle",
  calling <- {job[i] : i \in DOMAIN job} \cap Reg

\* Registering and unregistering take effect at one step, and a pass calls only what was
\* registered at some time since it loaded the pointer.
KeepsRegistry == Registry!Spec

================================================================================
