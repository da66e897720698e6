-------------------------------- MODULE Slicer --------------------------------
(***************************************************************************)
(* The slicer thread of libsavmasync/src/lib.rs over the registry of       *)
(* Registrations: pass after pass over the callbacks, and less and less    *)
(* often while they have nothing to do.  The thread is the registry's only *)
(* reader.  Other threads call register, unregister and signal_init.       *)
(***************************************************************************)
EXTENDS Naturals, FiniteSets, Sequences

CONSTANTS
  Reg, Nobody, Removing, FirstLen, MaxVec, MaxRounds,   \* as in Registrations
  GcEvery,     \* idle passes between two garbage collections: 10
  PauseLimit   \* idle passes before the thread parks: 1010

VARIABLES
  vector, slots, owners, freed, gc, wpc, scan, doomed, rounds,
  rpc, rvec, job, callable,      \* of the registry
  started,   \* SLICER is set
  worked,    \* executed_work: a callback of this pass has returned true
  spins,     \* passes without work
  turn       \* the loop is in its "pass", is "parked", or is going to "drop" the guard

registry == <<vector, slots, owners, freed, gc, wpc, scan, doomed, rounds,
              rpc, rvec, job, callable>>
vars == <<registry, started, worked, spins, turn>>

Space == INSTANCE Registrations

ASSUME SlicerAssumption ==
  /\ Space!RegistrationsAssumption
  /\ GcEvery \in Nat \ {0, 1}
  /\ PauseLimit \in Nat

TypeOK ==
  /\ Space!TypeOK
  /\ started \in BOOLEAN /\ worked \in BOOLEAN
  /\ spins \in 0..(PauseLimit + 1)
  /\ turn \in {"pass", "parked", "drop"}

Init ==
  /\ Space!Init
  /\ started = FALSE
  /\ worked = FALSE
  /\ spins = 0
  /\ turn = "pass"

--------------------------------------------------------------------------------
(* Other threads *)

\* register() starts the thread unless it runs already, and goes on to write().
Register(r) ==
  /\ Space!Register(r)
  /\ started' = TRUE
  /\ UNCHANGED <<worked, spins, turn>>

Unregister(r) == Space!Unregister(r) /\ UNCHANGED <<started, worked, spins, turn>>

WriterStep(r) ==
  /\ Space!Write(r) \/ Space!Remove(r)
  /\ UNCHANGED <<started, worked, spins, turn>>

--------------------------------------------------------------------------------
(* The loop of init() *)

\* The pass: the guard is taken and the jobs run.
PassStep ==
  /\ started /\ turn = "pass"
  /\ Space!ReadLoad \/ Space!ReadOwn \/ Space!ReadEnd
  /\ UNCHANGED <<started, worked, spins, turn>>

JobStep(i) ==
  /\ Space!ReadFilter(i) \/ Space!ReadCallback(i)
  /\ UNCHANGED <<started, worked, spins, turn>>

\* A callback returns whether it had work.
CallbackReturns(i, b) ==
  /\ Space!CallbackReturns(i)
  /\ worked' = (worked \/ b)
  /\ UNCHANGED <<started, spins, turn>>

Decides == rpc = "after" /\ turn = "pass"

\* executed_work
Worked ==
  /\ Decides /\ worked
  /\ spins' = 0
  /\ turn' = "drop"
  /\ UNCHANGED <<registry, started, worked>>

\* Slip: the idle pass is not counted.
CollectUncounted ==
  /\ Decides /\ ~worked
  /\ spins % GcEvery = 0
  /\ Space!TryGc
  /\ turn' = "drop"
  /\ UNCHANGED <<started, worked, spins>>

\* One idle pass in GcEvery collects garbage.
Collect ==
  /\ Decides /\ ~worked
  /\ spins % GcEvery = 0
  /\ Space!TryGc
  /\ spins' = spins + 1
  /\ turn' = "drop"
  /\ UNCHANGED <<started, worked>>

\* The other idle passes spin, the last of them yield.
Pause ==
  /\ Decides /\ ~worked
  /\ spins % GcEvery # 0 /\ spins < PauseLimit
  /\ spins' = spins + 1
  /\ turn' = "drop"
  /\ UNCHANGED <<registry, started, worked>>

\* try_gc goes on.
CollectStep == Space!TryGcStep /\ UNCHANGED <<started, worked, spins, turn>>

\* After so many idle passes the thread collects garbage and parks.
Park ==
  /\ Decides /\ ~worked
  /\ spins % GcEvery # 0 /\ spins >= PauseLimit
  /\ Space!TryGc
  /\ turn' = "parked"
  /\ UNCHANGED <<started, worked, spins>>

\* The millisecond is over, or signal_init() unparks the thread.
Unpark ==
  /\ turn = "parked" /\ rpc = "after"
  /\ turn' = "drop"
  /\ UNCHANGED <<registry, started, worked, spins>>

\* Slip: the guard is never dropped.
LoopForgets ==
  /\ turn = "drop" /\ rpc = "after"
  /\ rpc' = "idle" /\ rvec' = 1 /\ callable' = {}
  /\ UNCHANGED <<vector, slots, owners, freed, gc, wpc, scan, doomed, rounds, job>>
  /\ worked' = FALSE
  /\ turn' = "pass"
  /\ UNCHANGED <<started, spins>>

\* Slip: the thread looks at the slots that it looked at before.
LoopStale ==
  /\ turn = "drop" /\ rpc = "after"
  /\ job' = [i \in Space!Slots(rvec) |-> "todo"]
  /\ rpc' = "pass"
  /\ UNCHANGED <<vector, slots, owners, freed, gc, wpc, scan, doomed, rounds, rvec, callable>>
  /\ worked' = FALSE
  /\ turn' = "pass"
  /\ UNCHANGED <<started, spins>>

\* The end of the loop's body drops the guard.
Loop ==
  /\ turn = "drop"
  /\ Space!ReadDrop
  /\ worked' = FALSE
  /\ turn' = "pass"
  /\ UNCHANGED <<started, spins>>

SlicerStep ==
  \/ PassStep \/ Worked \/ Collect \/ Pause \/ Park \/ CollectStep \/ Unpark \/ Loop
  \/ \E i \in DOMAIN job : JobStep(i) \/ \E b \in BOOLEAN : CallbackReturns(i, b)

\* The array of the slicer was freed: nothing is said of what follows.
ReadFreed == Space!ReadFreed /\ UNCHANGED vars

Next ==
  \/ SlicerStep \/ ReadFreed
  \/ \E r \in Reg : Register(r) \/ Unregister(r) \/ WriterStep(r)

\* Every thread goes on with what it has begun, and callbacks return.  A writer that waits
\* for a lock gets it, though the slicer takes the one of `gc` again and again: parking_lot
\* hands a mutex over to the thread that has waited, every so often.
Spec ==
  /\ Init /\ [][Next]_vars
  /\ WF_vars(SlicerStep)
  /\ \A r \in Reg : SF_vars(WriterStep(r))

--------------------------------------------------------------------------------

\* While nothing is unregistered, the collections of the slicer free no array that the
\* slicer itself still looks at, however the registry grows meanwhile.
NoUseAfterFree == Space!NoUseAfterFree

\* A registered callback is called again and again, also after the array it was
\* registered in was replaced in the middle of a pass.
KeepsCalling ==
  \A r \in Reg : wpc[r] = "in" ~> (\E i \in DOMAIN job : job[i] = r) \/ wpc[r] # "in"

\* When the callbacks have no more work, every array that was replaced is freed at last,
\* though try_gc gives up when a writer holds the queue, unless a removal has freed the
\* array that the slicer looks at.
GarbageCollected ==
  <>[]~worked /\ []NoUseAfterFree => <>[](gc = {} /\ 1..(vector - 1) = freed)

\* When the callbacks have no more work, the thread parks again and again: the count of
\* idle passes does not get stuck below the limit.
IdleParks == <>[](started /\ ~worked) => []<>(turn = "parked" /\ rpc = "after")

\* unregister() comes back, though it waits for the lock of the writers and, holding that,
\* for the queue, which the slicer locks in between for every garbage collection.
UnregisterReturns == \A r \in Removing : wpc[r] = "r_lock" ~> wpc[r] = "out"

================================================================================
