------------------------------- MODULE FFIFuture -------------------------------
(***************************************************************************)
(* A future driven across the C ABI: the host side, FFIFuture in           *)
(* ffi/src/futures/mod.rs, the task side, poll_future in                   *)
(* ffi/src/futures/implements.rs, and the waker cell between them, whose   *)
(* actions are those of AtomicFFICWaker.                                   *)
(*                                                                         *)
(* FFIFuture is neither Send nor Sync, so one thread runs new, poll and    *)
(* drop: hpc is where it is.  Every event source has a thread of its own   *)
(* and holds at most one clone of the task's waker.  The executor and the  *)
(* sources are not part of the repository; they do what Rust's contract    *)
(* for futures asks of them.                                               *)
(***************************************************************************)
EXTENDS Naturals, FiniteSets

CONSTANTS
  Base,      \* the reference of AtomicFFICWaker::new
  Raw,       \* FutureState::raw_waker
  Source,    \* events that the future waits for, each of them once
  CWaker,    \* clones of the executor's wakers
  NoWaker,   \* the zeroed CWaker
  Ctx,       \* wakers the executor polls with, over time
  Addr,      \* addresses a waker may have
  NoAddr,    \* a waker that does not exist, and the zeroed fingerprint
  MaxYields, \* how many times the future wakes itself and returns Pending
  CloneSharesData  \* Waker::clone keeps the data pointer

Handle == {Base, Raw} \cup Source

ASSUME FutureAssumption ==
  /\ IsFiniteSet(Source) /\ Base # Raw /\ {Base, Raw} \cap Source = {}
  /\ NoWaker \notin CWaker
  /\ NoAddr \notin Addr
  /\ MaxYields \in Nat
  /\ CloneSharesData \in BOOLEAN

VARIABLES
  state, data, pc, cur, ret, arg, old, host, alive, owed,   \* of the waker cell
  hpc,       \* the next step of the host's thread
  future,    \* FutureState::future is Some
  ready,     \* flags & (1 << 2): poll has returned Ready
  last,      \* last_waker_data and last_waker_vtable
  addr,      \* the address of each waker the executor made, NoAddr for the others
  gone,      \* wakers the executor has dropped
  cx,        \* the waker the executor polls with
  of,        \* of which waker a clone was made
  woken,     \* the executor is going to poll
  fired,     \* the events that have happened
  taken,     \* the events that the future has seen
  todo,      \* the sources it has still to look at in this poll
  yields     \* how often the future woke itself

cell == <<state, data, pc, cur, ret, arg, old, host, alive, owed>>
executor == <<addr, gone, cx>>
vars == <<cell, hpc, future, ready, last, executor, of, woken, fired, taken, todo, yields>>

Cell == INSTANCE AtomicFFICWaker WITH Updaters <- {Base}

Dropping == {"drop_raw", "drop_future", "drop_base"}

TypeOK ==
  /\ Cell!TypeOK
  /\ hpc \in {"new", "idle", "check", "update", "visit", "pending", "done"} \cup Dropping
  /\ future \in BOOLEAN /\ ready \in BOOLEAN /\ woken \in BOOLEAN
  /\ last \in Addr \cup {NoAddr}
  /\ addr \in [Ctx -> Addr \cup {NoAddr}]
  /\ gone \subseteq Ctx
  /\ cx \in Ctx
  /\ of \in [CWaker -> Ctx]
  /\ fired \subseteq Source
  /\ taken \subseteq Source
  /\ todo \subseteq Source
  /\ yields \in 0..MaxYields

\* create_future has boxed the task; the executor is about to poll it for the first time.
Init ==
  /\ Cell!Init
  /\ hpc = "new"
  /\ future = TRUE
  /\ ready = FALSE
  /\ last = NoAddr
  /\ cx \in Ctx
  /\ \E a \in Addr : addr = [c \in Ctx |-> IF c = cx THEN a ELSE NoAddr]
  /\ gone = {}
  /\ of = [w \in CWaker |-> cx]
  /\ woken = TRUE
  /\ fired = {}
  /\ taken = {}
  /\ todo = {}
  /\ yields = 0

--------------------------------------------------------------------------------
(* The executor and the sources *)

\* Wakers whose address is taken: the executor has them or, when clones share the data of
\* their original, the cell holds a clone.
Present ==
  {c \in Ctx : addr[c] # NoAddr /\
     (c \in gone => CloneSharesData /\ \E w \in CWaker : host[w] = "held" /\ of[w] = c)}

\* The future moves to another waker of the executor, or to a new one at a free address,
\* and the task that takes it over polls it.
Move(c, a) ==
  /\ hpc = "idle" /\ ~ready
  /\ c \notin gone \cup {cx}
  /\ \E w \in CWaker : host[w] = "fresh"
  /\ IF addr[c] = NoAddr THEN a \notin {addr[d] : d \in Present} ELSE a = addr[c]
  /\ cx' = c
  /\ addr' = [addr EXCEPT ![c] = a]
  /\ woken' = TRUE
  /\ UNCHANGED <<cell, hpc, future, ready, last, gone, of, fired, taken, todo, yields>>

\* The executor drops a waker that it does not poll with any more.
Retire(c) ==
  /\ c # cx /\ addr[c] # NoAddr /\ c \notin gone
  /\ gone' = gone \cup {c}
  /\ UNCHANGED <<cell, hpc, future, ready, last, addr, cx, of>>
  /\ UNCHANGED <<woken, fired, taken, todo, yields>>

\* A source's event happens: it takes the clone it holds, if any, and calls wake() on it.
Fire(s) ==
  /\ s \notin fired
  /\ fired' = fired \cup {s}
  /\ IF pc[s] = "idle" THEN Cell!WakeBegin(s, "dec") ELSE UNCHANGED cell
  /\ UNCHANGED <<hpc, future, ready, last, executor, of, woken, taken, todo, yields>>

\* Once the future is dropped, a source may drop the clone it holds.
Cancel(s) ==
  /\ ~future
  /\ pc[s] = "idle"
  /\ Cell!Dec(s)
  /\ UNCHANGED <<hpc, future, ready, last, executor, of, woken, fired, taken, todo, yields>>

\* The step h is about to take calls the waker that the executor polls with.
CallsExecutor(h) ==
  Cell!HostCall(h).op = "wake" /\ of[Cell!HostCall(h).on] = cx

\* wake(), update() and dec() go on.  Being called, the executor schedules a poll.
CellStep(h) ==
  /\ Cell!Continue(h) \/ (pc[h] = "dec" /\ Cell!Dec(h))
  /\ woken' = (woken \/ CallsExecutor(h))
  /\ UNCHANGED <<hpc, future, ready, last, executor, of, fired, taken, todo, yields>>

--------------------------------------------------------------------------------
(* FFIFuture::new and poll *)

\* SealWakerVTable: inc(), and raw_waker is made.
New ==
  /\ hpc = "new"
  /\ Cell!Clone(Base, Raw)
  /\ hpc' = "idle"
  /\ UNCHANGED <<future, ready, last, executor, of, woken, fired, taken, todo, yields>>

\* The executor runs the task again.
PollBegin ==
  /\ hpc = "idle" /\ ~ready
  /\ woken
  /\ woken' = FALSE
  /\ hpc' = "check"
  /\ UNCHANGED <<cell, future, ready, last, executor, of, fired, taken, todo, yields>>

\* PollCollect: the future starts to look at the sources whose events it has not seen.
Collect ==
  /\ hpc' = "visit"
  /\ todo' = Source \ taken
  /\ UNCHANGED <<cell, future, ready, last, executor, of, woken, fired, taken, yields>>

\* Slip: one waker is sent, whatever the executor polls with later.
KeepFirstWaker == hpc = "check" /\ last # NoAddr /\ Collect

\* The fingerprint is the one of the last poll: the stored clone is kept.
KeepWaker == hpc = "check" /\ last = addr[cx] /\ Collect

\* The fingerprint differs: waker.clone() is sent to update().
SendWaker(w) ==
  /\ hpc = "check"
  /\ last # addr[cx]
  /\ last' = addr[cx]
  /\ of' = [of EXCEPT ![w] = cx]
  /\ Cell!UpdateBegin(Base, w)
  /\ hpc' = "update"
  /\ UNCHANGED <<future, ready, executor, woken, fired, taken, todo, yields>>

\* update() has returned.
WakerSent == hpc = "update" /\ pc[Base] = "idle" /\ Collect

\* Slip: clone_waker hands out the pointer and counts nothing.
VisitUncounted(s) ==
  /\ hpc = "visit"
  /\ s \in todo
  /\ todo' = todo \ {s}
  /\ taken' = IF s \in fired THEN taken \cup {s} ELSE taken
  /\ pc' = IF s \notin fired /\ pc[s] = "none" THEN [pc EXCEPT ![s] = "idle"] ELSE pc
  /\ UNCHANGED <<state, data, cur, ret, arg, old, host, alive, owed>>
  /\ UNCHANGED <<hpc, future, ready, last, executor, of, woken, fired, yields>>

\* The future looks at a source, and leaves a clone of its waker there unless the event
\* has happened or an earlier clone is there: all of them wake the same cell.
Visit(s) ==
  /\ hpc = "visit"
  /\ s \in todo
  /\ todo' = todo \ {s}
  /\ taken' = IF s \in fired THEN taken \cup {s} ELSE taken
  /\ IF s \notin fired /\ pc[s] = "none" THEN Cell!Clone(Raw, s) ELSE UNCHANGED cell
  /\ UNCHANGED <<hpc, future, ready, last, executor, of, woken, fired, yields>>

\* The future lets other tasks run: it calls wake_by_ref on its waker.
Yield ==
  /\ hpc = "visit" /\ todo = {}
  /\ yields < MaxYields
  /\ yields' = yields + 1
  /\ Cell!WakeBegin(Raw, "idle")
  /\ hpc' = "pending"
  /\ UNCHANGED <<future, ready, last, executor, of, woken, fired, taken, todo>>

\* The future has to wait for events.
Wait ==
  /\ hpc = "visit" /\ todo = {}
  /\ taken # Source
  /\ hpc' = "pending"
  /\ UNCHANGED <<cell, future, ready, last, executor, of, woken, fired, taken, todo, yields>>

\* Poll::Pending
Pending ==
  /\ hpc = "pending"
  /\ pc[Raw] = "idle"
  /\ hpc' = "idle"
  /\ UNCHANGED <<cell, future, ready, last, executor, of, woken, fired, taken, todo, yields>>

\* Poll::Ready: every event is seen and the future does not yield again.
Ready ==
  /\ hpc = "visit" /\ todo = {}
  /\ taken = Source /\ yields = MaxYields
  /\ ready' = TRUE
  /\ hpc' = "idle"
  /\ UNCHANGED <<cell, future, last, executor, of, woken, fired, taken, todo, yields>>

--------------------------------------------------------------------------------
(* Drop: Cleanup after Ready, Abort before; poll_future treats them alike. *)

Drop ==
  /\ hpc = "idle"
  /\ hpc' = "drop_raw"
  /\ UNCHANGED <<cell, future, ready, last, executor, of, woken, fired, taken, todo, yields>>

\* Slip: raw_waker is left to the drop of the Box.
DropRawLate ==
  /\ hpc = "drop_raw"
  /\ hpc' = "drop_future"
  /\ UNCHANGED <<cell, future, ready, last, executor, of, woken, fired, taken, todo, yields>>

\* raw_waker.take() runs drop_waker.
DropRaw ==
  /\ hpc = "drop_raw"
  /\ Cell!Dec(Raw)
  /\ hpc' = "drop_future"
  /\ UNCHANGED <<future, ready, last, executor, of, woken, fired, taken, todo, yields>>

\* Slip: the future is left to the drop of the Box.
DropFutureLate ==
  /\ hpc = "drop_future"
  /\ hpc' = "drop_base"
  /\ UNCHANGED <<cell, future, ready, last, executor, of, woken, fired, taken, todo, yields>>

\* future.take()
DropFuture ==
  /\ hpc = "drop_future"
  /\ future' = FALSE
  /\ hpc' = "drop_base"
  /\ UNCHANGED <<cell, ready, last, executor, of, woken, fired, taken, todo, yields>>

\* dec() of the reference counted by new.
DropBase ==
  /\ hpc = "drop_base"
  /\ Cell!Dec(Base)
  /\ hpc' = "done"
  /\ UNCHANGED <<future, ready, last, executor, of, woken, fired, taken, todo, yields>>

--------------------------------------------------------------------------------

\* What the host's thread does without being asked to: it polls when woken and finishes
\* what it has begun.
HostStep ==
  \/ New \/ PollBegin \/ KeepWaker \/ WakerSent
  \/ \E w \in CWaker : SendWaker(w)
  \/ \E s \in Source : Visit(s)
  \/ Yield \/ Wait \/ Pending \/ Ready
  \/ DropRaw \/ DropFuture \/ DropBase

\* The future is dropped and so is its cell, and no event is left.
Terminated == ~alive /\ fired = Source /\ UNCHANGED vars

Next ==
  \/ HostStep
  \/ Drop
  \/ \E c \in Ctx : Retire(c) \/ \E a \in Addr : Move(c, a)
  \/ \E s \in Source : Fire(s) \/ Cancel(s)
  \/ \E h \in Handle : CellStep(h)
  \/ Terminated

Spec == Init /\ [][Next]_vars

\* Every thread goes on with what it has begun, and every event happens.
FairSpec ==
  /\ Spec
  /\ WF_vars(HostStep)
  /\ \A h \in Handle : WF_vars(CellStep(h))
  /\ \A s \in Source : WF_vars(Fire(s))

--------------------------------------------------------------------------------

\* The waker cell is used as its own specification has it: one updater, counted clones,
\* no operation on a handle that is not there.
DrivesCell == Cell!Spec

\* The clone that the cell calls while the future runs is one of the waker the executor
\* polls with: the comparison of addresses in poll never keeps a clone of another waker.
FingerprintSound == hpc \in {"visit", "pending"} => of[data] = cx

\* Whichever thread drops the Box finds no future in it: a future is only ever dropped by
\* the thread that polled it, in the middle of whose wakes the last dec() may be.
FutureDroppedByHost == \A h \in Handle : pc[h] \in {"drop_data", "free_box"} => ~future

\* A future that is not dropped before becomes ready once its events have happened: no
\* interleaving of wakes, polls and moves between wakers puts the task to sleep for good.
Completes == <>(ready \/ hpc \in Dropping \cup {"done"})

\* After the drop of the FFIFuture the Box is dropped, and every clone of every waker is
\* returned to the executor, however late the sources' wakes come.
Released == hpc = "drop_raw" ~> ~alive /\ \A w \in CWaker : host[w] # "held"

================================================================================
