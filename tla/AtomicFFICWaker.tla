---------------------------- MODULE AtomicFFICWaker ----------------------------
(***************************************************************************)
(* The waker cell of ffi/src/futures/atomiccw.rs, with the four RawWaker   *)
(* functions of ffi/src/futures/implements.rs through which it is used.    *)
(*                                                                         *)
(* A handle is one counted reference to the cell: the base reference that  *)
(* AtomicFFICWaker::new counts, or one Waker made by inc().  Each handle   *)
(* runs one operation at a time, one atomic access of the cell per step,   *)
(* so that two threads sharing a &Waker are two handles here.  Atomics are *)
(* sequentially consistent.                                                *)
(***************************************************************************)
EXTENDS Naturals, FiniteSets

CONSTANTS
  Handle,    \* references to the cell that may exist
  Base,      \* the reference counted by AtomicFFICWaker::new
  Updaters,  \* handles that call update(); in this code only Base
  CWaker,    \* clones of host wakers, each handed to update() at most once
  NoWaker    \* the zeroed CWaker of a new cell

ASSUME HandleAssumption ==
  /\ IsFiniteSet(Handle)
  /\ Base \in Handle
  /\ Updaters \subseteq Handle
  /\ NoWaker \notin CWaker

VARIABLES
  state,     \* the AtomicU64: LOCKED, NOTIFIED, NEW and the reference count
  data,      \* the CWaker in the cell
  pc,        \* the next step of each handle; "none" when there is no such handle
  cur,       \* current_state of wake() and update(), prev of dec() and update()
  ret,       \* where a handle goes after wake(): "idle", or "dec" in wake_consume
  arg,       \* new_data of update()
  old,       \* old_data of update()
  host,      \* each host waker clone: "fresh", "held" by the cell, "freed"
  alive,     \* FALSE once the Box<FutureState> around the cell is dropped
  owed       \* history: who has undertaken to call the host since it was last called

vars == <<state, data, pc, cur, ret, arg, old, host, alive, owed>>

Word == [locked : BOOLEAN, notified : BOOLEAN, new : BOOLEAN, refs : Nat]

\* AtomicU64::new(0x2000000000000000 | 1)
NewWord == [locked |-> FALSE, notified |-> FALSE, new |-> TRUE, refs |-> 1]

WakeCS == {"wake_call", "wake_unlock"}    \* wake() holds LOCKED
UpdateCS == {"upd_swap", "upd_unlock"}    \* update() holds LOCKED
Dropping == {"drop_data", "free_box"}     \* dec() returned true
Location == {"none", "idle", "wake_cas", "dec", "upd_cas", "upd_notify", "upd_free"}
              \cup WakeCS \cup UpdateCS \cup Dropping

TypeOK ==
  /\ state \in Word
  /\ data \in CWaker \cup {NoWaker}
  /\ pc \in [Handle -> Location]
  /\ cur \in [Handle -> Word]
  /\ ret \in [Handle -> {"idle", "dec"}]
  /\ arg \in [Handle -> CWaker \cup {NoWaker}]
  /\ old \in [Handle -> CWaker \cup {NoWaker}]
  /\ host \in [CWaker -> {"fresh", "held", "freed"}]
  /\ alive \in BOOLEAN
  /\ owed \subseteq {"self", "update"}

Init ==
  /\ state = NewWord
  /\ data = NoWaker
  /\ pc = [h \in Handle |-> IF h = Base THEN "idle" ELSE "none"]
  /\ cur = [h \in Handle |-> NewWord]
  /\ ret = [h \in Handle |-> "idle"]
  /\ arg = [h \in Handle |-> NoWaker]
  /\ old = [h \in Handle |-> NoWaker]
  /\ host = [w \in CWaker |-> "fresh"]
  /\ alive = TRUE
  /\ owed = {}

--------------------------------------------------------------------------------
(* What the operations do to the state word. *)

\* Slip: wake() clears the same bits as update().
WakeUnlockedNew(word) == [word EXCEPT !.locked = FALSE, !.notified = FALSE, !.new = FALSE]

\* Slip: update() leaves NEW set.
UpdateUnlockedStillNew(word) == [word EXCEPT !.locked = FALSE, !.notified = FALSE]

\* Slip: dec() looks for the one reference that is left.
LastButOneRef(prev) == prev.refs = 2

Locked(word) == [word EXCEPT !.locked = TRUE]

\* The newstate of wake(): LOCKED is added when it was clear, and set already when not.
WakeWord(word) == [word EXCEPT !.notified = TRUE, !.locked = TRUE]

WakeUnlocked(word) == [word EXCEPT !.locked = FALSE, !.notified = FALSE]

UpdateUnlocked(word) == [word EXCEPT !.locked = FALSE, !.notified = FALSE, !.new = FALSE]

\* The test of dec(): the count, flags masked out, was one.
LastRef(prev) == prev.refs = 1

NoCall == [op |-> "none", on |-> NoWaker]

\* Slip: update() passes the wake that was left to it on to old_data.
HostCallToOld(h) ==
  CASE pc[h] = "wake_call" /\ ~cur[h].new -> [op |-> "wake", on |-> data]
    [] pc[h] = "upd_notify" /\ cur[h].notified -> [op |-> "wake", on |-> old[h]]
    [] pc[h] = "upd_free" /\ ~cur[h].new -> [op |-> "free", on |-> old[h]]
    [] pc[h] = "drop_data" -> [op |-> "free", on |-> data]
    [] OTHER -> NoCall

\* The call of the host that h is in, and its argument: wake_no_free in wake(), unless NEW
\* was set when the lock was taken, and in update() for a wake that was left to it;
\* free_waker in update(), unless the cell was new, and in AtomicFFICWaker::drop.
HostCall(h) ==
  CASE pc[h] = "wake_call" /\ ~cur[h].new -> [op |-> "wake", on |-> data]
    [] pc[h] = "upd_notify" /\ cur[h].notified -> [op |-> "wake", on |-> arg[h]]
    [] pc[h] = "upd_free" /\ ~cur[h].new -> [op |-> "free", on |-> old[h]]
    [] pc[h] = "drop_data" -> [op |-> "free", on |-> data]
    [] OTHER -> NoCall

\* What the host's functions do, as the call returns.
CallHost(h) ==
  /\ owed' = IF HostCall(h).op = "wake" THEN {} ELSE owed
  /\ host' = IF HostCall(h).op = "free" THEN [host EXCEPT ![HostCall(h).on] = "freed"] ELSE host

Goto(h, loc) == pc' = [pc EXCEPT ![h] = loc]

\* The operation of h ends and its local copy of the word is dead.
Finish(h, loc) == Goto(h, loc) /\ cur' = [cur EXCEPT ![h] = NewWord]

--------------------------------------------------------------------------------
(* clone_waker and the reference count *)

\* Slip: the new handle is not counted.
CloneUncounted(h, g) ==
  /\ pc[h] = "idle"
  /\ pc[g] = "none"
  /\ Goto(g, "idle")
  /\ UNCHANGED <<state, data, cur, ret, arg, old, host, alive, owed>>

\* clone_waker: inc() through h makes the handle g.
Clone(h, g) ==
  /\ pc[h] = "idle"
  /\ pc[g] = "none"
  /\ state' = [state EXCEPT !.refs = @ + 1]
  /\ Goto(g, "idle")
  /\ UNCHANGED <<data, cur, ret, arg, old, host, alive, owed>>

\* dec(), from drop_waker (an idle handle) or at the end of wake_consume.
Dec(h) ==
  /\ pc[h] \in {"idle", "dec"}
  /\ state' = [state EXCEPT !.refs = @ - 1]
  /\ Goto(h, IF ~LastRef(state) THEN "none"
             ELSE IF state.new THEN "free_box" ELSE "drop_data")
  /\ ret' = [ret EXCEPT ![h] = "idle"]
  /\ UNCHANGED <<data, cur, arg, old, host, alive, owed>>

\* AtomicFFICWaker::drop: free_waker on the stored clone.
DropData(h) ==
  /\ pc[h] = "drop_data"
  /\ CallHost(h)
  /\ Goto(h, "free_box")
  /\ UNCHANGED <<state, data, cur, ret, arg, old, alive>>

\* drop(Box::from_raw(..)) in the caller of dec().
FreeBox(h) ==
  /\ pc[h] = "free_box"
  /\ alive' = FALSE
  /\ Goto(h, "none")
  /\ UNCHANGED <<state, data, cur, ret, arg, old, host, owed>>

--------------------------------------------------------------------------------
(* wake() *)

\* The first load of the word; `then` is "dec" in wake_consume.
WakeBegin(h, then) ==
  /\ pc[h] = "idle"
  /\ cur' = [cur EXCEPT ![h] = state]
  /\ ret' = [ret EXCEPT ![h] = then]
  /\ Goto(h, "wake_cas")
  /\ UNCHANGED <<state, data, arg, old, host, alive, owed>>

\* The exchange failed: retry with the word it saw (a spurious failure changes nothing).
WakeRetry(h) ==
  /\ pc[h] = "wake_cas"
  /\ cur[h] # state
  /\ cur' = [cur EXCEPT ![h] = state]
  /\ UNCHANGED <<state, data, pc, ret, arg, old, host, alive, owed>>

\* Who undertakes to deliver a wake whose exchange succeeds now: an update that holds the
\* lock, or the wake itself.  Nobody does while no waker is installed, nor when another
\* wake() holds the lock: that one may have called the host already.
Deliverer ==
  IF \E u \in Handle : pc[u] \in UpdateCS THEN {"update"}
  ELSE IF state.new \/ state.locked THEN {} ELSE {"self"}

\* The exchange succeeded on a clear LOCKED bit: h has the lock.
WakeLock(h) ==
  /\ pc[h] = "wake_cas"
  /\ cur[h] = state
  /\ ~cur[h].locked
  /\ state' = WakeWord(cur[h])
  /\ owed' = owed \cup Deliverer
  /\ Goto(h, "wake_call")
  /\ UNCHANGED <<data, cur, ret, arg, old, host, alive>>

\* The exchange succeeded on a set LOCKED bit: NOTIFIED is left to the holder.
WakeSkip(h) ==
  /\ pc[h] = "wake_cas"
  /\ cur[h] = state
  /\ cur[h].locked
  /\ state' = WakeWord(cur[h])
  /\ owed' = owed \cup Deliverer
  /\ Finish(h, ret[h])
  /\ UNCHANGED <<data, ret, arg, old, host, alive>>

\* wake_no_free, or nothing.
WakeCall(h) ==
  /\ pc[h] = "wake_call"
  /\ CallHost(h)
  /\ Goto(h, "wake_unlock")
  /\ UNCHANGED <<state, data, cur, ret, arg, old, alive>>

WakeUnlock(h) ==
  /\ pc[h] = "wake_unlock"
  /\ state' = WakeUnlocked(state)
  /\ Finish(h, ret[h])
  /\ UNCHANGED <<data, ret, arg, old, host, alive, owed>>

--------------------------------------------------------------------------------
(* update() *)

\* The first load of the word.  The host has cloned its waker into w.
UpdateBegin(h, w) ==
  /\ pc[h] = "idle"
  /\ host[w] = "fresh"
  /\ host' = [host EXCEPT ![w] = "held"]
  /\ arg' = [arg EXCEPT ![h] = w]
  /\ cur' = [cur EXCEPT ![h] = state]
  /\ Goto(h, "upd_cas")
  /\ UNCHANGED <<state, data, ret, old, alive, owed>>

\* LOCKED was set, or the exchange failed: look at the word again.
UpdateRetry(h) ==
  /\ pc[h] = "upd_cas"
  /\ cur[h].locked \/ cur[h] # state
  /\ cur' = [cur EXCEPT ![h] = state]
  /\ UNCHANGED <<state, data, pc, ret, arg, old, host, alive, owed>>

\* Slip: update() does not wait for LOCKED to clear.
UpdateLockBarging(h) ==
  /\ pc[h] = "upd_cas"
  /\ cur[h] = state
  /\ state' = Locked(cur[h])
  /\ Goto(h, "upd_swap")
  /\ UNCHANGED <<data, cur, ret, arg, old, host, alive, owed>>

UpdateLock(h) ==
  /\ pc[h] = "upd_cas"
  /\ cur[h] = state
  /\ ~cur[h].locked
  /\ state' = Locked(cur[h])
  /\ Goto(h, "upd_swap")
  /\ UNCHANGED <<data, cur, ret, arg, old, host, alive, owed>>

\* ptr::replace
UpdateSwap(h) ==
  /\ pc[h] = "upd_swap"
  /\ data' = arg[h]
  /\ old' = [old EXCEPT ![h] = data]
  /\ Goto(h, "upd_unlock")
  /\ UNCHANGED <<state, cur, ret, arg, host, alive, owed>>

\* Slip: prev is the word that update() locked, not the one it unlocked.
UpdateUnlockStale(h) ==
  /\ pc[h] = "upd_unlock"
  /\ state' = UpdateUnlocked(state)
  /\ Goto(h, "upd_notify")
  /\ UNCHANGED <<data, cur, ret, arg, old, host, alive, owed>>

\* fetch_and; cur becomes prev.
UpdateUnlock(h) ==
  /\ pc[h] = "upd_unlock"
  /\ cur' = [cur EXCEPT ![h] = state]
  /\ state' = UpdateUnlocked(state)
  /\ Goto(h, "upd_notify")
  /\ UNCHANGED <<data, ret, arg, old, host, alive, owed>>

\* wake_no_free, or nothing.
UpdateNotify(h) ==
  /\ pc[h] = "upd_notify"
  /\ CallHost(h)
  /\ Goto(h, "upd_free")
  /\ UNCHANGED <<state, data, cur, ret, arg, old, alive>>

\* free_waker, or nothing.
UpdateFree(h) ==
  /\ pc[h] = "upd_free"
  /\ CallHost(h)
  /\ arg' = [arg EXCEPT ![h] = NoWaker]
  /\ old' = [old EXCEPT ![h] = NoWaker]
  /\ Finish(h, "idle")
  /\ UNCHANGED <<state, data, ret, alive>>

--------------------------------------------------------------------------------

\* The steps of operations already begun: only scheduling decides when they happen.
Continue(h) ==
  \/ WakeRetry(h) \/ WakeLock(h) \/ WakeSkip(h) \/ WakeCall(h) \/ WakeUnlock(h)
  \/ UpdateRetry(h) \/ UpdateLock(h) \/ UpdateSwap(h) \/ UpdateUnlock(h)
  \/ UpdateNotify(h) \/ UpdateFree(h)
  \/ DropData(h) \/ FreeBox(h)

\* The operations an owner of h may begin, and the dec() that ends wake_consume.
Begin(h) ==
  \/ \E g \in Handle : Clone(h, g)
  \/ \E then \in {"idle", "dec"} : WakeBegin(h, then)
  \/ Dec(h)
  \/ h \in Updaters /\ \E w \in CWaker : UpdateBegin(h, w)

\* The cell is gone for good.
Terminated == ~alive /\ UNCHANGED vars

Next == Terminated \/ \E h \in Handle : Begin(h) \/ Continue(h)

Spec == Init /\ [][Next]_vars

--------------------------------------------------------------------------------

InLock(h) == pc[h] \in WakeCS \cup UpdateCS

\* LOCKED is set exactly while one operation is between taking and releasing it,
\* so the unsynchronised accesses to `data` never overlap.
LockExclusion ==
  /\ state.locked <=> \E h \in Handle : InLock(h)
  /\ \A g, h \in Handle : InLock(g) /\ InLock(h) => g = h

\* The Box is dropped by the last reference only: no handle, idle or in the middle of
\* an operation, points to a cell that is gone.
BoxOutlivesHandles == \A h \in Handle : pc[h] # "none" => alive

\* wake_no_free and free_waker get a clone the host has given out and not got back:
\* never one freed before, by another update or by the last dec().
HostWakersLive ==
  \A h \in Handle : HostCall(h) # NoCall =>
    HostCall(h).on \in CWaker /\ host[HostCall(h).on] = "held"

\* The clones some future step will free: the stored one, those on the way in and
\* those on the way out.
Owned ==
  {IF state.refs > 0 \/ \E h \in Handle : pc[h] = "drop_data" THEN data ELSE NoWaker}
  \cup {arg[h] : h \in {g \in Handle : pc[g] \in {"upd_cas", "upd_swap"}}}
  \cup {old[h] : h \in {g \in Handle : pc[g] \in {"upd_unlock", "upd_notify", "upd_free"}}}

\* No clone leaks: what the cell holds is what it will free.  In particular nothing is
\* held once the Box is dropped.
NoWakerLeak == {w \in CWaker : host[w] = "held"} = Owned \ {NoWaker}

\* A wake that took the lock, or that found an update holding it, has somebody left who
\* will call the host: it is never dropped, whatever the swap does in between.
DelegatedWakeKept ==
  /\ "self" \in owed => \E h \in Handle : pc[h] = "wake_call" /\ ~cur[h].new
  /\ "update" \in owed =>
       \/ state.notified /\ \E h \in Handle : pc[h] \in UpdateCS
       \/ \E h \in Handle : pc[h] = "upd_notify" /\ cur[h].notified

\* The operations of the cell seen from the host.
Contract == INSTANCE HostWakerContract WITH
  Caller <- Handle,
  incoming <- {arg[h] : h \in {g \in Handle : pc[g] \in {"upd_cas", "upd_swap"}}},
  slot <- IF state.refs = 0 THEN NoWaker ELSE data,
  calls <- [h \in Handle |-> HostCall(h)]

\* Every call of wake_no_free is on the clone that is installed when it begins and until it
\* returns; every clone is freed by one caller, after it was replaced or with the cell, and
\* no other call on it is under way; and the cell goes only when every wake that somebody
\* undertook to deliver has been delivered.
KeepsContract == Contract!Spec

\* Only one owner calls update(): the FFIFuture that is being polled.
SingleUpdater == \A g, h \in Updaters : g = h

================================================================================
