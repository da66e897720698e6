------------------------ MODULE HostWakerContract_proofs ------------------------
(***************************************************************************)
(* Proof that the waker cell keeps its contract with the host, when one    *)
(* owner updates: no clone leaks, and every operation is a step of the     *)
(* contract or none at all.                                                *)
(***************************************************************************)
EXTENDS AtomicFFICWaker_proofs

\* The stored clone is still going to be freed.
Open == state.refs > 0 \/ \E h \in Handle : pc[h] = "drop_data"

\* Clones on their way into the cell, and out of it.
Incoming == {arg[h] : h \in {g \in Handle : pc[g] \in {"upd_cas", "upd_swap"}}}
Outgoing == {old[h] : h \in {g \in Handle : pc[g] \in {"upd_unlock", "upd_notify", "upd_free"}}}

\* The stored clone, to the host.
Slot == IF state.refs = 0 THEN NoWaker ELSE data

\* NoWakerLeak, said of each clone.
HeldMeansOwned ==
  \A w \in CWaker : host[w] = "held" <=> (Open /\ w = data) \/ w \in Incoming \/ w \in Outgoing

--------------------------------------------------------------------------------
(* Handles that keep the cell open, and what one updater has in hand *)

\* The count is not zero before nor after a step of a handle that is counted before and after.
LEMMA CountedKeepsOpen ==
  ASSUME RefInv, RefInv', NEW h \in Handle,
         pc[h] \notin {"none"} \cup Dropping, pc'[h] \notin {"none"} \cup Dropping
  PROVE  state.refs > 0 /\ state'.refs > 0 /\ Open /\ Open'
<1>1. h \in Counted /\ h \in Counted'
  BY DEF Counted
<1>2. IsFiniteSet(Counted) /\ IsFiniteSet(Counted')
  BY HandleAssumption, FS_Subset DEF Counted
<1>3. Cardinality(Counted) # 0 /\ Cardinality(Counted') # 0
  BY <1>1, <1>2, FS_EmptySet
<1>4. state.refs \in Nat /\ state'.refs \in Nat
  BY DEF RefInv, TypeOK, Word
<1>5. QED
  BY <1>3, <1>4 DEF RefInv, RefsCountHandles, Open

\* While one handle updates, it alone has clones that are not installed.
LEMMA OneUpdate ==
  ASSUME SingleUpdater, HostInv, NEW h \in Handle, Updating(h)
  PROVE  /\ \A g \in Handle : g # h => ~Updating(g)
         /\ Incoming = IF pc[h] \in {"upd_cas", "upd_swap"} THEN {arg[h]} ELSE {}
         /\ Outgoing = IF pc[h] \in {"upd_unlock", "upd_notify", "upd_free"} THEN {old[h]} ELSE {}
<1>1. \A g \in Handle : g # h => ~Updating(g)
  BY HandleAssumption DEF SingleUpdater, HostInv, WakerInv
<1>2. QED
  BY <1>1 DEF Incoming, Outgoing, Updating, UpdateCS

\* The clones on their way stay what they are when a step leaves updates alone.
LEMMA UpdatesUntouched ==
  ASSUME NEW h \in Handle,
         \A g \in Handle : g # h => pc'[g] = pc[g],
         ~Updating(h), ~Updating(h)', UNCHANGED <<arg, old>>
  PROVE  Incoming' = Incoming /\ Outgoing' = Outgoing
<1>1. \A g \in Handle : g # h => /\ pc'[g] \in {"upd_cas", "upd_swap"} <=> pc[g] \in {"upd_cas", "upd_swap"}
                                 /\ pc'[g] \in {"upd_unlock", "upd_notify", "upd_free"}
                                      <=> pc[g] \in {"upd_unlock", "upd_notify", "upd_free"}
  OBVIOUS
<1>2. \A step \in {"upd_cas", "upd_swap", "upd_unlock", "upd_notify", "upd_free"} :
        pc[h] # step /\ pc'[h] # step
  BY DEF Updating, UpdateCS
<1>3. QED
  BY <1>1, <1>2 DEF Incoming, Outgoing

\* The steps that concern no clone: those of clone_waker and wake(), and those of update()
\* that move no clone.
Quiet(h) ==
  \/ \E g \in Handle : Clone(h, g)
  \/ \E then \in {"idle", "dec"} : WakeBegin(h, then)
  \/ WakeRetry(h) \/ WakeLock(h) \/ WakeSkip(h) \/ WakeCall(h) \/ WakeUnlock(h)
  \/ UpdateRetry(h) \/ UpdateLock(h) \/ UpdateUnlock(h) \/ UpdateNotify(h)

\* They change neither the clones nor who owns them, and the cell stays open.
LEMMA QuietSteps ==
  ASSUME HostInv, RefInv', NEW h \in Handle, Quiet(h)
  PROVE  /\ UNCHANGED <<host, data, Incoming, Outgoing, Slot>>
         /\ Open /\ Open'
         /\ state.refs > 0 /\ state'.refs > 0
<1> USE DEF HostInv, RefInv, TypeOK
<1>1. UNCHANGED <<host, data, arg, old>>
  BY HostCallDoes DEF Quiet, Clone, WakeBegin, WakeRetry, WakeLock, WakeSkip, WakeCall, WakeUnlock,
         UpdateRetry, UpdateLock, UpdateUnlock, UpdateNotify
<1>2. pc[h] \notin {"none"} \cup Dropping /\ pc'[h] \notin {"none"} \cup Dropping
  BY DEF Quiet, Clone, WakeBegin, WakeRetry, WakeLock, WakeSkip, WakeCall, WakeUnlock,
         UpdateRetry, UpdateLock, UpdateUnlock, UpdateNotify, Finish, Goto, Dropping
<1>3. \A g \in Handle : /\ pc'[g] \in {"upd_cas", "upd_swap"} <=> pc[g] \in {"upd_cas", "upd_swap"}
                        /\ pc'[g] \in {"upd_unlock", "upd_notify", "upd_free"}
                             <=> pc[g] \in {"upd_unlock", "upd_notify", "upd_free"}
  BY DEF Quiet, Clone, WakeBegin, WakeRetry, WakeLock, WakeSkip, WakeCall, WakeUnlock,
         UpdateRetry, UpdateLock, UpdateUnlock, UpdateNotify, Finish, Goto
<1>4. Incoming' = Incoming /\ Outgoing' = Outgoing
  BY <1>1, <1>3 DEF Incoming, Outgoing
<1>5. Open /\ Open' /\ state.refs > 0 /\ state'.refs > 0
  BY <1>2, CountedKeepsOpen
<1>6. Slot' = Slot
  BY <1>1, <1>5 DEF Slot
<1>7. QED
  BY <1>1, <1>4, <1>5, <1>6

--------------------------------------------------------------------------------
(* Clones do not leak *)

\* NoWakerLeak, as the steps keep it.
LEMMA LeakOfEach == TypeOK => (NoWakerLeak <=> HeldMeansOwned)
<1> SUFFICES ASSUME TypeOK PROVE NoWakerLeak <=> HeldMeansOwned
  OBVIOUS
<1>1. Owned = {IF Open THEN data ELSE NoWaker} \cup Incoming \cup Outgoing
  BY DEF Owned, Open, Incoming, Outgoing
<1>2. Incoming \subseteq CWaker \cup {NoWaker} /\ Outgoing \subseteq CWaker \cup {NoWaker}
  BY DEF TypeOK, Incoming, Outgoing
<1>3. \A w \in CWaker : w \in Owned \ {NoWaker} <=>
        (Open /\ w = data) \/ w \in Incoming \/ w \in Outgoing
  BY <1>1, HandleAssumption
<1>4. Owned \ {NoWaker} \subseteq CWaker
  BY <1>1, <1>2 DEF TypeOK
<1>5. QED
  BY <1>3, <1>4 DEF NoWakerLeak, HeldMeansOwned

\* A clone that comes in, is swapped in, is swapped out or freed, is owned by one of the
\* three until it is freed.
LEMMA LeakStep ==
  ASSUME SingleUpdater, HostInv, HostInv', HeldMeansOwned, [Next]_vars
  PROVE  HeldMeansOwned'
<1> USE DEF HostInv, RefInv, TypeOK
<1>1. ASSUME NEW h \in Handle, Quiet(h)
      PROVE  HeldMeansOwned'
  BY <1>1, QuietSteps DEF HeldMeansOwned
<1>2. ASSUME NEW h \in Handle, Dec(h)
      PROVE  HeldMeansOwned'
  <2>1. UNCHANGED <<host, data, Incoming, Outgoing>>
    BY <1>2, UpdatesUntouched DEF Dec, Goto, Updating, UpdateCS
  <2>2. Open
    <3>1. h \in Counted
      BY <1>2 DEF Dec, Counted, Dropping
    <3>2. state.refs # 0
      BY <3>1, CountedFinite
    <3>3. QED
      BY <3>2 DEF Open, Word
  <2>3. CASE Open'
    BY <2>1, <2>2, <2>3 DEF HeldMeansOwned
  <2>4. CASE ~Open'
    <3>1. state'.refs = 0 /\ pc'[h] # "drop_data"
      BY <2>4 DEF Open, Word
    <3>2. LastRef(state) /\ state.new
      BY <1>2, <3>1 DEF Dec, LastRef, Goto, Word
    <3>3. \A g \in Handle : g # h => pc'[g] = "none"
      BY <1>2, <3>2 DEF Dec, Goto, RefsCountHandles, Dropping
    <3>4. \A g \in Handle : pc[g] # "upd_unlock"
      BY <1>2, <3>3 DEF Dec, Goto
    <3>5. data = NoWaker
      BY <3>2, <3>4 DEF WakerInv, NewMeansEmpty
    <3>6. QED
      BY <2>1, <3>5, HandleAssumption DEF HeldMeansOwned
  <2>5. QED
    BY <2>3, <2>4
<1>3. ASSUME NEW h \in Handle, NEW w \in CWaker, h \in Updaters, UpdateBegin(h, w)
      PROVE  HeldMeansOwned'
  <2>1. Open /\ Open'
    BY <1>3, CountedKeepsOpen DEF UpdateBegin, Goto, Dropping
  <2>2. Incoming' = {w} /\ Outgoing' = {}
    <3>1. Updating(h)' /\ pc'[h] = "upd_cas" /\ arg'[h] = w
      BY <1>3 DEF UpdateBegin, Goto, Updating
    <3>2. \A g \in Handle : g # h => ~Updating(g)'
      BY <3>1, HandleAssumption DEF SingleUpdater, WakerInv
    <3>3. QED
      BY <3>1, <3>2 DEF Incoming, Outgoing, Updating, UpdateCS
  <2>3. Incoming = {} /\ Outgoing = {}
    <3>1. \A g \in Handle : ~Updating(g)
      BY <1>3, HandleAssumption DEF SingleUpdater, WakerInv, UpdateBegin, Updating, UpdateCS
    <3>2. QED
      BY <3>1 DEF Incoming, Outgoing, Updating, UpdateCS
  <2>4. data' = data /\ \A x \in CWaker : host'[x] = IF x = w THEN "held" ELSE host[x]
    BY <1>3 DEF UpdateBegin
  <2>5. QED
    BY <2>1, <2>2, <2>3, <2>4 DEF HeldMeansOwned
<1>4. ASSUME NEW h \in Handle, UpdateSwap(h)
      PROVE  HeldMeansOwned'
  <2>1. Open /\ Open'
    BY <1>4, CountedKeepsOpen DEF UpdateSwap, Goto, Dropping
  <2>2. Incoming = {arg[h]} /\ Outgoing = {} /\ \A g \in Handle : g # h => ~Updating(g)
    BY <1>4, OneUpdate DEF UpdateSwap, Updating, UpdateCS
  <2>3. Incoming' = {} /\ Outgoing' = {data}
    BY <1>4, <2>2 DEF UpdateSwap, Goto, Incoming, Outgoing, Updating, UpdateCS
  <2>4. data' = arg[h] /\ host' = host
    BY <1>4 DEF UpdateSwap
  <2>5. QED
    BY <2>1, <2>2, <2>3, <2>4 DEF HeldMeansOwned
<1>5. ASSUME NEW h \in Handle, UpdateFree(h)
      PROVE  HeldMeansOwned'
  <2>1. Open /\ Open'
    BY <1>5, CountedKeepsOpen DEF UpdateFree, Finish, Goto, Dropping
  <2>2. Incoming = {} /\ Outgoing = {old[h]} /\ \A g \in Handle : g # h => ~Updating(g)
    BY <1>5, OneUpdate DEF UpdateFree, Updating
  <2>3. Incoming' = {} /\ Outgoing' = {}
    BY <1>5, <2>2 DEF UpdateFree, Finish, Goto, Incoming, Outgoing, Updating, UpdateCS
  <2>4. old[h] # data /\ data' = data /\ (cur[h].new <=> old[h] = NoWaker)
    BY <1>5 DEF UpdateFree, WakerInv, OldLive
  <2>5. \A x \in CWaker : host'[x] = IF x = old[h] THEN "freed" ELSE host[x]
    BY <1>5, <2>4, HandleAssumption, HostCallDoes
  <2>6. QED
    BY <2>1, <2>2, <2>3, <2>4, <2>5 DEF HeldMeansOwned
<1>6. ASSUME NEW h \in Handle, DropData(h)
      PROVE  HeldMeansOwned'
  <2>1. Open
    BY <1>6 DEF DropData, Open
  <2>2. \A g \in Handle : g # h => pc[g] = "none"
    BY <1>6 DEF DropData, RefsCountHandles, Dropping
  <2>3. pc'[h] = "free_box" /\ \A g \in Handle : g # h => pc'[g] = "none"
    BY <1>6, <2>2 DEF DropData, Goto
  <2>4. state'.refs = 0
    <3>1. Counted' = {}
      BY <2>3 DEF Counted, Dropping
    <3>2. QED
      BY <3>1, FS_EmptySet DEF RefsCountHandles
  <2>5. ~Open'
    BY <2>3, <2>4 DEF Open
  <2>6. Incoming = {} /\ Outgoing = {} /\ Incoming' = {} /\ Outgoing' = {}
    BY <1>6, <2>2, <2>3 DEF DropData, Incoming, Outgoing
  <2>7. \A x \in CWaker : host'[x] = IF x = data THEN "freed" ELSE host[x]
    BY <1>6, HostCallDoes
  <2>8. QED
    BY <2>1, <2>5, <2>6, <2>7 DEF HeldMeansOwned
<1>7. ASSUME NEW h \in Handle, FreeBox(h)
      PROVE  HeldMeansOwned'
  <2>1. UNCHANGED <<host, data, Incoming, Outgoing>>
    BY <1>7, UpdatesUntouched DEF FreeBox, Goto, Updating, UpdateCS
  <2>2. Open' <=> Open
    BY <1>7 DEF FreeBox, Goto, Open
  <2>3. QED
    BY <2>1, <2>2 DEF HeldMeansOwned
<1>8. ASSUME UNCHANGED vars
      PROVE  HeldMeansOwned'
  BY <1>8 DEF vars, HeldMeansOwned, Open, Incoming, Outgoing
<1>9. QED
  BY <1>1, <1>2, <1>3, <1>4, <1>5, <1>6, <1>7, <1>8
     DEF Next, Begin, Continue, Terminated, Quiet

\* HostInv holds in every reachable state, as HostWakersStayLive shows.
LEMMA HostAlways ==
  ASSUME SingleUpdater
  PROVE  Spec => []HostInv
<1>1. RefInv /\ RefInv' /\ LockExclusion /\ WakerInv /\ [Next]_vars => WakerInv'
  BY WakerStep, SingleUpdater DEF HostInv
<1>2. RefInv /\ LockExclusion /\ WakerInv => HostInv
  BY DEF HostInv
<1>3. QED
  BY <1>1, <1>2, InitWaker, RefsAlways, LockIsExclusive, PTL DEF Spec

\* Every clone that the host has given out and not got back is one that the cell, or an
\* update() under way, is going to free: none is lost, whatever wake(), update() and the
\* last dec() do meanwhile, as long as one owner updates.
THEOREM ClonesDoNotLeak ==
  ASSUME SingleUpdater
  PROVE  Spec => []NoWakerLeak
<1>1. Init => HeldMeansOwned
  BY HandleAssumption DEF Init, HeldMeansOwned, Incoming, Outgoing
<1>2. HostInv /\ HostInv' /\ HeldMeansOwned /\ [Next]_vars => HeldMeansOwned'
  BY LeakStep, SingleUpdater
<1>3. HostInv /\ HeldMeansOwned => NoWakerLeak
  BY LeakOfEach DEF HostInv, RefInv
<1>4. QED
  BY <1>1, <1>2, <1>3, HostAlways, PTL DEF Spec

--------------------------------------------------------------------------------
(* The contract *)

\* The calls of the host that handles are in.
Calls == [h \in Handle |-> HostCall(h)]

\* The contract, in these terms.
Seen == INSTANCE HostWakerContract WITH
  Caller <- Handle, incoming <- Incoming, slot <- Slot, calls <- Calls

\* They are those of the cell's contract.
LEMMA SeenIsContract ==
  /\ Contract!Init <=> Seen!Init
  /\ Seen!Next => Contract!Next
  /\ UNCHANGED <<host, Incoming, Slot, Calls, owed>> => UNCHANGED Contract!vars
<1> USE DEF Incoming, Slot, Calls, Contract!NoCall, Seen!NoCall
<1>1. Contract!Init <=> Seen!Init
  BY Zenon DEF Contract!Init, Seen!Init
<1>2. Seen!Next => Contract!Next
  BY Zenon DEF Contract!Next, Seen!Next, Contract!Handover, Seen!Handover, Contract!Install,
     Seen!Install, Contract!Delegate, Seen!Delegate, Contract!Accept, Seen!Accept,
     Contract!Deliver, Seen!Deliver, Contract!Wakes, Seen!Wakes, Contract!Woken, Seen!Woken,
     Contract!Close, Seen!Close, Contract!Freed, Seen!Freed, Contract!Retire, Seen!Retire,
     Contract!Proceed, Seen!Proceed, Contract!WakeOf, Seen!WakeOf, Contract!FreeOf, Seen!FreeOf
<1>3. UNCHANGED <<host, Incoming, Slot, Calls, owed>> => UNCHANGED Contract!vars
  BY DEF Contract!vars
<1>4. QED
  BY <1>1, <1>2, <1>3

\* The call that a handle is in, at each of the places that call the host.
LEMMA CallIs ==
  ASSUME NEW h \in Handle
  PROVE  /\ pc[h] = "wake_call" => Calls[h] = IF cur[h].new THEN NoCall ELSE Seen!WakeOf(data)
         /\ pc[h] = "upd_notify" =>
              Calls[h] = IF cur[h].notified THEN Seen!WakeOf(arg[h]) ELSE NoCall
         /\ pc[h] = "upd_free" => Calls[h] = IF cur[h].new THEN NoCall ELSE Seen!FreeOf(old[h])
         /\ pc[h] = "drop_data" => Calls[h] = Seen!FreeOf(data)
         /\ pc[h] \notin {"wake_call", "upd_notify", "upd_free", "drop_data"} => Calls[h] = NoCall
BY DEF Calls, HostCall, NoCall, Seen!WakeOf, Seen!FreeOf

\* The call that it is in after a step.
LEMMA CallWillBe ==
  ASSUME NEW h \in Handle
  PROVE  /\ pc'[h] = "wake_call" =>
              Calls'[h] = IF cur'[h].new THEN NoCall ELSE Seen!WakeOf(data')
         /\ pc'[h] = "upd_notify" =>
              Calls'[h] = IF cur'[h].notified THEN Seen!WakeOf(arg'[h]) ELSE NoCall
         /\ pc'[h] = "upd_free" =>
              Calls'[h] = IF cur'[h].new THEN NoCall ELSE Seen!FreeOf(old'[h])
         /\ pc'[h] = "drop_data" => Calls'[h] = Seen!FreeOf(data')
         /\ pc'[h] \notin {"wake_call", "upd_notify", "upd_free", "drop_data"} =>
              Calls'[h] = NoCall
BY DEF Calls, HostCall, NoCall, Seen!WakeOf, Seen!FreeOf

\* Where the calls of the host are made.
InCall(h) == pc[h] \in {"wake_call", "upd_notify", "upd_free", "drop_data"}

\* A step of h leaves the calls of the others alone.
LEMMA OthersCalls ==
  ASSUME NEW h \in Handle,
         \A g \in Handle : g # h =>
           pc'[g] = pc[g] /\ cur'[g] = cur[g] /\ arg'[g] = arg[g] /\ old'[g] = old[g],
         data' = data \/ \A g \in Handle : pc[g] \notin {"wake_call", "drop_data"}
  PROVE  Calls' = [Calls EXCEPT ![h] = Calls'[h]]
<1>1. \A g \in Handle : g # h => Calls'[g] = Calls[g]
  BY DEF Calls, HostCall
<1>2. Calls = [g \in Handle |-> Calls[g]] /\ Calls' = [g \in Handle |-> Calls'[g]]
  BY DEF Calls
<1>3. QED
  BY <1>1, <1>2

\* Nothing changes when the call of h does not.
LEMMA SameCall ==
  ASSUME NEW h \in Handle, Calls' = [Calls EXCEPT ![h] = Calls'[h]], Calls'[h] = Calls[h]
  PROVE  Calls' = Calls
<1>1. Calls = [g \in Handle |-> Calls[g]]
  BY DEF Calls
<1>2. QED
  BY <1>1

\* A step of h outside of the calls leaves all of them alone.
LEMMA CallsStay ==
  ASSUME NEW h \in Handle,
         \A g \in Handle : g # h =>
           pc'[g] = pc[g] /\ cur'[g] = cur[g] /\ arg'[g] = arg[g] /\ old'[g] = old[g],
         data' = data \/ \A g \in Handle : pc[g] \notin {"wake_call", "drop_data"},
         ~InCall(h), ~InCall(h)'
  PROVE  Calls' = Calls
<1>1. Calls' = [Calls EXCEPT ![h] = Calls'[h]]
  BY OthersCalls
<1>2. Calls[h] = NoCall /\ Calls'[h] = NoCall
  BY CallIs, CallWillBe DEF InCall
<1>3. Calls = [g \in Handle |-> Calls[g]]
  BY DEF Calls
<1>4. QED
  BY <1>1, <1>2, <1>3

\* A wake that is left to an update is known to be owed; NOTIFIED stays set only under
\* LOCKED.
OwedInv ==
  /\ state.notified => state.locked
  /\ state.notified /\ (\E u \in Handle : pc[u] \in UpdateCS) => "update" \in owed

\* NOTIFIED after the accesses of wake() and update() to the word.
LEMMA NotifiedIs ==
  \A word \in Word :
    /\ Locked(word).notified = word.notified
    /\ ~WakeUnlocked(word).notified
    /\ ~UpdateUnlocked(word).notified
    /\ [word EXCEPT !.refs = @ - 1].notified = word.notified
    /\ [word EXCEPT !.refs = @ - 1].locked = word.locked
    /\ [word EXCEPT !.refs = @ + 1].notified = word.notified
    /\ [word EXCEPT !.refs = @ + 1].locked = word.locked
BY DEF Word, Locked, WakeUnlocked, UpdateUnlocked

\* A wake is owed from when it finds an update that holds the lock, and it is the update
\* itself that takes NOTIFIED back.
LEMMA OwedStep ==
  ASSUME SingleUpdater, HostInv, OwedInv, [Next]_vars
  PROVE  OwedInv'
<1> USE DEF HostInv, RefInv, TypeOK
<1>1. ASSUME state'.notified = state.notified, state'.locked = state.locked, owed' = owed,
             \A g \in Handle : pc'[g] \in UpdateCS => pc[g] \in UpdateCS
      PROVE  OwedInv'
  BY <1>1 DEF OwedInv
<1>2. ASSUME NEW h \in Handle, NEW g \in Handle, Clone(h, g)
      PROVE  OwedInv'
  <2>1. state'.notified = state.notified /\ state'.locked = state.locked /\ owed' = owed
    BY <1>2, NotifiedIs DEF Clone
  <2>2. \A x \in Handle : pc'[x] \in UpdateCS => pc[x] \in UpdateCS
    BY <1>2 DEF Clone, Goto, UpdateCS
  <2>3. QED
    BY <1>1, <2>1, <2>2
<1>3. ASSUME NEW h \in Handle, Dec(h)
      PROVE  OwedInv'
  <2>1. state'.notified = state.notified /\ state'.locked = state.locked /\ owed' = owed
    BY <1>3, NotifiedIs DEF Dec
  <2>2. \A x \in Handle : pc'[x] \in UpdateCS => pc[x] \in UpdateCS
    BY <1>3 DEF Dec, Goto, UpdateCS
  <2>3. QED
    BY <1>1, <2>1, <2>2
<1>4. ASSUME NEW h \in Handle,
             \/ \E then \in {"idle", "dec"} : WakeBegin(h, then)
             \/ \E w \in CWaker : UpdateBegin(h, w)
             \/ WakeRetry(h) \/ UpdateRetry(h) \/ UpdateFree(h) \/ DropData(h) \/ FreeBox(h)
      PROVE  OwedInv'
  <2>1. state' = state
    BY <1>4 DEF WakeBegin, UpdateBegin, WakeRetry, UpdateRetry, UpdateFree, DropData, FreeBox
  <2>2. owed' = owed
    BY <1>4, HostCallDoes DEF WakeBegin, UpdateBegin, WakeRetry, UpdateRetry, FreeBox
  <2>3. \A x \in Handle : pc'[x] \in UpdateCS => pc[x] \in UpdateCS
    BY <1>4 DEF WakeBegin, UpdateBegin, WakeRetry, UpdateRetry, UpdateFree, DropData, FreeBox,
                Finish, Goto, UpdateCS
  <2>4. QED
    BY <1>1, <2>1, <2>2, <2>3
<1>5. ASSUME NEW h \in Handle, WakeLock(h)
      PROVE  OwedInv'
  <2>1. state'.locked
    BY <1>5, LockBit DEF WakeLock
  <2>2. \A g \in Handle : pc'[g] \notin UpdateCS
    BY <1>5 DEF WakeLock, Goto, LockExclusion, InLock, UpdateCS
  <2>3. QED
    BY <2>1, <2>2 DEF OwedInv
<1>6. ASSUME NEW h \in Handle, WakeSkip(h)
      PROVE  OwedInv'
  <2>1. state'.locked /\ state.locked /\ owed' = owed \cup Deliverer
    BY <1>6, LockBit DEF WakeSkip
  <2>2. \A g \in Handle : pc'[g] \in UpdateCS => pc[g] \in UpdateCS
    BY <1>6 DEF WakeSkip, Finish, Goto, UpdateCS
  <2>3. QED
    BY <2>1, <2>2, WhoDelivers DEF OwedInv
<1>7. ASSUME NEW h \in Handle, WakeCall(h)
      PROVE  OwedInv'
  <2>1. \A g \in Handle : pc'[g] \notin UpdateCS
    BY <1>7 DEF WakeCall, Goto, LockExclusion, InLock, WakeCS, UpdateCS
  <2>2. state' = state
    BY <1>7 DEF WakeCall
  <2>3. QED
    BY <2>1, <2>2 DEF OwedInv
<1>8. ASSUME NEW h \in Handle, WakeUnlock(h) \/ UpdateUnlock(h)
      PROVE  OwedInv'
  <2>1. ~state'.notified
    BY <1>8, NotifiedIs DEF WakeUnlock, UpdateUnlock
  <2>2. QED
    BY <2>1 DEF OwedInv
<1>9. ASSUME NEW h \in Handle, UpdateLock(h)
      PROVE  OwedInv'
  <2>1. ~state'.notified
    BY <1>9, NotifiedIs DEF UpdateLock, OwedInv
  <2>2. QED
    BY <2>1 DEF OwedInv
<1>10. ASSUME NEW h \in Handle, UpdateSwap(h)
       PROVE  OwedInv'
  BY <1>10 DEF UpdateSwap, Goto, UpdateCS, OwedInv
<1>11. ASSUME NEW h \in Handle, UpdateNotify(h)
       PROVE  OwedInv'
  <2>1. \A g \in Handle : g # h => ~Updating(g)
    BY <1>11, OneUpdate DEF UpdateNotify, Updating
  <2>2. \A g \in Handle : pc'[g] \notin UpdateCS
    BY <1>11, <2>1 DEF UpdateNotify, Goto, Updating, UpdateCS
  <2>3. state' = state
    BY <1>11 DEF UpdateNotify
  <2>4. QED
    BY <2>2, <2>3 DEF OwedInv
<1>12. ASSUME UNCHANGED vars
       PROVE  OwedInv'
  BY <1>1, <1>12 DEF vars
<1>13. QED
  BY <1>2, <1>3, <1>4, <1>5, <1>6, <1>7, <1>8, <1>9, <1>10, <1>11, <1>12
     DEF Next, Begin, Continue, Terminated

\* Every operation is a step of the contract, or shows the host nothing.
LEMMA ContractStep ==
  ASSUME SingleUpdater, HostInv, HostInv', OwedInv, DelegatedWakeKept,
         HostWakersLive, HostWakersLive', [Next]_vars
  PROVE  [Contract!Next]_(Contract!vars)
<1> USE DEF HostInv, RefInv, TypeOK
<1>1. ASSUME UNCHANGED <<host, Incoming, Slot, Calls, owed>>
      PROVE  UNCHANGED Contract!vars
  BY <1>1, SeenIsContract
<1>2. ASSUME Seen!Next
      PROVE  Contract!Next
  BY <1>2, SeenIsContract
<1>3. ASSUME NEW h \in Handle,
             \/ \E then \in {"idle", "dec"} : WakeBegin(h, then)
             \/ WakeRetry(h) \/ WakeUnlock(h) \/ UpdateRetry(h) \/ UpdateLock(h)
      PROVE  UNCHANGED Contract!vars
  <2>1. UNCHANGED <<host, Incoming, Slot, data>>
    BY <1>3, QuietSteps DEF Quiet
  <2>2. ~InCall(h) /\ ~InCall(h)' /\ UNCHANGED <<arg, old, owed>>
    BY <1>3 DEF WakeBegin, WakeRetry, WakeUnlock, UpdateRetry, UpdateLock, Finish, Goto, InCall
  <2>3. \A g \in Handle : g # h => pc'[g] = pc[g] /\ cur'[g] = cur[g]
    BY <1>3 DEF WakeBegin, WakeRetry, WakeUnlock, UpdateRetry, UpdateLock, Finish, Goto
  <2>4. Calls' = Calls
    BY <2>1, <2>2, <2>3, CallsStay
  <2>5. QED
    BY <1>1, <2>1, <2>2, <2>4
<1>4. ASSUME NEW h \in Handle, NEW g \in Handle, Clone(h, g)
      PROVE  UNCHANGED Contract!vars
  <2>1. UNCHANGED <<host, Incoming, Slot, data>>
    BY <1>4, QuietSteps DEF Quiet
  <2>2. ~InCall(g) /\ ~InCall(g)' /\ UNCHANGED <<cur, arg, old, owed>>
    BY <1>4 DEF Clone, Goto, InCall
  <2>3. \A x \in Handle : x # g => pc'[x] = pc[x]
    BY <1>4 DEF Clone, Goto
  <2>4. Calls' = Calls
    BY <2>1, <2>2, <2>3, CallsStay
  <2>5. QED
    BY <1>1, <2>1, <2>2, <2>4
<1>5. ASSUME NEW h \in Handle, WakeLock(h)
      PROVE  [Contract!Next]_(Contract!vars)
  <2>1. UNCHANGED <<host, Incoming, Slot, data>> /\ state.refs > 0
    BY <1>5, QuietSteps DEF Quiet
  <2>2. /\ pc[h] = "wake_cas" /\ pc'[h] = "wake_call" /\ cur[h] = state /\ ~state.locked
        /\ UNCHANGED <<cur, arg, old>> /\ \A g \in Handle : g # h => pc'[g] = pc[g]
        /\ owed' = owed \cup Deliverer
    BY <1>5 DEF WakeLock, Goto
  <2>3. owed' = owed \cup (IF state.new THEN {} ELSE {"self"})
    BY <2>2, WhoDelivers
  <2>4. Calls[h] = NoCall /\ Calls'[h] = IF state.new THEN NoCall ELSE Seen!WakeOf(data)
    BY <2>1, <2>2, CallIs, CallWillBe
  <2>5. Calls' = [Calls EXCEPT ![h] = Calls'[h]]
    BY <2>1, <2>2, OthersCalls
  <2>6. CASE state.new
    <3>1. Calls' = Calls /\ owed' = owed
      BY <2>3, <2>4, <2>5, <2>6, SameCall
    <3>2. QED
      BY <1>1, <2>1, <3>1
  <2>7. CASE ~state.new
    <3>1. Slot = data
      BY <2>1 DEF Slot
    <3>2. data \in CWaker /\ host[data] = "held"
      <4>1. HostCall(h)' = Seen!WakeOf(data)
        BY <2>4, <2>7 DEF Calls
      <4>2. HostCall(h)' # NoCall /\ HostCall(h)'.on = data
        BY <4>1 DEF Seen!WakeOf, NoCall
      <4>3. QED
        BY <2>1, <4>2 DEF HostWakersLive
    <3>3. Seen!Accept(h)
      BY <2>1, <2>3, <2>4, <2>5, <2>7, <3>1, <3>2, HandleAssumption
         DEF Seen!Accept, Seen!Wakes, Seen!NoCall, NoCall
    <3>4. QED
      BY <1>2, <3>3 DEF Seen!Next
  <2>8. QED
    BY <2>6, <2>7
<1>6. ASSUME NEW h \in Handle, WakeSkip(h)
      PROVE  [Contract!Next]_(Contract!vars)
  <2>1. UNCHANGED <<host, Incoming, Slot, data>>
    BY <1>6, QuietSteps DEF Quiet
  <2>2. /\ ~InCall(h) /\ ~InCall(h)' /\ UNCHANGED <<arg, old>>
        /\ \A g \in Handle : g # h => pc'[g] = pc[g] /\ cur'[g] = cur[g]
    BY <1>6 DEF WakeSkip, Finish, Goto, InCall
  <2>3. Calls' = Calls
    BY <2>1, <2>2, CallsStay
  <2>4. owed' = owed \cup Deliverer /\ Deliverer \in {{}, {"update"}}
    BY <1>6, WhoDelivers DEF WakeSkip
  <2>5. CASE Deliverer = {}
    <3>1. owed' = owed
      BY <2>4, <2>5
    <3>2. QED
      BY <1>1, <2>1, <2>3, <3>1
  <2>6. CASE Deliverer = {"update"}
    <3>1. Seen!Delegate
      BY <2>1, <2>3, <2>4, <2>6 DEF Seen!Delegate
    <3>2. QED
      BY <1>2, <3>1 DEF Seen!Next
  <2>7. QED
    BY <2>4, <2>5, <2>6
<1>7. ASSUME NEW h \in Handle, WakeCall(h)
      PROVE  [Contract!Next]_(Contract!vars)
  <2>1. UNCHANGED <<host, Incoming, Slot, data>>
    BY <1>7, QuietSteps DEF Quiet
  <2>2. /\ pc[h] = "wake_call" /\ pc'[h] = "wake_unlock" /\ UNCHANGED <<cur, arg, old>>
        /\ \A g \in Handle : g # h => pc'[g] = pc[g]
    BY <1>7 DEF WakeCall, Goto
  <2>3. Calls[h] = (IF cur[h].new THEN NoCall ELSE Seen!WakeOf(data)) /\ Calls'[h] = NoCall
    BY <2>2, CallIs, CallWillBe
  <2>4. Calls' = [Calls EXCEPT ![h] = Calls'[h]]
    BY <2>1, <2>2, OthersCalls
  <2>5. owed' = IF cur[h].new THEN owed ELSE {}
    BY <1>7, HostCallDoes
  <2>6. CASE cur[h].new
    <3>1. Calls' = Calls /\ owed' = owed
      BY <2>3, <2>4, <2>5, <2>6, SameCall
    <3>2. QED
      BY <1>1, <2>1, <3>1
  <2>7. CASE ~cur[h].new
    <3>1. Seen!Woken(h)
      BY <2>1, <2>3, <2>4, <2>5, <2>7 DEF Seen!Woken, Seen!Proceed, Seen!WakeOf, Seen!NoCall, NoCall
    <3>2. QED
      BY <1>2, <3>1 DEF Seen!Next
  <2>8. QED
    BY <2>6, <2>7
<1>8. ASSUME NEW h \in Handle, UpdateUnlock(h)
      PROVE  [Contract!Next]_(Contract!vars)
  <2>1. UNCHANGED <<host, Incoming, Slot, data>> /\ state.refs > 0
    BY <1>8, QuietSteps DEF Quiet
  <2>2. /\ pc[h] = "upd_unlock" /\ pc'[h] = "upd_notify" /\ UNCHANGED <<arg, old, owed>>
        /\ cur'[h] = state
        /\ \A g \in Handle : g # h => pc'[g] = pc[g] /\ cur'[g] = cur[g]
    BY <1>8 DEF UpdateUnlock, Goto
  <2>3. data = arg[h] /\ data \in CWaker
    BY <2>2 DEF WakerInv, OldLive
  <2>4. Calls[h] = NoCall /\ Calls'[h] = IF state.notified THEN Seen!WakeOf(data) ELSE NoCall
    BY <2>2, <2>3, CallIs, CallWillBe
  <2>5. Calls' = [Calls EXCEPT ![h] = Calls'[h]]
    BY <2>1, <2>2, OthersCalls
  <2>6. CASE ~state.notified
    <3>1. Calls' = Calls
      BY <2>4, <2>5, <2>6 DEF Calls
    <3>2. QED
      BY <1>1, <2>1, <2>2, <3>1
  <2>7. CASE state.notified
    <3>1. Slot = data
      BY <2>1 DEF Slot
    <3>2. "update" \in owed
      BY <2>2, <2>7 DEF OwedInv, UpdateCS
    <3>3. host[data] = "held"
      BY <2>2, <2>3 DEF WakerInv, DataLive
    <3>4. Seen!Deliver(h)
      BY <2>1, <2>2, <2>3, <2>4, <2>5, <2>7, <3>1, <3>2, <3>3, HandleAssumption
         DEF Seen!Deliver, Seen!Wakes, Seen!NoCall, NoCall
    <3>5. QED
      BY <1>2, <3>4 DEF Seen!Next
  <2>8. QED
    BY <2>6, <2>7
<1>9. ASSUME NEW h \in Handle, UpdateNotify(h)
      PROVE  [Contract!Next]_(Contract!vars)
  <2>1. UNCHANGED <<host, Incoming, Slot, data>> /\ state.refs > 0
    BY <1>9, QuietSteps DEF Quiet
  <2>2. /\ pc[h] = "upd_notify" /\ pc'[h] = "upd_free" /\ UNCHANGED <<cur, arg, old>>
        /\ \A g \in Handle : g # h => pc'[g] = pc[g]
    BY <1>9 DEF UpdateNotify, Goto
  <2>3. /\ data = arg[h] /\ data \in CWaker /\ old[h] # data
        /\ old[h] \in CWaker => host[old[h]] = "held"
        /\ cur[h].new <=> old[h] = NoWaker
    BY <2>2 DEF WakerInv, OldLive
  <2>4. /\ Calls[h] = IF cur[h].notified THEN Seen!WakeOf(data) ELSE NoCall
        /\ Calls'[h] = IF cur[h].new THEN NoCall ELSE Seen!FreeOf(old[h])
    BY <2>2, <2>3, CallIs, CallWillBe
  <2>5. Calls' = [Calls EXCEPT ![h] = Calls'[h]]
    BY <2>1, <2>2, OthersCalls
  <2>6. owed' = IF cur[h].notified THEN {} ELSE owed
    BY <1>9, HostCallDoes
  <2>7. owed' = IF Calls[h].op = "wake" THEN {} ELSE owed
    BY <2>4, <2>6 DEF Seen!WakeOf, NoCall
  <2>8. CASE cur[h].new /\ ~cur[h].notified
    <3>1. Calls' = Calls /\ owed' = owed
      BY <2>4, <2>5, <2>6, <2>8, SameCall
    <3>2. QED
      BY <1>1, <2>1, <3>1
  <2>9. CASE cur[h].new /\ cur[h].notified
    <3>1. Calls[h].op = "wake" /\ Calls'[h] = NoCall
      BY <2>4, <2>9 DEF Seen!WakeOf
    <3>2. Seen!Woken(h)
      BY <2>1, <2>5, <2>7, <3>1 DEF Seen!Woken, Seen!Proceed, Seen!NoCall, NoCall
    <3>3. QED
      BY <1>2, <3>2 DEF Seen!Next
  <2>10. CASE ~cur[h].new
    <3>1. old[h] \in CWaker /\ host[old[h]] = "held" /\ Slot = data
      BY <2>1, <2>3, <2>10 DEF Slot
    <3>2. Incoming = {} /\ \A g \in Handle : g # h => ~Updating(g)
      BY <2>2, OneUpdate DEF Updating
    <3>3. \A g \in Handle : Calls[g].on # old[h]
      <4>1. SUFFICES ASSUME NEW g \in Handle PROVE Calls[g].on \in {data, NoWaker}
        BY <2>3, <3>1, HandleAssumption
      <4>2. CASE g = h
        BY <2>4, <4>2 DEF Seen!WakeOf, NoCall
      <4>3. CASE g # h
        <5>1. pc[g] \notin {"upd_notify", "upd_free"}
          BY <3>2, <4>3 DEF Updating
        <5>2. Calls[g] \in {NoCall, Seen!WakeOf(data), Seen!FreeOf(data)}
          BY <5>1, CallIs
        <5>3. QED
          BY <5>2 DEF Seen!WakeOf, Seen!FreeOf, NoCall
      <4>4. QED
        BY <4>2, <4>3
    <3>4. Calls[h].op # "free" /\ Calls'[h] = Seen!FreeOf(old[h])
      BY <2>4, <2>10 DEF Seen!WakeOf, NoCall
    <3>5. Seen!Retire(h, old[h])
      BY <2>1, <2>3, <2>5, <2>7, <3>1, <3>2, <3>3, <3>4 DEF Seen!Retire, Seen!Proceed
    <3>6. QED
      BY <1>2, <3>1, <3>5 DEF Seen!Next
  <2>11. QED
    BY <2>8, <2>9, <2>10
<1>10. ASSUME NEW h \in Handle, UpdateFree(h)
       PROVE  [Contract!Next]_(Contract!vars)
  <2>1. /\ pc[h] = "upd_free" /\ pc'[h] = "idle" /\ UNCHANGED <<state, data>>
        /\ \A g \in Handle : g # h =>
             pc'[g] = pc[g] /\ cur'[g] = cur[g] /\ arg'[g] = arg[g] /\ old'[g] = old[g]
    BY <1>10 DEF UpdateFree, Finish, Goto
  <2>2. Incoming = {} /\ \A g \in Handle : g # h => ~Updating(g)
    BY <2>1, OneUpdate DEF Updating
  <2>3. Incoming' = {}
    BY <2>1, <2>2 DEF Incoming, Updating, UpdateCS
  <2>4. Slot' = Slot
    BY <2>1 DEF Slot
  <2>5. Calls[h] = (IF cur[h].new THEN NoCall ELSE Seen!FreeOf(old[h])) /\ Calls'[h] = NoCall
    BY <2>1, CallIs, CallWillBe
  <2>6. Calls' = [Calls EXCEPT ![h] = Calls'[h]]
    BY <2>1, OthersCalls
  <2>7. owed' = owed /\ host' = IF cur[h].new THEN host ELSE [host EXCEPT ![old[h]] = "freed"]
    BY <1>10, HostCallDoes
  <2>8. CASE cur[h].new
    <3>1. Calls' = Calls /\ host' = host
      BY <2>5, <2>6, <2>7, <2>8, SameCall
    <3>2. QED
      BY <1>1, <2>2, <2>3, <2>4, <2>7, <3>1
  <2>9. CASE ~cur[h].new
    <3>1. Calls[h].op = "free" /\ Calls[h].on = old[h] /\ Calls[h].op # "wake"
      BY <2>5, <2>9 DEF Seen!FreeOf
    <3>2. Seen!Freed(h)
      BY <2>2, <2>3, <2>4, <2>5, <2>6, <2>7, <2>9, <3>1
         DEF Seen!Freed, Seen!Proceed, Seen!NoCall, NoCall
    <3>3. QED
      BY <1>2, <3>2 DEF Seen!Next
  <2>10. QED
    BY <2>8, <2>9
<1>11. ASSUME NEW h \in Handle, Dec(h)
       PROVE  [Contract!Next]_(Contract!vars)
  <2>1. UNCHANGED <<host, data, Incoming, owed>>
    BY <1>11, UpdatesUntouched DEF Dec, Goto, Updating, UpdateCS
  <2>2. /\ pc[h] \in {"idle", "dec"} /\ UNCHANGED <<cur, arg, old>>
        /\ \A g \in Handle : g # h => pc'[g] = pc[g]
        /\ state'.refs = state.refs - 1
        /\ pc'[h] = IF state.refs # 1 THEN "none" ELSE IF state.new THEN "free_box" ELSE "drop_data"
    BY <1>11 DEF Dec, Goto, LastRef, Word
  <2>3. state.refs # 0 /\ state.refs \in Nat
    <3>1. h \in Counted
      BY <1>11 DEF Dec, Counted, Dropping
    <3>2. QED
      BY <3>1, CountedFinite DEF Word
  <2>4. Slot = data
    BY <2>3 DEF Slot
  <2>5. CASE pc'[h] # "drop_data"
    <3>1. ~InCall(h) /\ ~InCall(h)'
      BY <2>2, <2>5 DEF InCall
    <3>2. Calls' = Calls
      BY <2>1, <2>2, <3>1, CallsStay
    <3>3. Slot' = Slot
      <4>1. CASE state.refs # 1
        BY <2>1, <2>2, <2>3, <4>1 DEF Slot
      <4>2. CASE state.refs = 1
        <5>1. state.new /\ pc'[h] = "free_box"
          BY <2>2, <2>5, <4>2
        <5>2. \A g \in Handle : g # h => pc[g] = "none"
          BY <2>2, <5>1 DEF RefsCountHandles, Dropping
        <5>3. data = NoWaker
          BY <2>2, <5>1, <5>2 DEF WakerInv, NewMeansEmpty
        <5>4. QED
          BY <2>1, <2>4, <5>3 DEF Slot
      <4>3. QED
        BY <4>1, <4>2
    <3>4. QED
      BY <1>1, <2>1, <3>2, <3>3
  <2>6. CASE pc'[h] = "drop_data"
    <3>1. state.refs = 1 /\ ~state.new
      BY <2>2, <2>6
    <3>2. Slot' = NoWaker
      BY <2>2, <3>1 DEF Slot
    <3>3. \A g \in Handle : g # h => pc[g] = "none"
      BY <2>2, <2>6 DEF RefsCountHandles, Dropping
    <3>4. data # NoWaker
      BY <2>2, <3>1, <3>3 DEF WakerInv, NewMeansEmpty
    <3>5. data \in CWaker /\ host[data] = "held"
      BY <2>2, <3>4 DEF WakerInv, DataLive
    <3>6. Incoming = {}
      BY <2>2, <3>3 DEF Incoming
    <3>7. owed = {}
      BY <2>2, <3>3 DEF DelegatedWakeKept, UpdateCS
    <3>8. \A g \in Handle : Calls[g] = NoCall
      BY <2>2, <3>3, CallIs
    <3>9. Calls'[h] = Seen!FreeOf(Slot)
      BY <2>1, <2>4, <2>6, CallWillBe
    <3>10. Calls' = [Calls EXCEPT ![h] = Calls'[h]]
      BY <2>1, <2>2, OthersCalls
    <3>11. Seen!Close(h)
      BY <2>1, <2>4, <3>2, <3>4, <3>5, <3>6, <3>7, <3>8, <3>9, <3>10
         DEF Seen!Close, Seen!Proceed, Seen!NoCall, NoCall
    <3>12. QED
      BY <1>2, <3>11 DEF Seen!Next
  <2>7. QED
    BY <2>5, <2>6
<1>12. ASSUME NEW h \in Handle, NEW w \in CWaker, h \in Updaters, UpdateBegin(h, w)
       PROVE  [Contract!Next]_(Contract!vars)
  <2>1. state.refs > 0 /\ state'.refs > 0
    BY <1>12, CountedKeepsOpen DEF UpdateBegin, Goto, Dropping
  <2>2. Slot' = Slot /\ owed' = owed
    BY <1>12, <2>1 DEF UpdateBegin, Slot
  <2>3. \A g \in Handle : ~Updating(g)
    BY <1>12, HandleAssumption DEF SingleUpdater, WakerInv, UpdateBegin, Updating, UpdateCS
  <2>4. /\ pc[h] = "idle" /\ pc'[h] = "upd_cas" /\ arg'[h] = w /\ UNCHANGED <<data, old>>
        /\ \A g \in Handle : g # h => pc'[g] = pc[g] /\ cur'[g] = cur[g] /\ arg'[g] = arg[g]
    BY <1>12 DEF UpdateBegin, Goto
  <2>5. Incoming = {} /\ Incoming' = {w}
    BY <2>3, <2>4 DEF Incoming, Updating, UpdateCS
  <2>6. ~InCall(h) /\ ~InCall(h)'
    BY <2>4 DEF InCall
  <2>7. Calls' = Calls
    BY <2>4, <2>6, CallsStay
  <2>8. Seen!Handover(w)
    BY <1>12, <2>2, <2>5, <2>7 DEF UpdateBegin, Seen!Handover
  <2>9. QED
    BY <1>2, <2>8 DEF Seen!Next
<1>13. ASSUME NEW h \in Handle, UpdateSwap(h)
       PROVE  [Contract!Next]_(Contract!vars)
  <2>1. state'.refs > 0
    BY <1>13, CountedKeepsOpen DEF UpdateSwap, Goto, Dropping
  <2>2. Incoming = {arg[h]} /\ \A g \in Handle : g # h => ~Updating(g)
    BY <1>13, OneUpdate DEF UpdateSwap, Updating, UpdateCS
  <2>3. /\ pc[h] = "upd_swap" /\ pc'[h] = "upd_unlock" /\ UNCHANGED <<cur, arg, host, owed>>
        /\ data' = arg[h]
        /\ \A g \in Handle : g # h => pc'[g] = pc[g] /\ old'[g] = old[g]
    BY <1>13 DEF UpdateSwap, Goto
  <2>4. Incoming' = {}
    BY <2>2, <2>3 DEF Incoming, Updating, UpdateCS
  <2>5. arg[h] \in CWaker
    BY <2>3 DEF WakerInv, ArgLive
  <2>6. Slot' = arg[h]
    BY <2>1, <2>3 DEF Slot
  <2>7. \A g \in Handle : pc[g] \notin {"wake_call", "upd_notify", "drop_data"}
    <3>1. \A g \in Handle : pc[g] # "wake_call"
      BY <2>3 DEF LockExclusion, InLock, WakeCS, UpdateCS
    <3>2. \A g \in Handle : pc[g] # "upd_notify"
      BY <2>2, <2>3 DEF Updating
    <3>3. \A g \in Handle : pc[g] # "drop_data"
      BY <2>3 DEF RefsCountHandles, Dropping
    <3>4. QED
      BY <3>1, <3>2, <3>3
  <2>8. \A g \in Handle : Calls[g].op # "wake"
    <3>1. \A g \in Handle : Calls[g] = NoCall \/ Calls[g] = Seen!FreeOf(old[g])
      BY <2>7, CallIs
    <3>2. \A g \in Handle : NoCall.op # "wake" /\ Seen!FreeOf(old[g]).op # "wake"
      BY DEF NoCall, Seen!FreeOf
    <3>3. QED
      BY <3>1, <3>2, Zenon
  <2>9. ~InCall(h) /\ ~InCall(h)'
    BY <2>3 DEF InCall
  <2>10. Calls' = Calls
    BY <2>3, <2>7, <2>9, CallsStay
  <2>11. Seen!Install(arg[h])
    BY <2>2, <2>3, <2>4, <2>6, <2>8, <2>10 DEF Seen!Install
  <2>12. QED
    BY <1>2, <2>5, <2>11 DEF Seen!Next
<1>14. ASSUME NEW h \in Handle, DropData(h)
       PROVE  [Contract!Next]_(Contract!vars)
  <2>1. /\ pc[h] = "drop_data" /\ pc'[h] = "free_box" /\ UNCHANGED <<state, data, cur, arg, old>>
        /\ \A g \in Handle : g # h => pc'[g] = pc[g]
    BY <1>14 DEF DropData, Goto
  <2>2. Incoming' = Incoming
    BY <2>1, UpdatesUntouched DEF Updating, UpdateCS
  <2>3. Slot' = Slot
    BY <2>1 DEF Slot
  <2>4. Calls[h] = Seen!FreeOf(data) /\ Calls'[h] = NoCall
    BY <2>1, CallIs, CallWillBe
  <2>5. Calls' = [Calls EXCEPT ![h] = Calls'[h]]
    BY <2>1, OthersCalls
  <2>6. owed' = owed /\ host' = [host EXCEPT ![data] = "freed"]
    BY <1>14, HostCallDoes
  <2>7. Calls[h].op = "free" /\ Calls[h].on = data /\ Calls[h].op # "wake"
    BY <2>4 DEF Seen!FreeOf
  <2>8. Seen!Freed(h)
    BY <2>2, <2>3, <2>4, <2>5, <2>6, <2>7 DEF Seen!Freed, Seen!Proceed, Seen!NoCall, NoCall
  <2>9. QED
    BY <1>2, <2>8 DEF Seen!Next
<1>15. ASSUME NEW h \in Handle, FreeBox(h)
       PROVE  UNCHANGED Contract!vars
  <2>1. /\ ~InCall(h) /\ ~InCall(h)' /\ UNCHANGED <<state, data, cur, arg, old, host, owed>>
        /\ \A g \in Handle : g # h => pc'[g] = pc[g]
    BY <1>15 DEF FreeBox, Goto, InCall
  <2>2. Incoming' = Incoming
    BY <1>15, UpdatesUntouched DEF FreeBox, Goto, Updating, UpdateCS
  <2>3. Slot' = Slot
    BY <2>1 DEF Slot
  <2>4. Calls' = Calls
    BY <2>1, CallsStay
  <2>5. QED
    BY <1>1, <2>1, <2>2, <2>3, <2>4
<1>16. ASSUME UNCHANGED vars
       PROVE  UNCHANGED Contract!vars
  <2>1. UNCHANGED <<host, Incoming, Slot, owed>>
    BY <1>16 DEF vars, Incoming, Slot
  <2>2. Calls' = Calls
    BY <1>16 DEF vars, Calls, HostCall
  <2>3. QED
    BY <1>1, <2>1, <2>2
<1>17. QED
  BY <1>3, <1>4, <1>5, <1>6, <1>7, <1>8, <1>9, <1>10, <1>11, <1>12, <1>13, <1>14, <1>15, <1>16
     DEF Next, Begin, Continue, Terminated

\* A single owner's cell keeps its contract with the host, whatever the other handles do
\* meanwhile: wakes, its own and those left to its updates, reach the clone that is
\* installed from when the call begins until it returns; each clone is freed in one call,
\* after it was replaced or with the cell, while no other call on it is under way; and the
\* cell goes when no wake is owed.
THEOREM CellKeepsContract ==
  ASSUME SingleUpdater
  PROVE  Spec => KeepsContract
<1>1. Init => Contract!Init /\ OwedInv
  <2> SUFFICES ASSUME Init PROVE Contract!Init /\ OwedInv
    OBVIOUS
  <2>1. Incoming = {} /\ Slot = NoWaker
    BY HandleAssumption DEF Init, NewWord, Incoming, Slot
  <2>2. Calls = [h \in Handle |-> Seen!NoCall]
    BY DEF Init, Calls, HostCall, NoCall, Seen!NoCall
  <2>3. Seen!Init
    BY <2>1, <2>2 DEF Init, Seen!Init
  <2>4. OwedInv
    BY DEF Init, NewWord, OwedInv
  <2>5. QED
    BY <2>3, <2>4, SeenIsContract
<1>2. HostInv /\ HostInv' /\ OwedInv /\ DelegatedWakeKept /\ HostWakersLive /\ HostWakersLive'
        /\ [Next]_vars => [Contract!Next]_(Contract!vars)
  BY ContractStep, SingleUpdater
<1>3. HostInv /\ OwedInv /\ [Next]_vars => OwedInv'
  BY OwedStep, SingleUpdater
<1>4. Spec => []HostWakersLive
  BY HostWakersStayLive, SingleUpdater
<1>5. QED
  BY <1>1, <1>2, <1>3, <1>4, HostAlways, WakesAreNotDropped, PTL
     DEF Spec, KeepsContract, Contract!Spec

================================================================================
