---------------------------- MODULE FFIFuture_proofs ----------------------------
(***************************************************************************)
(* Proofs about a future driven across the C ABI: that it uses the waker   *)
(* cell as the cell's own specification says, whose theorems it therefore  *)
(* has, that only the host drops the future, and that the fingerprint      *)
(* never keeps a clone of another waker.                                   *)
(***************************************************************************)
EXTENDS FFIFuture, FiniteSetTheorems, TLAPS

\* The cell with the theorems about it.
CP == INSTANCE HostWakerContract_proofs WITH Updaters <- {Base}

--------------------------------------------------------------------------------
(* The two instances of the cell *)

\* The cell's assumption about its handles holds of those of a future.
LEMMA CellAssumption == CP!HandleAssumption
<1>1. IsFiniteSet({Base, Raw})
  <2>1. IsFiniteSet({Base}) BY FS_Singleton
  <2>2. {Base, Raw} = {Base} \cup {Raw} OBVIOUS
  <2> QED BY <2>1, <2>2, FS_AddElement
<1>2. IsFiniteSet(Handle) BY <1>1, FutureAssumption, FS_Union DEF FutureAssumption, Handle
<1>3. CP!IsFiniteSet(Handle) BY Zenon, <1>2 DEF IsFiniteSet, CP!IsFiniteSet
<1>4. Base \in Handle BY DEF Handle
<1> QED BY <1>3, <1>4, FutureAssumption DEF FutureAssumption, CP!HandleAssumption

\* They begin alike.
LEMMA SameInit == Cell!Init <=> CP!Init
BY Zenon DEF Cell!Init, CP!Init, Cell!NewWord, CP!NewWord

\* They have the same types.
LEMMA SameTypes == Cell!TypeOK <=> CP!TypeOK
BY Zenon DEF Cell!TypeOK, CP!TypeOK, Cell!Word, CP!Word, Cell!Location, CP!Location, Cell!WakeCS,
             CP!WakeCS, Cell!UpdateCS, CP!UpdateCS, Cell!Dropping, CP!Dropping

\* An operation begins alike in both.
LEMMA SameBegin ==
  ASSUME NEW h
  PROVE  /\ \A g : Cell!Clone(h, g) <=> CP!Clone(h, g)
         /\ \A then : Cell!WakeBegin(h, then) <=> CP!WakeBegin(h, then)
         /\ Cell!Dec(h) <=> CP!Dec(h)
         /\ \A w : Cell!UpdateBegin(h, w) <=> CP!UpdateBegin(h, w)
<1> USE DEF Cell!Goto, CP!Goto
<1>1. \A g : Cell!Clone(h, g) <=> CP!Clone(h, g) BY Zenon DEF Cell!Clone, CP!Clone
<1>2. \A then : Cell!WakeBegin(h, then) <=> CP!WakeBegin(h, then)
  BY Zenon DEF Cell!WakeBegin, CP!WakeBegin
<1>3. Cell!Dec(h) <=> CP!Dec(h) BY Zenon DEF Cell!Dec, CP!Dec, Cell!LastRef, CP!LastRef
<1>4. \A w : Cell!UpdateBegin(h, w) <=> CP!UpdateBegin(h, w)
  BY Zenon DEF Cell!UpdateBegin, CP!UpdateBegin
<1> QED BY <1>1, <1>2, <1>3, <1>4

\* It goes on alike.
LEMMA SameContinue ==
  ASSUME NEW h
  PROVE  Cell!Continue(h) <=> CP!Continue(h)
<1> USE DEF Cell!Goto, CP!Goto, Cell!Finish, CP!Finish, Cell!NewWord, CP!NewWord
<1>1. Cell!Deliverer = CP!Deliverer
  BY Zenon DEF Cell!Deliverer, CP!Deliverer, Cell!UpdateCS, CP!UpdateCS
<1>2. \A word : /\ Cell!Locked(word) = CP!Locked(word)
                /\ Cell!WakeWord(word) = CP!WakeWord(word)
                /\ Cell!WakeUnlocked(word) = CP!WakeUnlocked(word)
                /\ Cell!UpdateUnlocked(word) = CP!UpdateUnlocked(word)
  BY Zenon DEF Cell!Locked, CP!Locked, Cell!WakeWord, CP!WakeWord, Cell!WakeUnlocked,
               CP!WakeUnlocked, Cell!UpdateUnlocked, CP!UpdateUnlocked
<1>16. Cell!CallHost(h) <=> CP!CallHost(h)
  <2>1. Cell!HostCall(h) = CP!HostCall(h)
    BY Zenon DEF Cell!HostCall, CP!HostCall, Cell!NoCall, CP!NoCall
  <2> QED BY Zenon, <2>1 DEF Cell!CallHost, CP!CallHost
<1>3. Cell!WakeRetry(h) <=> CP!WakeRetry(h) BY Zenon DEF Cell!WakeRetry, CP!WakeRetry
<1>4. Cell!WakeLock(h) <=> CP!WakeLock(h) BY Zenon, <1>1, <1>2 DEF Cell!WakeLock, CP!WakeLock
<1>5. Cell!WakeSkip(h) <=> CP!WakeSkip(h) BY Zenon, <1>1, <1>2 DEF Cell!WakeSkip, CP!WakeSkip
<1>6. Cell!WakeCall(h) <=> CP!WakeCall(h) BY Zenon, <1>16 DEF Cell!WakeCall, CP!WakeCall
<1>7. Cell!WakeUnlock(h) <=> CP!WakeUnlock(h) BY Zenon, <1>2 DEF Cell!WakeUnlock, CP!WakeUnlock
<1>8. Cell!UpdateRetry(h) <=> CP!UpdateRetry(h) BY Zenon DEF Cell!UpdateRetry, CP!UpdateRetry
<1>9. Cell!UpdateLock(h) <=> CP!UpdateLock(h) BY Zenon, <1>2 DEF Cell!UpdateLock, CP!UpdateLock
<1>10. Cell!UpdateSwap(h) <=> CP!UpdateSwap(h) BY Zenon DEF Cell!UpdateSwap, CP!UpdateSwap
<1>11. Cell!UpdateUnlock(h) <=> CP!UpdateUnlock(h)
  BY Zenon, <1>2 DEF Cell!UpdateUnlock, CP!UpdateUnlock
<1>12. Cell!UpdateNotify(h) <=> CP!UpdateNotify(h)
  BY Zenon, <1>16 DEF Cell!UpdateNotify, CP!UpdateNotify
<1>13. Cell!UpdateFree(h) <=> CP!UpdateFree(h) BY Zenon, <1>16 DEF Cell!UpdateFree, CP!UpdateFree
<1>14. Cell!DropData(h) <=> CP!DropData(h) BY Zenon, <1>16 DEF Cell!DropData, CP!DropData
<1>15. Cell!FreeBox(h) <=> CP!FreeBox(h) BY Zenon DEF Cell!FreeBox, CP!FreeBox
<1> QED BY Zenon, <1>3, <1>4, <1>5, <1>6, <1>7, <1>8, <1>9, <1>10, <1>11, <1>12, <1>13, <1>14, <1>15
           DEF Cell!Continue, CP!Continue

\* The two cells behave alike.
LEMMA SameSpec == Cell!Spec => CP!Spec
<1>1. Cell!Init => CP!Init BY SameInit
<1>2. \A h : Cell!Begin(h) => CP!Begin(h)
  BY Zenon, SameBegin DEF Cell!Begin, CP!Begin
<1>3. Cell!Terminated => CP!Terminated
  BY Zenon DEF Cell!Terminated, CP!Terminated, Cell!vars, CP!vars
<1>4. Cell!Next => CP!Next
  BY Zenon, <1>2, <1>3, SameContinue DEF Cell!Next, CP!Next
<1>5. [Cell!Next]_(Cell!vars) => [CP!Next]_(CP!vars)
  BY <1>4 DEF Cell!vars, CP!vars
<1> QED BY <1>1, <1>5, PTL DEF Cell!Spec, CP!Spec

--------------------------------------------------------------------------------
(* The future uses the cell *)

\* What a step of the host, the executor or a source does to the cell is one of the
\* cell's operations, or nothing.
LEMMA StepsCell ==
  ASSUME [Next]_vars
  PROVE  [Cell!Next]_(Cell!vars)
<1>1. ASSUME UNCHANGED cell PROVE UNCHANGED Cell!vars BY <1>1 DEF cell, Cell!vars
<1>2. Base \in Handle /\ Raw \in Handle /\ Source \subseteq Handle BY DEF Handle
<1>3. ASSUME NEW h \in Handle, NEW g \in Handle, Cell!Clone(h, g) PROVE Cell!Next
  BY Zenon, <1>3 DEF Cell!Next, Cell!Begin
<1>4. ASSUME NEW h \in Handle, Cell!Dec(h) PROVE Cell!Next
  BY Zenon, <1>4 DEF Cell!Next, Cell!Begin
<1>5. ASSUME NEW h \in Handle, NEW t \in {"idle", "dec"}, Cell!WakeBegin(h, t) PROVE Cell!Next
  BY Zenon, <1>5 DEF Cell!Next, Cell!Begin
<1>6. ASSUME NEW w \in CWaker, Cell!UpdateBegin(Base, w) PROVE Cell!Next
  BY Zenon, <1>2, <1>6 DEF Cell!Next, Cell!Begin
<1>7. ASSUME NEW h \in Handle, Cell!Continue(h) PROVE Cell!Next
  BY Zenon, <1>7 DEF Cell!Next
<1>8. ASSUME HostStep PROVE [Cell!Next]_(Cell!vars)
  <2>1. CASE New BY Zenon, <1>2, <1>3, <2>1 DEF New
  <2>2. CASE PollBegin \/ KeepWaker \/ WakerSent \/ Wait \/ Pending \/ Ready \/ DropFuture
    BY Zenon, <1>1, <2>2 DEF PollBegin, KeepWaker, WakerSent, Collect, Wait, Pending, Ready, DropFuture
  <2>3. ASSUME NEW w \in CWaker, SendWaker(w) PROVE Cell!Next BY Zenon, <1>6, <2>3 DEF SendWaker
  <2>4. ASSUME NEW s \in Source, Visit(s) PROVE Cell!Next \/ UNCHANGED cell
    <3>1. Cell!Clone(Raw, s) \/ UNCHANGED cell BY Zenon, <2>4 DEF Visit
    <3> QED BY Zenon, <1>2, <1>3, <3>1
  <2>5. CASE Yield BY Zenon, <1>2, <1>5, <2>5 DEF Yield
  <2>6. CASE DropRaw \/ DropBase BY Zenon, <1>2, <1>4, <2>6 DEF DropRaw, DropBase
  <2> QED BY Zenon, <1>1, <1>8, <2>1, <2>2, <2>3, <2>4, <2>5, <2>6 DEF HostStep
<1>9. ASSUME NEW s \in Source, Fire(s) PROVE Cell!Next \/ UNCHANGED cell
  <2>1. Cell!WakeBegin(s, "dec") \/ UNCHANGED cell BY Zenon, <1>9 DEF Fire
  <2> QED BY Zenon, <1>2, <1>5, <2>1
<1>10. ASSUME NEW s \in Source, Cancel(s) PROVE Cell!Next
  BY Zenon, <1>2, <1>4, <1>10 DEF Cancel
<1>11. ASSUME NEW h \in Handle, CellStep(h) PROVE Cell!Next
  BY Zenon, <1>4, <1>7, <1>11 DEF CellStep
<1>12. ASSUME NEW c \in Ctx, Retire(c) \/ \E a \in Addr : Move(c, a) PROVE UNCHANGED cell
  BY Zenon, <1>12 DEF Retire, Move
<1>13. CASE Drop BY <1>1, <1>13 DEF Drop
<1>14. CASE UNCHANGED vars BY <1>1, <1>14 DEF vars
<1> QED BY Zenon, <1>1, <1>8, <1>9, <1>10, <1>11, <1>12, <1>13, <1>14 DEF Next, Terminated

\* The host, the executor and the sources use the waker cell as its own specification has
\* it: create_future, poll and the drop of the FFIFuture, with the wakers they hand out,
\* make one updater, counted clones, and no operation on a handle that is not there.
THEOREM FutureDrivesCell == Spec => DrivesCell
<1>1. Init => Cell!Init BY DEF Init
<1> QED BY <1>1, StepsCell, PTL DEF Spec, DrivesCell, Cell!Spec

\* The two cells have the same invariants.
LEMMA CellHolds == Spec => [](CP!HostInv)
<1>1. CP!HandleAssumption BY CellAssumption
<1>2. CP!SingleUpdater BY DEF CP!SingleUpdater
<1>3. CP!Spec => []CP!HostInv BY <1>1, <1>2, CP!HostAlways
<1> QED BY <1>3, FutureDrivesCell, SameSpec, PTL DEF DrivesCell

\* The cell under a future loses no clone of the executor's wakers, drops no wake that it
\* has accepted, and keeps its contract with the executor: what is proved of any use of the
\* cell by one updater holds of this one.
THEOREM FutureKeepsCell ==
  Spec => /\ [](CP!NoWakerLeak /\ CP!DelegatedWakeKept /\ CP!BoxOutlivesHandles /\ CP!HostWakersLive)
          /\ CP!KeepsContract
<1>1. CP!HandleAssumption BY CellAssumption
<1>2. CP!SingleUpdater BY DEF CP!SingleUpdater
<1>3. CP!Spec => []CP!NoWakerLeak BY <1>1, <1>2, CP!ClonesDoNotLeak
<1>4. CP!Spec => []CP!DelegatedWakeKept BY <1>1, CP!WakesAreNotDropped
<1>5. CP!Spec => []CP!BoxOutlivesHandles BY <1>1, CP!BoxOutlives
<1>6. CP!Spec => []CP!HostWakersLive BY <1>1, <1>2, CP!HostWakersStayLive
<1>7. CP!Spec => CP!KeepsContract BY <1>1, <1>2, CP!CellKeepsContract
<1> QED BY <1>3, <1>4, <1>5, <1>6, <1>7, FutureDrivesCell, SameSpec, PTL DEF DrivesCell

--------------------------------------------------------------------------------
(* The reference of the host *)

\* Where update() is.
Updating == {"upd_cas", "upd_swap", "upd_unlock", "upd_notify", "upd_free"}

\* Only the host updates, through the reference that it keeps until it has dropped the
\* future.
BaseInv ==
  /\ hpc # "done" => pc[Base] \in {"idle"} \cup Updating
  /\ hpc \notin {"update", "done"} => pc[Base] = "idle"
  /\ \A h \in Handle \ {Base} : pc[h] \notin Updating
  /\ hpc \in {"drop_base", "done"} <=> ~future

\* A step that concerns other handles than the host's: it stores no clone and takes none.
BaseUntouched ==
  /\ pc'[Base] = pc[Base]
  /\ \A h \in Handle \ {Base} : pc'[h] \notin Updating
  /\ data' = data
  /\ arg'[Base] = arg[Base]
  /\ \A w \in CWaker : host'[w] = "held" => host[w] = "held"

\* The calls of the host only free, and none but that of the last dec() unless it updates.
LEMMA CallFrees ==
  ASSUME NEW h
  PROVE  /\ Cell!WakeCall(h) => host' = host
         /\ Cell!DropData(h) => host' = [host EXCEPT ![data] = "freed"]
         /\ Cell!UpdateNotify(h) => host' = host
         /\ Cell!UpdateFree(h) => host' = host \/ host' = [host EXCEPT ![old[h]] = "freed"]
<1> USE DEF Cell!CallHost, Cell!HostCall, Cell!NoCall
<1>1. Cell!WakeCall(h) => host' = host BY DEF Cell!WakeCall
<1>2. Cell!DropData(h) => host' = [host EXCEPT ![data] = "freed"] BY DEF Cell!DropData
<1>3. Cell!UpdateNotify(h) => host' = host BY DEF Cell!UpdateNotify
<1>4. Cell!UpdateFree(h) => host' = host \/ host' = [host EXCEPT ![old[h]] = "freed"]
  BY DEF Cell!UpdateFree
<1> QED BY <1>1, <1>2, <1>3, <1>4

\* A step of another handle is one.
LEMMA OtherHandle ==
  ASSUME Cell!TypeOK, BaseInv, NEW h \in Handle \ {Base},
         Cell!Continue(h) \/ Cell!Dec(h) \/ \E t \in {"idle", "dec"} : Cell!WakeBegin(h, t)
  PROVE  BaseUntouched
<1>1. pc[h] \notin Updating BY DEF BaseInv
<1>2. pc \in [Handle -> Cell!Location] /\ ret[h] \in {"idle", "dec"} BY DEF Cell!TypeOK
<1>3. \A g \in Handle \ {Base} : pc[g] \notin Updating BY DEF BaseInv
<1>4. Base \in Handle BY DEF Handle
<1>5. \E loc : loc \notin Updating /\ pc' = [pc EXCEPT ![h] = loc]
  <2>1. CASE Cell!WakeRetry(h) \/ Cell!UpdateRetry(h)
    <3>1. pc' = pc BY <2>1 DEF Cell!WakeRetry, Cell!UpdateRetry
    <3> QED BY <1>1, <1>2, <3>1
  <2>2. CASE Cell!Dec(h)
    BY <2>2 DEF Cell!Dec, Cell!Goto, Updating
  <2>3. CASE \E t \in {"idle", "dec"} : Cell!WakeBegin(h, t)
    BY <2>3 DEF Cell!WakeBegin, Cell!Goto, Updating
  <2>4. CASE Cell!WakeLock(h) \/ Cell!WakeCall(h) \/ Cell!DropData(h) \/ Cell!FreeBox(h)
    BY <2>4 DEF Cell!WakeLock, Cell!WakeCall, Cell!DropData, Cell!FreeBox, Cell!Goto, Updating
  <2>5. CASE Cell!WakeSkip(h) \/ Cell!WakeUnlock(h)
    BY <1>2, <2>5 DEF Cell!WakeSkip, Cell!WakeUnlock, Cell!Finish, Cell!Goto, Updating
  <2>6. CASE Cell!UpdateLock(h) \/ Cell!UpdateSwap(h) \/ Cell!UpdateUnlock(h) \/ Cell!UpdateNotify(h) \/ Cell!UpdateFree(h)
    BY <1>1, <2>6 DEF Cell!UpdateLock, Cell!UpdateSwap, Cell!UpdateUnlock, Cell!UpdateNotify,
                      Cell!UpdateFree, Updating
  <2> QED BY <2>1, <2>2, <2>3, <2>4, <2>5, <2>6, Zenon DEF Cell!Continue
<1>6. data' = data /\ arg' = arg /\ (host' = host \/ host' = [host EXCEPT ![data] = "freed"])
  BY <1>1, CallFrees DEF Cell!Continue, Cell!WakeRetry, Cell!WakeLock, Cell!WakeSkip, Cell!WakeCall, Cell!WakeUnlock,
              Cell!UpdateRetry, Cell!UpdateLock, Cell!UpdateSwap, Cell!UpdateUnlock, Cell!UpdateNotify,
              Cell!UpdateFree, Cell!DropData, Cell!FreeBox, Cell!Dec, Cell!WakeBegin, Updating
<1>7. \A w \in CWaker : host'[w] = "held" => host[w] = "held" BY <1>6 DEF Cell!TypeOK
<1>8. pc'[Base] = pc[Base] /\ \A g \in Handle \ {Base} : pc'[g] \notin Updating
  BY <1>2, <1>3, <1>4, <1>5
<1> QED BY <1>6, <1>7, <1>8 DEF BaseUntouched

\* So is one that makes a handle.
LEMMA NewHandle ==
  ASSUME Cell!TypeOK, BaseInv, hpc # "done", NEW h, NEW g \in Handle, Cell!Clone(h, g)
  PROVE  BaseUntouched
<1>1. pc \in [Handle -> Cell!Location] /\ pc' = [pc EXCEPT ![g] = "idle"] /\ pc[g] = "none"
  BY DEF Cell!TypeOK, Cell!Clone, Cell!Goto
<1>2. g # Base BY <1>1 DEF BaseInv, Updating
<1>3. UNCHANGED <<data, arg, host>> BY DEF Cell!Clone
<1>4. Base \in Handle BY DEF Handle
<1>5. \A k \in Handle \ {Base} : pc'[k] \notin Updating BY <1>1 DEF BaseInv, Updating
<1> QED BY <1>1, <1>2, <1>3, <1>4, <1>5 DEF BaseUntouched

\* And one that leaves the cell alone.
LEMMA NoHandle ==
  ASSUME BaseInv, UNCHANGED cell
  PROVE  BaseUntouched
BY DEF BaseInv, BaseUntouched, cell

\* A step of the cell that the host's reference takes is one of update(), unless the host
\* is done with it.
LEMMA BaseContinues ==
  ASSUME BaseInv, hpc # "done", Cell!Continue(Base)
  PROVE  \/ Cell!UpdateRetry(Base) \/ Cell!UpdateLock(Base) \/ Cell!UpdateSwap(Base)
         \/ Cell!UpdateUnlock(Base) \/ Cell!UpdateNotify(Base) \/ Cell!UpdateFree(Base)
<1>1. pc[Base] \in {"idle"} \cup Updating BY DEF BaseInv
<1> QED
  BY <1>1 DEF Cell!Continue, Cell!WakeRetry, Cell!WakeLock, Cell!WakeSkip, Cell!WakeCall,
              Cell!WakeUnlock, Cell!DropData, Cell!FreeBox, Updating

\* What a step does to the cell, seen from the host's reference: it concerns others, or the
\* host begins an update, goes on with it, or is done.
LEMMA StepsBase ==
  ASSUME Cell!TypeOK, BaseInv, [Next]_vars
  PROVE  \/ BaseUntouched
         \/ \E w \in CWaker : SendWaker(w)
         \/ CellStep(Base)
         \/ DropBase
<1>1. Raw \in Handle \ {Base} /\ Source \subseteq Handle \ {Base}
  BY FutureAssumption DEF FutureAssumption, Handle
<1>2. ASSUME UNCHANGED cell PROVE BaseUntouched BY <1>2, NoHandle
<1>3. CASE New
  <2>1. Cell!Clone(Base, Raw) /\ hpc # "done" BY <1>3 DEF New
  <2> QED BY <1>1, <2>1, NewHandle
<1>4. CASE PollBegin \/ KeepWaker \/ WakerSent \/ Wait \/ Pending \/ Ready \/ DropFuture \/ Drop
  <2>1. UNCHANGED cell
    BY <1>4, Zenon DEF PollBegin, KeepWaker, WakerSent, Collect, Wait, Pending, Ready, DropFuture, Drop
  <2> QED BY <1>2, <2>1
<1>5. ASSUME NEW s \in Source, Visit(s) PROVE BaseUntouched
  <2>1. hpc # "done" /\ (Cell!Clone(Raw, s) \/ UNCHANGED cell) BY <1>5, Zenon DEF Visit
  <2> QED BY <1>1, <1>2, <2>1, NewHandle
<1>6. CASE Yield
  <2>1. Cell!WakeBegin(Raw, "idle") BY <1>6 DEF Yield
  <2> QED BY <1>1, <2>1, OtherHandle
<1>7. CASE DropRaw
  <2>1. Cell!Dec(Raw) BY <1>7 DEF DropRaw
  <2> QED BY <1>1, <2>1, OtherHandle
<1>8. ASSUME NEW s \in Source, Fire(s) PROVE BaseUntouched
  <2>1. Cell!WakeBegin(s, "dec") \/ UNCHANGED cell BY <1>8, Zenon DEF Fire
  <2> QED BY <1>1, <1>2, <2>1, OtherHandle
<1>9. ASSUME NEW s \in Source, Cancel(s) PROVE BaseUntouched
  <2>1. Cell!Dec(s) BY <1>9 DEF Cancel
  <2> QED BY <1>1, <2>1, OtherHandle
<1>10. ASSUME NEW h \in Handle, CellStep(h), h # Base PROVE BaseUntouched
  <2>1. Cell!Continue(h) \/ Cell!Dec(h) BY <1>10 DEF CellStep
  <2> QED BY <1>10, <2>1, OtherHandle
<1>11. ASSUME NEW c \in Ctx, Retire(c) \/ \E a \in Addr : Move(c, a) PROVE BaseUntouched
  <2>1. UNCHANGED cell BY Zenon, <1>11 DEF Retire, Move
  <2> QED BY <1>2, <2>1
<1>12. CASE UNCHANGED vars BY <1>2, <1>12 DEF vars
<1> QED BY Zenon, <1>3, <1>4, <1>5, <1>6, <1>7, <1>8, <1>9, <1>10, <1>11, <1>12
           DEF Next, HostStep, Terminated

\* Steps that change neither where the host is nor whether the future is dropped.
LEMMA HostStays ==
  ASSUME [Next]_vars
  PROVE  \/ hpc' = hpc /\ future' = future
         \/ New \/ PollBegin \/ KeepWaker \/ WakerSent \/ (\E w \in CWaker : SendWaker(w))
         \/ Yield \/ Wait \/ Pending \/ Ready \/ Drop \/ DropRaw \/ DropFuture \/ DropBase
<1> DEFINE Same == hpc' = hpc /\ future' = future
<1>1. ASSUME NEW s \in Source, Visit(s) \/ Fire(s) \/ Cancel(s) PROVE Same
  BY <1>1 DEF Visit, Fire, Cancel
<1>2. ASSUME NEW h \in Handle, CellStep(h) PROVE Same BY <1>2 DEF CellStep
<1>3. ASSUME NEW c \in Ctx, Retire(c) \/ \E a \in Addr : Move(c, a) PROVE Same
  BY <1>3, Zenon DEF Retire, Move
<1>4. ASSUME UNCHANGED vars PROVE Same BY <1>4 DEF vars
<1> HIDE DEF Same
<1>5. Same \/ HostStep \/ Drop
  BY Zenon, <1>1, <1>2, <1>3, <1>4 DEF Next, Terminated
<1> USE DEF Same
<1> QED BY Zenon, <1>1, <1>5 DEF HostStep

\* The host's reference is where the host is.
LEMMA BaseStep ==
  ASSUME Cell!TypeOK, BaseInv, [Next]_vars
  PROVE  BaseInv'
<1> USE DEF BaseInv
<1>1. pc \in [Handle -> Cell!Location] /\ Base \in Handle BY DEF Cell!TypeOK, Handle
<1>2. ASSUME NEW w \in CWaker, SendWaker(w) PROVE BaseInv'
  <2>1. pc' = [pc EXCEPT ![Base] = "upd_cas"] BY <1>2 DEF SendWaker, Cell!UpdateBegin, Cell!Goto
  <2>2. hpc = "check" /\ hpc' = "update" /\ future' = future BY <1>2 DEF SendWaker
  <2> QED BY <1>1, <2>1, <2>2 DEF Updating
<1>3. CASE DropBase
  <2>1. \E loc : loc \notin Updating /\ pc' = [pc EXCEPT ![Base] = loc]
    BY <1>3 DEF DropBase, Cell!Dec, Cell!Goto, Updating
  <2>2. hpc = "drop_base" /\ hpc' = "done" /\ future' = future BY <1>3 DEF DropBase
  <2> QED BY <1>1, <2>1, <2>2
<1>4. CASE CellStep(Base)
  <2>1. hpc' = hpc /\ future' = future BY <1>4 DEF CellStep
  <2>2. \A h \in Handle \ {Base} : pc'[h] = pc[h]
    BY <1>1, <1>4 DEF CellStep, Cell!Dec, Cell!Continue, Cell!WakeRetry, Cell!WakeLock, Cell!WakeSkip,
              Cell!WakeCall, Cell!WakeUnlock, Cell!UpdateRetry, Cell!UpdateLock, Cell!UpdateSwap,
              Cell!UpdateUnlock, Cell!UpdateNotify, Cell!UpdateFree, Cell!DropData, Cell!FreeBox,
              Cell!Finish, Cell!Goto
  <2>3. CASE hpc = "done" BY <2>1, <2>2, <2>3
  <2>4. CASE hpc # "done"
    <3>1. Cell!Continue(Base) BY <1>4, <2>4 DEF CellStep, Updating
    <3>2. pc[Base] \in Updating /\ pc'[Base] \in {"idle"} \cup Updating
      BY <1>1, <2>4, <3>1, BaseContinues
         DEF Cell!UpdateRetry, Cell!UpdateLock, Cell!UpdateSwap, Cell!UpdateUnlock, Cell!UpdateNotify,
             Cell!UpdateFree, Cell!Finish, Cell!Goto, Updating
    <3>3. hpc = "update" BY <2>4, <3>2 DEF Updating
    <3> QED BY <2>1, <2>2, <3>2, <3>3
  <2> QED BY <2>3, <2>4
<1>5. CASE BaseUntouched
  <2>1. pc'[Base] = pc[Base] /\ \A h \in Handle \ {Base} : pc'[h] \notin Updating
    BY <1>5 DEF BaseUntouched
  <2>2. CASE hpc' = hpc /\ future' = future BY <2>1, <2>2
  <2>3. CASE New \/ PollBegin \/ KeepWaker \/ WakerSent \/ Yield \/ Wait \/ Pending \/ Ready \/ Drop
             \/ DropRaw \/ DropFuture
    <3>1. /\ hpc' # "done" /\ pc[Base] = "idle"
          /\ hpc' = "drop_base" <=> ~future'
      BY <2>3 DEF New, PollBegin, KeepWaker, WakerSent, Collect, Yield, Wait, Pending, Ready, Drop, DropRaw,
                  DropFuture
    <3> QED BY <2>1, <3>1
  <2> QED BY Zenon, <1>2, <1>3, <2>2, <2>3, HostStays
<1> QED BY Zenon, <1>2, <1>3, <1>4, <1>5, StepsBase

\* The host has its reference in every reachable state.
LEMMA BaseAlways == Spec => []BaseInv
<1>1. Init => BaseInv
  BY DEF Init, Cell!Init, BaseInv, Updating, Handle
<1>2. CP!HostInv => Cell!TypeOK BY SameTypes DEF CP!HostInv, CP!RefInv
<1>3. Cell!TypeOK /\ BaseInv /\ [Next]_vars => BaseInv' BY BaseStep
<1> QED BY <1>1, <1>2, <1>3, CellHolds, PTL DEF Spec

\* The last dec() may be in the middle of a wake on any thread, but the thread that then
\* drops the Box finds the future taken: only the host's thread, which polled it, drops it.
THEOREM HostDropsFuture == Spec => []FutureDroppedByHost
<1>1. CP!HostInv /\ BaseInv => FutureDroppedByHost
  <2> SUFFICES ASSUME CP!HostInv, BaseInv, future, NEW h \in Handle, pc[h] \in {"drop_data", "free_box"}
               PROVE  FALSE
    BY DEF FutureDroppedByHost
  <2>1. pc[Base] \in {"idle"} \cup Updating BY DEF BaseInv
  <2>2. h = Base
    BY <2>1 DEF CP!HostInv, CP!RefInv, CP!RefsCountHandles, CP!Dropping, Updating, Handle
  <2> QED BY <2>1, <2>2 DEF Updating
<1> QED BY <1>1, CellHolds, BaseAlways, PTL

--------------------------------------------------------------------------------
(* Types *)

\* What the host, the executor and the sources keep.
OwnTypes ==
  /\ hpc \in {"new", "idle", "check", "update", "visit", "pending", "done"} \cup Dropping
  /\ future \in BOOLEAN /\ ready \in BOOLEAN /\ woken \in BOOLEAN
  /\ last \in Addr \cup {NoAddr}
  /\ addr \in [Ctx -> Addr \cup {NoAddr}]
  /\ gone \subseteq Ctx
  /\ cx \in Ctx
  /\ of \in [CWaker -> Ctx]
  /\ fired \subseteq Source
  /\ taken \subseteq Source
  /\ todo \subseteq Source
  /\ yields \in 0..MaxYields

\* A step of the host keeps their types.
LEMMA HostTypes ==
  ASSUME OwnTypes, HostStep \/ Drop
  PROVE  OwnTypes'
<1> USE DEF OwnTypes, Dropping, executor
<1>1. CASE New BY <1>1 DEF New
<1>2. CASE PollBegin BY <1>2 DEF PollBegin
<1>3. CASE KeepWaker BY <1>3 DEF KeepWaker, Collect
<1>4. CASE WakerSent BY <1>4 DEF WakerSent, Collect
<1>5. ASSUME NEW w \in CWaker, SendWaker(w) PROVE OwnTypes' BY <1>5 DEF SendWaker
<1>6. ASSUME NEW s \in Source, Visit(s) PROVE OwnTypes' BY <1>6 DEF Visit
<1>7. CASE Yield
  <2>1. yields' \in 0..MaxYields BY <1>7, FutureAssumption DEF Yield, FutureAssumption
  <2> QED BY <1>7, <2>1 DEF Yield
<1>8. CASE Wait BY <1>8 DEF Wait
<1>9. CASE Pending BY <1>9 DEF Pending
<1>10. CASE Ready BY <1>10 DEF Ready
<1>11. CASE DropRaw BY <1>11 DEF DropRaw
<1>12. CASE DropFuture BY <1>12 DEF DropFuture
<1>13. CASE DropBase BY <1>13 DEF DropBase
<1>14. CASE Drop BY <1>14 DEF Drop
<1> QED BY Zenon, <1>1, <1>2, <1>3, <1>4, <1>5, <1>6, <1>7, <1>8, <1>9, <1>10, <1>11, <1>12, <1>13, <1>14
           DEF HostStep

\* So does every other step.
LEMMA OwnTypesStep ==
  ASSUME OwnTypes, [Next]_vars
  PROVE  OwnTypes'
<1> USE DEF OwnTypes
<1>1. ASSUME NEW c \in Ctx, Retire(c) PROVE OwnTypes' BY <1>1 DEF Retire
<1>2. ASSUME NEW c \in Ctx, NEW a \in Addr, Move(c, a) PROVE OwnTypes' BY <1>2 DEF Move
<1>3. ASSUME NEW s \in Source, Fire(s) PROVE OwnTypes'
  BY <1>3 DEF Fire, executor
<1>4. ASSUME NEW s \in Source, Cancel(s) PROVE OwnTypes'
  BY <1>4 DEF Cancel, executor
<1>5. ASSUME NEW h \in Handle, CellStep(h) PROVE OwnTypes'
  <2>1. woken' \in BOOLEAN BY <1>5, Zenon DEF CellStep, CallsExecutor
  <2> QED BY <1>5, <2>1 DEF CellStep, executor
<1>6. CASE UNCHANGED vars BY <1>6 DEF vars, executor
<1> QED BY Zenon, HostTypes, <1>1, <1>2, <1>3, <1>4, <1>5, <1>6 DEF Next, Terminated

\* And they hold at first.
LEMMA OwnTypesAlways == Spec => []OwnTypes
<1>1. Init => OwnTypes
  <2> SUFFICES ASSUME Init PROVE OwnTypes
    OBVIOUS
  <2>1. 0 \in 0..MaxYields BY FutureAssumption DEF FutureAssumption
  <2>2. addr \in [Ctx -> Addr \cup {NoAddr}] /\ of \in [CWaker -> Ctx] BY DEF Init
  <2> QED BY <2>1, <2>2 DEF Init, OwnTypes
<1>2. OwnTypes /\ [Next]_vars => OwnTypes' BY OwnTypesStep
<1> QED BY <1>1, <1>2, PTL DEF Spec

\* Every variable of the bridge keeps its type, those of the waker cell included: however
\* the threads interleave, the count of references does not fall below zero.
THEOREM TypeCorrect == Spec => []TypeOK
<1>1. CP!HostInv /\ OwnTypes => TypeOK
  BY Zenon, SameTypes DEF CP!HostInv, CP!RefInv, OwnTypes, TypeOK
<1> QED BY <1>1, CellHolds, OwnTypesAlways, PTL

--------------------------------------------------------------------------------
(* The fingerprint *)

\* The cell's clone is one of waker c.
SentTo(c) == data \in CWaker /\ of[data] = c

\* The address in the fingerprint is that of the waker whose clone the cell has, or is
\* getting, and the executor gives the address to no other waker while that clone lives.
FpInv ==
  /\ addr[cx] # NoAddr /\ cx \notin gone
  /\ \A c, d \in Present : addr[c] = addr[d] => c = d
  /\ hpc \in {"new", "idle", "check"} /\ last # NoAddr => data \in CWaker /\ addr[of[data]] = last
  /\ hpc \in {"visit", "pending"} => last = addr[cx] /\ SentTo(cx)
  /\ hpc = "update" =>
       /\ last = addr[cx]
       /\ IF pc[Base] \in {"upd_cas", "upd_swap"} THEN of[arg[Base]] = cx ELSE SentTo(cx)

\* Wakers whose address is taken become fewer when clones are freed and wakers dropped.
LEMMA PresentShrinks ==
  ASSUME UNCHANGED <<addr, of>>, gone \subseteq gone',
         \A w \in CWaker : host'[w] = "held" => host[w] = "held"
  PROVE  Present' \subseteq Present
BY DEF Present

\* A clone in the cell is live while the host has its reference.
LEMMA StoredIsLive ==
  ASSUME CP!HostInv, BaseInv, hpc # "done", data \in CWaker
  PROVE  host[data] = "held"
<1>1. Base \in Handle /\ pc[Base] \notin {"none", "free_box"} BY DEF BaseInv, Updating, Handle
<1> QED BY <1>1 DEF CP!HostInv, CP!WakerInv, CP!DataLive

\* The host's own steps: update() is passed by only when the stored clone is one of the
\* waker that polls.
LEMMA FpHost ==
  ASSUME CloneSharesData, CP!HostInv, BaseInv, OwnTypes, FpInv, BaseUntouched,
         New \/ PollBegin \/ KeepWaker \/ WakerSent \/ Yield \/ Wait \/ Pending \/ Ready \/ Drop
         \/ DropRaw \/ DropFuture
  PROVE  FpInv'
<1> USE DEF FpInv, SentTo
<1>1. UNCHANGED <<addr, gone, cx, of, last, data>> /\ arg'[Base] = arg[Base] /\ pc'[Base] = pc[Base]
  BY DEF New, PollBegin, KeepWaker, WakerSent, Collect, Yield, Wait, Pending, Ready, Drop, DropRaw,
         DropFuture, executor, BaseUntouched
<1>2. Present' \subseteq Present BY <1>1, PresentShrinks DEF BaseUntouched
<1>3. (\A c, d \in Present : addr[c] = addr[d] => c = d)' BY <1>1, <1>2
<1>4. CASE KeepWaker
  <2>1. hpc = "check" /\ last = addr[cx] /\ hpc' = "visit" BY <1>4 DEF KeepWaker, Collect
  <2>2. data \in CWaker /\ addr[of[data]] = addr[cx] /\ addr[cx] # NoAddr BY <2>1
  <2>3. host[data] = "held" BY <2>1, <2>2, StoredIsLive
  <2>4. cx \in Present /\ of[data] \in Present
    BY <2>2, <2>3 DEF Present, OwnTypes
  <2>5. of[data] = cx BY <2>2, <2>4
  <2> QED BY <1>1, <1>3, <2>1, <2>2, <2>5
<1>5. CASE WakerSent
  <2>1. hpc = "update" /\ pc[Base] = "idle" /\ hpc' = "visit" BY <1>5 DEF WakerSent, Collect
  <2> QED BY <1>1, <1>3, <2>1
<1>6. CASE New \/ PollBegin
  <2>1. hpc \in {"new", "idle"} /\ hpc' \in {"idle", "check"} BY <1>6 DEF New, PollBegin
  <2> QED BY <1>1, <1>3, <2>1
<1>7. CASE Yield \/ Wait
  <2>1. hpc = "visit" /\ hpc' = "pending" BY <1>7 DEF Yield, Wait
  <2> QED BY <1>1, <1>3, <2>1
<1>8. CASE Pending \/ Ready
  <2>1. hpc \in {"visit", "pending"} /\ hpc' = "idle" BY <1>8 DEF Pending, Ready
  <2> QED BY <1>1, <1>3, <2>1
<1>9. CASE Drop \/ DropRaw \/ DropFuture
  <2>1. hpc' \in Dropping BY <1>9 DEF Drop, DropRaw, DropFuture, Dropping
  <2> QED BY <1>1, <1>3, <2>1 DEF Dropping
<1> QED BY <1>4, <1>5, <1>6, <1>7, <1>8, <1>9

\* The clone of the new waker is sent, and its address remembered.
LEMMA FpSend ==
  ASSUME Cell!TypeOK, OwnTypes, FpInv, NEW w \in CWaker, SendWaker(w)
  PROVE  FpInv'
<1> USE DEF FpInv
<1>1. /\ hpc' = "update" /\ last' = addr[cx] /\ UNCHANGED <<addr, gone, cx>>
      /\ of' = [of EXCEPT ![w] = cx]
  BY DEF SendWaker, executor
<1>2. /\ host' = [host EXCEPT ![w] = "held"] /\ arg' = [arg EXCEPT ![Base] = w]
      /\ pc' = [pc EXCEPT ![Base] = "upd_cas"]
  BY DEF SendWaker, Cell!UpdateBegin, Cell!Goto
<1>3. Base \in Handle BY DEF Handle
<1>4. pc'[Base] = "upd_cas" /\ arg'[Base] = w /\ of'[w] = cx
  BY <1>1, <1>2, <1>3 DEF Cell!TypeOK, OwnTypes
<1>5. \A v \in CWaker \ {w} : of'[v] = of[v] /\ host'[v] = host[v]
  BY <1>1, <1>2 DEF Cell!TypeOK, OwnTypes
<1>6. Present' \subseteq Present
  <2> SUFFICES ASSUME NEW c \in Present' PROVE c \in Present
    OBVIOUS
  <2>1. c \in Ctx /\ addr[c] # NoAddr BY <1>1 DEF Present
  <2>2. CASE c \notin gone BY <2>1, <2>2 DEF Present
  <2>3. CASE c \in gone
    <3>1. PICK v \in CWaker : host'[v] = "held" /\ of'[v] = c /\ CloneSharesData
      BY <1>1, <2>3 DEF Present
    <3>2. v # w BY <1>4, <2>3, <3>1
    <3>3. host[v] = "held" /\ of[v] = c BY <1>5, <3>1, <3>2
    <3> QED BY <2>1, <3>1, <3>3 DEF Present
  <2> QED BY <2>2, <2>3
<1>7. (\A c, d \in Present : addr[c] = addr[d] => c = d)' BY <1>1, <1>6
<1> QED BY <1>1, <1>4, <1>7

\* update() moves the clone from its argument to the cell.
LEMMA FpUpdate ==
  ASSUME CP!HostInv, BaseInv, OwnTypes, FpInv, hpc # "done", CellStep(Base)
  PROVE  FpInv'
<1> USE DEF FpInv, SentTo
<1>1. UNCHANGED <<hpc, last, addr, gone, cx, of>> BY DEF CellStep, executor
<1>2. Cell!TypeOK BY SameTypes DEF CP!HostInv, CP!RefInv
<1>3. Base \in Handle BY DEF Handle
<1>4. Cell!Continue(Base) BY DEF CellStep, BaseInv, Updating
<1>5. pc[Base] \in Updating
  BY <1>4, BaseContinues DEF Cell!UpdateRetry, Cell!UpdateLock, Cell!UpdateSwap, Cell!UpdateUnlock,
                             Cell!UpdateNotify, Cell!UpdateFree, Updating
<1>6. hpc = "update" BY <1>5 DEF BaseInv, Updating
<1>7. host' = host \/ host' = [host EXCEPT ![old[Base]] = "freed"]
  <2>1. CASE Cell!UpdateNotify(Base) \/ Cell!UpdateFree(Base) BY <2>1, CallFrees
  <2>2. CASE Cell!UpdateRetry(Base) \/ Cell!UpdateLock(Base) \/ Cell!UpdateSwap(Base) \/ Cell!UpdateUnlock(Base)
    BY <2>2 DEF Cell!UpdateRetry, Cell!UpdateLock, Cell!UpdateSwap, Cell!UpdateUnlock
  <2> QED BY <1>4, <2>1, <2>2, BaseContinues
<1>8. \A w \in CWaker : host'[w] = "held" => host[w] = "held" BY <1>2, <1>7 DEF Cell!TypeOK
<1>9. Present' \subseteq Present BY <1>1, <1>8, PresentShrinks
<1>10. (\A c, d \in Present : addr[c] = addr[d] => c = d)' BY <1>1, <1>9
<1>11. IF pc'[Base] \in {"upd_cas", "upd_swap"} THEN of[arg'[Base]] = cx
                                                ELSE data' \in CWaker /\ of[data'] = cx
  <2>1. CASE Cell!UpdateRetry(Base)
    BY <1>6, <2>1 DEF Cell!UpdateRetry
  <2>2. CASE Cell!UpdateLock(Base)
    BY <1>2, <1>3, <1>6, <2>2 DEF Cell!UpdateLock, Cell!Goto, Cell!TypeOK
  <2>3. CASE Cell!UpdateSwap(Base)
    <3>1. data' = arg[Base] /\ pc[Base] = "upd_swap" /\ pc'[Base] = "upd_unlock"
      BY <1>2, <1>3, <2>3 DEF Cell!UpdateSwap, Cell!Goto, Cell!TypeOK
    <3>2. arg[Base] \in CWaker
      BY <1>3, <3>1 DEF CP!HostInv, CP!WakerInv, CP!ArgLive
    <3> QED BY <1>6, <3>1, <3>2
  <2>4. CASE Cell!UpdateUnlock(Base) \/ Cell!UpdateNotify(Base) \/ Cell!UpdateFree(Base)
    <3>1. /\ data' = data /\ pc[Base] \notin {"upd_cas", "upd_swap"}
          /\ pc'[Base] \notin {"upd_cas", "upd_swap"}
      BY <1>2, <1>3, <2>4 DEF Cell!UpdateUnlock, Cell!UpdateNotify, Cell!UpdateFree, Cell!Finish, Cell!Goto,
                              Cell!TypeOK
    <3> QED BY <1>6, <3>1
  <2> QED BY <1>4, <2>1, <2>2, <2>3, <2>4, BaseContinues
<1> QED BY <1>1, <1>6, <1>10, <1>11

\* The executor polls with another waker, one it has or a new one at an address that is
\* not taken.
LEMMA FpMove ==
  ASSUME OwnTypes, FpInv, NEW c \in Ctx, NEW a \in Addr, Move(c, a)
  PROVE  FpInv'
<1> USE DEF FpInv
<1>1. /\ hpc = "idle" /\ UNCHANGED <<cell, hpc, last, gone, of>>
      /\ cx' = c /\ addr' = [addr EXCEPT ![c] = a] /\ c \notin gone
      /\ addr[c] = NoAddr => a \notin {addr[d] : d \in Present}
      /\ addr[c] # NoAddr => a = addr[c]
  BY DEF Move
<1>2. UNCHANGED <<data, host, pc>> BY <1>1 DEF cell
<1>3. addr'[c] = a /\ \A d \in Ctx \ {c} : addr'[d] = addr[d] BY <1>1 DEF OwnTypes
<1>4. a # NoAddr BY FutureAssumption DEF FutureAssumption
<1>5. Present' \subseteq Present \cup {c} BY <1>1, <1>2, <1>3 DEF Present
<1>6. (\A d, e \in Present : addr[d] = addr[e] => d = e)'
  <2> SUFFICES ASSUME NEW d \in Present', NEW e \in Present', addr'[d] = addr'[e]
               PROVE  d = e
    OBVIOUS
  <2>1. d \in Ctx /\ e \in Ctx BY DEF Present
  <2>2. CASE addr[c] = NoAddr
    <3>1. \A x \in Present' : x # c => x \in Present /\ addr'[x] # a
      BY <1>1, <1>3, <1>5, <2>2 DEF Present
    <3> QED BY <1>3, <1>5, <2>1, <3>1
  <2>3. CASE addr[c] # NoAddr
    <3>1. c \in Present /\ \A x \in Ctx : addr'[x] = addr[x] BY <1>1, <1>3, <2>3 DEF Present
    <3> QED BY <1>5, <2>1, <3>1
  <2> QED BY <2>2, <2>3
<1>7. last # NoAddr => data \in CWaker /\ addr'[of[data]] = last
  <2> SUFFICES ASSUME last # NoAddr PROVE data \in CWaker /\ addr'[of[data]] = last
    OBVIOUS
  <2>1. data \in CWaker /\ addr[of[data]] = last /\ of[data] \in Ctx BY <1>1 DEF OwnTypes
  <2> QED BY <1>1, <1>3, <2>1
<1> QED BY <1>1, <1>2, <1>3, <1>4, <1>6, <1>7

\* Every step keeps it.
LEMMA FpStep ==
  ASSUME CloneSharesData, CP!HostInv, BaseInv, OwnTypes, FpInv, [Next]_vars
  PROVE  FpInv'
<1>1. Cell!TypeOK BY SameTypes DEF CP!HostInv, CP!RefInv
<1> DEFINE Still == UNCHANGED <<hpc, last, addr, cx, of>> /\ gone \subseteq gone' /\ cx \notin gone'
<1>2. ASSUME BaseUntouched, Still PROVE FpInv'
  <2>1. UNCHANGED data /\ arg'[Base] = arg[Base] /\ pc'[Base] = pc[Base] BY <1>2 DEF BaseUntouched
  <2>2. Present' \subseteq Present BY <1>2, PresentShrinks DEF BaseUntouched
  <2>3. (\A c, d \in Present : addr[c] = addr[d] => c = d)' BY <1>2, <2>2 DEF FpInv
  <2> QED BY <1>2, <2>1, <2>3 DEF FpInv, SentTo
<1>3. ASSUME NEW c \in Ctx, Retire(c) PROVE Still BY <1>3 DEF Retire, FpInv
<1>4. ASSUME NEW s \in Source, Fire(s) \/ Cancel(s) \/ Visit(s) PROVE Still
  BY <1>4 DEF Fire, Cancel, Visit, executor, FpInv
<1>5. ASSUME NEW h \in Handle, CellStep(h) PROVE Still BY <1>5 DEF CellStep, executor, FpInv
<1>6. CASE UNCHANGED vars BY <1>1, <1>2, <1>6, NoHandle DEF vars, executor, FpInv
<1>7. CASE DropBase
  <2>1. /\ hpc' = "done" /\ UNCHANGED <<last, addr, cx, of, gone>>
        /\ UNCHANGED host
    BY <1>7 DEF DropBase, executor, Cell!Dec
  <2>2. Present' \subseteq Present BY <2>1, PresentShrinks
  <2>3. (\A c, d \in Present : addr[c] = addr[d] => c = d)' BY <2>1, <2>2 DEF FpInv
  <2> QED BY <2>1, <2>3 DEF FpInv
<1>8. CASE CellStep(Base)
  <2>1. CASE hpc # "done" BY <1>8, <2>1, FpUpdate
  <2>2. CASE hpc = "done"
    <3>1. Cell!Continue(Base) \/ Cell!Dec(Base) BY <1>8 DEF CellStep
    <3>2. host' = host \/ \E w : host' = [host EXCEPT ![w] = "freed"]
      <4>1. CASE Cell!WakeCall(Base) \/ Cell!UpdateNotify(Base) \/ Cell!UpdateFree(Base) \/ Cell!DropData(Base)
        BY <4>1, CallFrees
      <4>2. CASE \/ Cell!WakeRetry(Base) \/ Cell!WakeLock(Base) \/ Cell!WakeSkip(Base) \/ Cell!WakeUnlock(Base)
                 \/ Cell!UpdateRetry(Base) \/ Cell!UpdateLock(Base) \/ Cell!UpdateSwap(Base)
                 \/ Cell!UpdateUnlock(Base) \/ Cell!FreeBox(Base) \/ Cell!Dec(Base)
        BY <4>2 DEF Cell!WakeRetry, Cell!WakeLock, Cell!WakeSkip, Cell!WakeUnlock, Cell!UpdateRetry,
              Cell!UpdateLock, Cell!UpdateSwap, Cell!UpdateUnlock, Cell!FreeBox, Cell!Dec
      <4> QED BY <3>1, <4>1, <4>2 DEF Cell!Continue
    <3>3. \A w \in CWaker : host'[w] = "held" => host[w] = "held" BY <1>1, <3>2 DEF Cell!TypeOK
    <3>4. UNCHANGED <<hpc, last, addr, cx, of, gone>> BY <1>8 DEF CellStep, executor
    <3>5. Present' \subseteq Present BY <3>3, <3>4, PresentShrinks
    <3>6. (\A c, d \in Present : addr[c] = addr[d] => c = d)' BY <3>4, <3>5 DEF FpInv
    <3> QED BY <2>2, <3>4, <3>6 DEF FpInv
  <2> QED BY <2>1, <2>2
<1>9. ASSUME NEW w \in CWaker, SendWaker(w) PROVE FpInv' BY <1>1, <1>9, FpSend
<1>10. ASSUME NEW c \in Ctx, NEW a \in Addr, Move(c, a) PROVE FpInv' BY <1>10, FpMove
<1>11. CASE BaseUntouched
  <2>1. Still => FpInv' BY <1>2, <1>11
  <2>2. ASSUME New \/ PollBegin \/ KeepWaker \/ WakerSent \/ Yield \/ Wait \/ Pending \/ Ready \/ Drop
               \/ DropRaw \/ DropFuture
        PROVE  FpInv'
    BY <1>11, <2>2, FpHost
  <2> HIDE DEF Still
  <2> QED BY Zenon, <2>1, <2>2, <1>3, <1>4, <1>5, <1>6, <1>7, <1>9, <1>10 DEF Next, HostStep, Terminated
<1> QED BY Zenon, <1>1, <1>7, <1>8, <1>9, <1>11, StepsBase

\* While the future runs, the clone in the cell is one of the waker that the executor polls
\* with, although poll compares addresses only and the executor may give the address of a
\* dropped waker to a new one: the clone that the cell holds keeps its address taken, where
\* clones share the data of their original.
THEOREM FingerprintIsSound ==
  ASSUME CloneSharesData
  PROVE  Spec => []FingerprintSound
<1>1. Init => FpInv
  <2> SUFFICES ASSUME Init PROVE FpInv
    OBVIOUS
  <2>1. hpc = "new" /\ last = NoAddr /\ gone = {} /\ cx \in Ctx BY DEF Init
  <2>2. PICK a \in Addr : addr = [c \in Ctx |-> IF c = cx THEN a ELSE NoAddr] BY DEF Init
  <2>3. addr[cx] = a /\ \A c \in Ctx : addr[c] # NoAddr => c = cx BY <2>1, <2>2
  <2>4. a # NoAddr BY FutureAssumption DEF FutureAssumption
  <2> QED BY <2>1, <2>3, <2>4 DEF FpInv, Present
<1>2. CP!HostInv /\ BaseInv /\ OwnTypes /\ FpInv /\ [Next]_vars => FpInv' BY FpStep, CloneSharesData
<1>3. FpInv => FingerprintSound BY DEF FpInv, FingerprintSound, SentTo
<1> QED BY <1>1, <1>2, <1>3, CellHolds, BaseAlways, OwnTypesAlways, PTL DEF Spec

================================================================================
