------------------------ MODULE AtomicFFICWaker_proofs ------------------------
(* Proofs about the waker cell, for every number of handles and host wakers. *)
EXTENDS AtomicFFICWaker, FiniteSetTheorems, TLAPS

\* Handles that are counted: those that exist and whose dec() has not brought the
\* count to zero.
Counted == {h \in Handle : pc[h] \notin {"none"} \cup Dropping}

\* The count in the word is the number of counted handles, and the one that brought
\* it to zero is alone.
RefsCountHandles ==
  /\ state.refs = Cardinality(Counted)
  /\ \A g, h \in Handle : pc[h] \in Dropping /\ pc[g] # "none" => g = h

\* Only a cell that nobody points to is dropped.
NoHandleOfDropped == alive \/ \A h \in Handle : pc[h] = "none"

RefInv == TypeOK /\ RefsCountHandles /\ NoHandleOfDropped

--------------------------------------------------------------------------------

\* The state of the word and of a handle after each kind of step.
LEMMA WordType ==
  /\ NewWord \in Word
  /\ \A word \in Word :
       /\ Locked(word) \in Word
       /\ WakeWord(word) \in Word
       /\ WakeUnlocked(word) \in Word
       /\ UpdateUnlocked(word) \in Word
       /\ [word EXCEPT !.refs = @ + 1] \in Word
       /\ word.refs # 0 => [word EXCEPT !.refs = @ - 1] \in Word
<1>1. NewWord \in Word
  BY DEF Word, NewWord
<1>2. ASSUME NEW word \in Word
      PROVE  /\ Locked(word) \in Word
             /\ WakeWord(word) \in Word
             /\ WakeUnlocked(word) \in Word
             /\ UpdateUnlocked(word) \in Word
  BY DEF Word, Locked, WakeWord, WakeUnlocked, UpdateUnlocked
<1>3. ASSUME NEW word \in Word, NEW n \in Nat
      PROVE  [word EXCEPT !.refs = n] \in Word
  BY DEF Word
<1>4. ASSUME NEW word \in Word
      PROVE  /\ word.refs + 1 \in Nat
             /\ word.refs # 0 => word.refs - 1 \in Nat
  BY DEF Word
<1>5. QED
  BY <1>1, <1>2, <1>3, <1>4

\* Handles that exist are finitely many, and no reference is left exactly when none is.
LEMMA CountedFinite ==
  ASSUME RefsCountHandles
  PROVE  /\ IsFiniteSet(Counted)
         /\ state.refs = 0 <=> Counted = {}
<1>1. IsFiniteSet(Counted)
  BY HandleAssumption, FS_Subset DEF Counted
<1>2. QED
  BY <1>1, FS_EmptySet DEF RefsCountHandles

\* What the host's functions do at each of the places that call them.
LEMMA HostCallDoes ==
  ASSUME NEW h \in Handle
  PROVE  /\ WakeCall(h) => host' = host /\ owed' = IF cur[h].new THEN owed ELSE {}
         /\ UpdateNotify(h) => host' = host /\ owed' = IF cur[h].notified THEN {} ELSE owed
         /\ UpdateFree(h) =>
              /\ owed' = owed
              /\ host' = IF cur[h].new THEN host ELSE [host EXCEPT ![old[h]] = "freed"]
         /\ DropData(h) => owed' = owed /\ host' = [host EXCEPT ![data] = "freed"]
<1> USE DEF CallHost, HostCall, NoCall
<1>1. WakeCall(h) => host' = host /\ owed' = IF cur[h].new THEN owed ELSE {}
  BY DEF WakeCall
<1>2. UpdateNotify(h) => host' = host /\ owed' = IF cur[h].notified THEN {} ELSE owed
  BY DEF UpdateNotify
<1>3. UpdateFree(h) =>
        /\ owed' = owed
        /\ host' = IF cur[h].new THEN host ELSE [host EXCEPT ![old[h]] = "freed"]
  BY DEF UpdateFree
<1>4. DropData(h) => owed' = owed /\ host' = [host EXCEPT ![data] = "freed"]
  BY DEF DropData
<1>5. QED
  BY <1>1, <1>2, <1>3, <1>4

--------------------------------------------------------------------------------
(* Type correctness *)

\* Init satisfies the type invariant.
LEMMA InitType == Init => TypeOK
BY HandleAssumption, WordType DEF Init, TypeOK, Location

\* The type invariant survives every step; the count cannot fall below zero because
\* the handle that drops a reference is itself counted.
LEMMA TypeStep ==
  ASSUME TypeOK, RefsCountHandles, [Next]_vars
  PROVE  TypeOK'
<1> USE DEF TypeOK
<1>1. ASSUME NEW h \in Handle, NEW g \in Handle, Clone(h, g)
      PROVE  TypeOK'
  BY <1>1, WordType DEF Clone, Goto, Location
<1>2. ASSUME NEW h \in Handle, Dec(h)
      PROVE  TypeOK'
  <2>1. h \in Counted
    BY <1>2 DEF Dec, Counted, Dropping
  <2>2. state.refs # 0
    BY <2>1, CountedFinite
  <2>3. state' \in Word
    BY <1>2, <2>2, WordType DEF Dec
  <2>4. QED
    BY <1>2, <2>3 DEF Dec, Goto, Location, Dropping
<1>3. ASSUME NEW h \in Handle, NEW then \in {"idle", "dec"}, WakeBegin(h, then)
      PROVE  TypeOK'
  BY <1>3 DEF WakeBegin, Goto, Location
<1>4. ASSUME NEW h \in Handle, NEW w \in CWaker, UpdateBegin(h, w)
      PROVE  TypeOK'
  BY <1>4 DEF UpdateBegin, Goto, Location
<1>5. Deliverer \subseteq {"self", "update"}
  BY DEF Deliverer
<1>6. ASSUME NEW h \in Handle, WakeRetry(h)
      PROVE  TypeOK'
  BY <1>6 DEF WakeRetry
<1>7. ASSUME NEW h \in Handle, WakeLock(h)
      PROVE  TypeOK'
  <2>1. state' \in Word
    BY <1>7, WordType DEF WakeLock
  <2>2. owed' \subseteq {"self", "update"}
    BY <1>7, <1>5 DEF WakeLock
  <2>3. QED
    BY <1>7, <2>1, <2>2, WordType DEF WakeLock, Goto, Location, WakeCS
<1>8. ASSUME NEW h \in Handle, WakeSkip(h)
      PROVE  TypeOK'
  <2>1. state' \in Word
    BY <1>8, WordType DEF WakeSkip
  <2>2. owed' \subseteq {"self", "update"}
    BY <1>8, <1>5 DEF WakeSkip
  <2>3. QED
    BY <1>8, <2>1, <2>2, WordType DEF WakeSkip, Finish, Goto, Location
<1>9. ASSUME NEW h \in Handle, WakeCall(h)
      PROVE  TypeOK'
  BY <1>9, HostCallDoes DEF WakeCall, Goto, Location, WakeCS
<1>10. ASSUME NEW h \in Handle, WakeUnlock(h)
       PROVE  TypeOK'
  BY <1>10, WordType DEF WakeUnlock, Finish, Goto, Location
<1>11. ASSUME NEW h \in Handle, UpdateRetry(h)
       PROVE  TypeOK'
  BY <1>11 DEF UpdateRetry
<1>12. ASSUME NEW h \in Handle, UpdateLock(h)
       PROVE  TypeOK'
  BY <1>12, WordType DEF UpdateLock, Goto, Location, UpdateCS
<1>13. ASSUME NEW h \in Handle, UpdateSwap(h)
       PROVE  TypeOK'
  BY <1>13 DEF UpdateSwap, Goto, Location, UpdateCS
<1>14. ASSUME NEW h \in Handle, UpdateUnlock(h)
       PROVE  TypeOK'
  BY <1>14, WordType DEF UpdateUnlock, Goto, Location
<1>15. ASSUME NEW h \in Handle, UpdateNotify(h)
       PROVE  TypeOK'
  BY <1>15, HostCallDoes DEF UpdateNotify, Goto, Location
<1>16. ASSUME NEW h \in Handle, UpdateFree(h)
       PROVE  TypeOK'
  BY <1>16, WordType, HostCallDoes DEF UpdateFree, Finish, Goto, Location
<1>17. ASSUME NEW h \in Handle, DropData(h)
       PROVE  TypeOK'
  BY <1>17, HostCallDoes DEF DropData, Goto, Location, Dropping
<1>18. ASSUME NEW h \in Handle, FreeBox(h)
       PROVE  TypeOK'
  BY <1>18 DEF FreeBox, Goto, Location
<1>19. ASSUME UNCHANGED vars
       PROVE  TypeOK'
  BY <1>19 DEF vars
<1>20. QED
  BY <1>1, <1>2, <1>3, <1>4, <1>6, <1>7, <1>8, <1>9, <1>10, <1>11, <1>12, <1>13, <1>14, <1>15, <1>16, <1>17, <1>18, <1>19
     DEF Next, Begin, Continue, Terminated

--------------------------------------------------------------------------------
(* Reference counting *)

\* Taking and releasing the lock leaves the count alone.
LEMMA LockKeepsRefs ==
  \A word \in Word :
    /\ Locked(word).refs = word.refs
    /\ WakeWord(word).refs = word.refs
    /\ WakeUnlocked(word).refs = word.refs
    /\ UpdateUnlocked(word).refs = word.refs
BY DEF Word, Locked, WakeWord, WakeUnlocked, UpdateUnlocked

\* One handle exists and none was dropped in the initial states.
LEMMA InitRefs == Init => RefsCountHandles /\ NoHandleOfDropped
<1> SUFFICES ASSUME Init PROVE RefsCountHandles /\ NoHandleOfDropped
  OBVIOUS
<1>1. Counted = {Base}
  BY HandleAssumption DEF Init, Counted, Dropping
<1>2. Cardinality(Counted) = 1
  BY <1>1, FS_Singleton
<1>3. QED
  BY <1>2 DEF Init, NewWord, RefsCountHandles, NoHandleOfDropped, Dropping

\* A counted handle that goes on in its operation stays counted.
LEMMA CountedMoves ==
  ASSUME RefInv, NEW h \in Handle, NEW loc,
         pc[h] \notin {"none"} \cup Dropping, loc \notin {"none"} \cup Dropping,
         Goto(h, loc), state'.refs = state.refs, alive' = alive
  PROVE  RefsCountHandles' /\ NoHandleOfDropped'
<1>1. Counted' = Counted
  BY DEF RefInv, TypeOK, Goto, Counted, Dropping
<1>2. \A x \in Handle : pc'[x] \in Dropping => pc'[x] = pc[x]
  BY DEF RefInv, TypeOK, Goto
<1>3. \A x \in Handle : pc'[x] # "none" => pc[x] # "none"
  BY DEF RefInv, TypeOK, Goto
<1>4. QED
  BY <1>1, <1>2, <1>3 DEF RefInv, RefsCountHandles, NoHandleOfDropped

\* The handle made by clone_waker is counted.
LEMMA CloneCounts ==
  ASSUME RefInv, NEW h \in Handle, NEW g \in Handle, Clone(h, g)
  PROVE  RefsCountHandles' /\ NoHandleOfDropped'
<1> USE DEF RefInv
<1>1. Counted' = Counted \cup {g} /\ g \notin Counted
  BY DEF TypeOK, Clone, Goto, Counted, Dropping
<1>2. Cardinality(Counted') = Cardinality(Counted) + 1
  BY <1>1, CountedFinite, FS_AddElement
<1>3. state'.refs = state.refs + 1
  BY DEF TypeOK, Word, Clone
<1>4. \A x \in Handle : pc[x] \notin Dropping
  BY DEF Clone, RefsCountHandles, Dropping
<1>5. \A x \in Handle : pc'[x] \notin Dropping
  BY <1>4 DEF TypeOK, Clone, Goto, Dropping
<1>6. alive'
  BY DEF Clone, NoHandleOfDropped
<1>7. QED
  BY <1>2, <1>3, <1>5, <1>6 DEF RefsCountHandles, NoHandleOfDropped

\* dec() takes its handle out of the count; the one that reaches zero finds no other.
LEMMA DecCounts ==
  ASSUME RefInv, NEW h \in Handle, Dec(h)
  PROVE  RefsCountHandles' /\ NoHandleOfDropped'
<1> USE DEF RefInv
<1>1. Counted' = Counted \ {h} /\ h \in Counted
  BY DEF TypeOK, Dec, Goto, Counted, Dropping
<1>2. Cardinality(Counted') = Cardinality(Counted) - 1
  BY <1>1, CountedFinite, FS_RemoveElement
<1>3. state'.refs = state.refs - 1
  BY DEF TypeOK, Word, Dec
<1>4. \A x \in Handle : pc[x] \notin Dropping
  BY DEF Dec, RefsCountHandles, Dropping
<1>5. alive'
  BY DEF Dec, NoHandleOfDropped
<1>6. CASE ~LastRef(state)
  <2>1. \A x \in Handle : pc'[x] \notin Dropping
    BY <1>4, <1>6 DEF TypeOK, Dec, Goto, Dropping
  <2>2. QED
    BY <1>2, <1>3, <1>5, <2>1 DEF RefsCountHandles, NoHandleOfDropped
<1>7. CASE LastRef(state)
  <2>1. Counted = {h}
    <3>1. Cardinality(Counted) = 1
      BY <1>7 DEF RefsCountHandles, LastRef
    <3>2. PICK x : Counted = {x}
      BY <3>1, CountedFinite, FS_Singleton
    <3>3. QED
      BY <1>1, <3>2
  <2>2. \A x \in Handle : x # h => pc[x] = "none"
    BY <1>4, <2>1 DEF Counted
  <2>3. \A x \in Handle : x # h => pc'[x] = "none"
    BY <2>2 DEF TypeOK, Dec, Goto
  <2>4. QED
    BY <1>2, <1>3, <1>5, <2>3 DEF RefsCountHandles, NoHandleOfDropped, Dropping
<1>8. QED
  BY <1>6, <1>7

\* The handle that brought the count to zero goes on to drop the Box alone.
LEMMA DropCounts ==
  ASSUME RefInv, NEW h \in Handle, DropData(h) \/ FreeBox(h)
  PROVE  RefsCountHandles' /\ NoHandleOfDropped'
<1> USE DEF RefInv
<1>1. Counted' = Counted
  BY DEF TypeOK, DropData, FreeBox, Goto, Counted, Dropping
<1>2. \A x \in Handle : x # h => pc[x] = "none"
  BY DEF DropData, FreeBox, RefsCountHandles, Dropping
<1>3. \A x \in Handle : x # h => pc'[x] = "none"
  BY <1>2 DEF TypeOK, DropData, FreeBox, Goto
<1>4. state' = state
  BY DEF DropData, FreeBox
<1>5. NoHandleOfDropped'
  <2>1. CASE DropData(h)
    BY <2>1 DEF DropData, NoHandleOfDropped
  <2>2. CASE FreeBox(h)
    BY <1>3, <2>2 DEF TypeOK, FreeBox, Goto, NoHandleOfDropped
  <2>3. QED
    BY <2>1, <2>2
<1>6. QED
  BY <1>1, <1>3, <1>4, <1>5 DEF RefsCountHandles, Dropping

\* Every step keeps the count equal to the number of counted handles.
LEMMA RefsStep ==
  ASSUME RefInv, [Next]_vars
  PROVE  RefsCountHandles' /\ NoHandleOfDropped'
<1> USE DEF RefInv
<1>1. ASSUME NEW h \in Handle, NEW then \in {"idle", "dec"}, WakeBegin(h, then)
      PROVE  RefsCountHandles' /\ NoHandleOfDropped'
  BY <1>1, CountedMoves DEF WakeBegin, Dropping
<1>2. ASSUME NEW h \in Handle, NEW w \in CWaker, UpdateBegin(h, w)
      PROVE  RefsCountHandles' /\ NoHandleOfDropped'
  BY <1>2, CountedMoves DEF UpdateBegin, Dropping
<1>3. ASSUME NEW h \in Handle, WakeRetry(h) \/ UpdateRetry(h)
      PROVE  RefsCountHandles' /\ NoHandleOfDropped'
  BY <1>3 DEF WakeRetry, UpdateRetry, RefsCountHandles, NoHandleOfDropped, Counted
<1>4. ASSUME NEW h \in Handle, WakeLock(h)
      PROVE  RefsCountHandles' /\ NoHandleOfDropped'
  BY <1>4, LockKeepsRefs, CountedMoves DEF WakeLock, TypeOK, Dropping
<1>5. ASSUME NEW h \in Handle, WakeSkip(h)
      PROVE  RefsCountHandles' /\ NoHandleOfDropped'
  BY <1>5, LockKeepsRefs, CountedMoves DEF WakeSkip, Finish, TypeOK, Dropping
<1>6. ASSUME NEW h \in Handle, WakeCall(h)
      PROVE  RefsCountHandles' /\ NoHandleOfDropped'
  BY <1>6, CountedMoves DEF WakeCall, Dropping
<1>7. ASSUME NEW h \in Handle, WakeUnlock(h)
      PROVE  RefsCountHandles' /\ NoHandleOfDropped'
  BY <1>7, LockKeepsRefs, CountedMoves DEF WakeUnlock, Finish, TypeOK, Dropping
<1>8. ASSUME NEW h \in Handle, UpdateLock(h)
      PROVE  RefsCountHandles' /\ NoHandleOfDropped'
  BY <1>8, LockKeepsRefs, CountedMoves DEF UpdateLock, TypeOK, Dropping
<1>9. ASSUME NEW h \in Handle, UpdateSwap(h)
      PROVE  RefsCountHandles' /\ NoHandleOfDropped'
  BY <1>9, CountedMoves DEF UpdateSwap, Dropping
<1>10. ASSUME NEW h \in Handle, UpdateUnlock(h)
       PROVE  RefsCountHandles' /\ NoHandleOfDropped'
  BY <1>10, LockKeepsRefs, CountedMoves DEF UpdateUnlock, TypeOK, Dropping
<1>11. ASSUME NEW h \in Handle, UpdateNotify(h)
       PROVE  RefsCountHandles' /\ NoHandleOfDropped'
  BY <1>11, CountedMoves DEF UpdateNotify, Dropping
<1>12. ASSUME NEW h \in Handle, UpdateFree(h)
       PROVE  RefsCountHandles' /\ NoHandleOfDropped'
  BY <1>12, CountedMoves DEF UpdateFree, Finish, Dropping
<1>13. ASSUME UNCHANGED vars
       PROVE  RefsCountHandles' /\ NoHandleOfDropped'
  BY <1>13 DEF vars, RefsCountHandles, NoHandleOfDropped, Counted
<1>14. QED
  BY CloneCounts, DecCounts, DropCounts, <1>1, <1>2, <1>3, <1>4, <1>5, <1>6, <1>7, <1>8, <1>9, <1>10, <1>11, <1>12, <1>13
     DEF Next, Begin, Continue, Terminated

\* The count is right and the types hold in every reachable state.
LEMMA RefsAlways == Spec => []RefInv
<1>1. Init => RefInv
  BY InitType, InitRefs DEF RefInv
<1>2. RefInv /\ [Next]_vars => RefInv'
  BY TypeStep, RefsStep DEF RefInv
<1>3. QED
  BY <1>1, <1>2, PTL DEF Spec

\* The state word, the stored waker and every local of an operation keep their types:
\* the reference count never falls below zero.
THEOREM TypeCorrect == Spec => []TypeOK
<1>1. RefInv => TypeOK
  BY DEF RefInv
<1>2. QED
  BY <1>1, RefsAlways, PTL

\* No operation of any handle runs on a cell whose Box has been dropped.
THEOREM BoxOutlives == Spec => []BoxOutlivesHandles
<1>1. RefInv => BoxOutlivesHandles
  BY DEF RefInv, NoHandleOfDropped, BoxOutlivesHandles
<1>2. QED
  BY <1>1, RefsAlways, PTL

--------------------------------------------------------------------------------
(* The LOCKED bit *)

\* Steps that neither take nor release the lock leave its exclusion alone.
LEMMA LockUntouched ==
  ASSUME TypeOK, LockExclusion, state'.locked = state.locked,
         \A x \in Handle : InLock(x)' <=> InLock(x)
  PROVE  LockExclusion'
BY DEF LockExclusion

\* The lock bit of the word after each kind of access.
LEMMA LockBit ==
  \A word \in Word :
    /\ Locked(word).locked
    /\ WakeWord(word).locked
    /\ ~WakeUnlocked(word).locked
    /\ ~UpdateUnlocked(word).locked
BY DEF Word, Locked, WakeWord, WakeUnlocked, UpdateUnlocked

\* No step breaks the exclusion: only a clear bit is locked, only the holder clears it.
LEMMA LockStep ==
  ASSUME TypeOK, LockExclusion, [Next]_vars
  PROVE  LockExclusion'
<1> USE DEF TypeOK, InLock, WakeCS, UpdateCS
<1>1. ASSUME NEW h \in Handle, NEW g \in Handle, Clone(h, g)
      PROVE  LockExclusion'
  BY <1>1, LockUntouched DEF Clone, Goto, Word
<1>2. ASSUME NEW h \in Handle, Dec(h)
      PROVE  LockExclusion'
  BY <1>2, LockUntouched DEF Dec, Goto, Word
<1>3. ASSUME NEW h \in Handle, NEW then \in {"idle", "dec"}, WakeBegin(h, then)
      PROVE  LockExclusion'
  BY <1>3, LockUntouched DEF WakeBegin, Goto
<1>4. ASSUME NEW h \in Handle, NEW w \in CWaker, UpdateBegin(h, w)
      PROVE  LockExclusion'
  BY <1>4, LockUntouched DEF UpdateBegin, Goto
<1>5. ASSUME NEW h \in Handle, WakeRetry(h)
      PROVE  LockExclusion'
  BY <1>5, LockUntouched DEF WakeRetry
<1>6. ASSUME NEW h \in Handle, UpdateRetry(h)
      PROVE  LockExclusion'
  BY <1>6, LockUntouched DEF UpdateRetry
<1>7. ASSUME NEW h \in Handle, WakeSkip(h)
      PROVE  LockExclusion'
  BY <1>7, LockUntouched, LockBit DEF WakeSkip, Finish, Goto
<1>8. ASSUME NEW h \in Handle, WakeCall(h)
      PROVE  LockExclusion'
  BY <1>8, LockUntouched DEF WakeCall, Goto
<1>9. ASSUME NEW h \in Handle, UpdateSwap(h)
      PROVE  LockExclusion'
  BY <1>9, LockUntouched DEF UpdateSwap, Goto
<1>10. ASSUME NEW h \in Handle, UpdateNotify(h)
       PROVE  LockExclusion'
  BY <1>10, LockUntouched DEF UpdateNotify, Goto
<1>11. ASSUME NEW h \in Handle, UpdateFree(h)
       PROVE  LockExclusion'
  BY <1>11, LockUntouched DEF UpdateFree, Finish, Goto
<1>12. ASSUME NEW h \in Handle, DropData(h)
       PROVE  LockExclusion'
  BY <1>12, LockUntouched DEF DropData, Goto
<1>13. ASSUME NEW h \in Handle, FreeBox(h)
       PROVE  LockExclusion'
  BY <1>13, LockUntouched DEF FreeBox, Goto
<1>14. ASSUME NEW h \in Handle, WakeLock(h)
       PROVE  LockExclusion'
  BY <1>14, LockBit DEF WakeLock, LockExclusion, Goto
<1>15. ASSUME NEW h \in Handle, UpdateLock(h)
       PROVE  LockExclusion'
  BY <1>15, LockBit DEF UpdateLock, LockExclusion, Goto
<1>16. ASSUME NEW h \in Handle, WakeUnlock(h)
       PROVE  LockExclusion'
  BY <1>16, LockBit DEF WakeUnlock, LockExclusion, Finish, Goto
<1>17. ASSUME NEW h \in Handle, UpdateUnlock(h)
       PROVE  LockExclusion'
  BY <1>17, LockBit DEF UpdateUnlock, LockExclusion, Goto
<1>18. ASSUME UNCHANGED vars
       PROVE  LockExclusion'
  BY <1>18, LockUntouched DEF vars
<1>19. QED
  BY <1>1, <1>2, <1>3, <1>4, <1>5, <1>6, <1>7, <1>8, <1>9, <1>10, <1>11, <1>12, <1>13, <1>14, <1>15, <1>16, <1>17, <1>18
     DEF Next, Begin, Continue, Terminated

\* wake() and update() never touch the stored waker at the same time.
THEOREM LockIsExclusive == Spec => []LockExclusion
<1>1. Init => LockExclusion
  BY DEF Init, NewWord, LockExclusion, InLock, WakeCS, UpdateCS
<1>2. TypeOK /\ LockExclusion /\ [Next]_vars => LockExclusion'
  BY LockStep
<1>3. QED
  BY <1>1, <1>2, TypeCorrect, PTL DEF Spec

--------------------------------------------------------------------------------
(* Wakes that somebody has undertaken to deliver *)

\* Who undertakes the delivery of a wake that takes the lock, and of one that finds it taken.
LEMMA WhoDelivers ==
  ASSUME TypeOK, LockExclusion
  PROVE  /\ ~state.locked => Deliverer = IF state.new THEN {} ELSE {"self"}
         /\ state.locked =>
              Deliverer = IF \E u \in Handle : pc[u] \in UpdateCS THEN {"update"} ELSE {}
BY DEF LockExclusion, InLock, Deliverer

\* NOTIFIED after the accesses of wake() and inc() to the word.
LEMMA NotifiedBit ==
  \A word \in Word :
    /\ WakeWord(word).notified
    /\ [word EXCEPT !.refs = @ + 1].notified = word.notified
BY DEF Word, WakeWord

\* A step of a handle that is in no wake that calls the host and in no update that has the
\* lock or a wake to pass on, and stays out of both, keeps every deliverer.
LEMMA DelivererStays ==
  ASSUME TypeOK, DelegatedWakeKept, owed' = owed, NEW h \in Handle,
         state.notified => state'.notified,
         \A g \in Handle : g # h => pc'[g] = pc[g] /\ cur'[g] = cur[g],
         pc[h] \notin {"wake_call", "upd_notify"} \cup UpdateCS
  PROVE  DelegatedWakeKept'
BY DEF DelegatedWakeKept

\* Whoever has undertaken to call the host is still about to do so after every step, or has
\* called it: the lock passes on what NOTIFIED says.
LEMMA DeliveryStep ==
  ASSUME TypeOK, LockExclusion, DelegatedWakeKept, [Next]_vars
  PROVE  DelegatedWakeKept'
<1> USE DEF TypeOK
<1>1. ASSUME NEW h \in Handle, NEW g \in Handle, Clone(h, g)
      PROVE  DelegatedWakeKept'
  <2>1. /\ state'.notified = state.notified
        /\ \A x \in Handle : x # g => pc'[x] = pc[x] /\ cur'[x] = cur[x]
    BY <1>1, NotifiedBit DEF Clone, Goto
  <2>2. pc[g] = "none" /\ owed' = owed
    BY <1>1 DEF Clone
  <2>3. QED
    BY <2>1, <2>2, DelivererStays DEF UpdateCS
<1>2. ASSUME NEW h \in Handle,
             \/ Dec(h) \/ \E then \in {"idle", "dec"} : WakeBegin(h, then)
             \/ \E w \in CWaker : UpdateBegin(h, w)
             \/ WakeRetry(h) \/ UpdateRetry(h) \/ UpdateLock(h) \/ UpdateFree(h)
             \/ DropData(h) \/ FreeBox(h)
      PROVE  DelegatedWakeKept'
  <2>1. state'.notified = state.notified
    <3>1. CASE Dec(h) \/ UpdateLock(h)
      BY <3>1 DEF Dec, UpdateLock, Locked, Word
    <3>2. CASE ~(Dec(h) \/ UpdateLock(h))
      BY <1>2, <3>2
         DEF WakeBegin, UpdateBegin, WakeRetry, UpdateRetry, UpdateFree, DropData, FreeBox
    <3>3. QED
      BY <3>1, <3>2
  <2>2. \A g \in Handle : g # h => pc'[g] = pc[g] /\ cur'[g] = cur[g]
    BY <1>2
       DEF Dec, WakeBegin, UpdateBegin, WakeRetry, UpdateRetry, UpdateLock, UpdateFree,
           DropData, FreeBox, Finish, Goto
  <2>3. owed' = owed /\ pc[h] \notin {"wake_call", "upd_notify"} \cup UpdateCS
    BY <1>2, HostCallDoes
       DEF Dec, WakeBegin, UpdateBegin, WakeRetry, UpdateRetry, UpdateLock, UpdateFree,
           DropData, FreeBox, UpdateCS
  <2>4. QED
    BY <2>1, <2>2, <2>3, DelivererStays
<1>3. ASSUME NEW h \in Handle, WakeLock(h)
      PROVE  DelegatedWakeKept'
  <2>1. ~state.locked /\ cur[h] = state /\ owed' = owed \cup Deliverer
    BY <1>3 DEF WakeLock
  <2>2. /\ cur' = cur /\ pc'[h] = "wake_call" /\ pc[h] = "wake_cas"
        /\ \A g \in Handle : g # h => pc'[g] = pc[g]
    BY <1>3 DEF WakeLock, Goto
  <2>3. \A g \in Handle : pc[g] \notin {"wake_call"} \cup UpdateCS
    BY <2>1 DEF LockExclusion, InLock, WakeCS
  <2>4. "self" \notin owed
    BY <2>3 DEF DelegatedWakeKept
  <2>5. "update" \in owed' =>
          \E g \in Handle : pc'[g] = "upd_notify" /\ cur'[g].notified
    BY <2>1, <2>2, <2>3, WhoDelivers DEF DelegatedWakeKept
  <2>6. "self" \in owed' => ~cur'[h].new
    BY <2>1, <2>2, <2>4, WhoDelivers
  <2>7. QED
    BY <2>2, <2>5, <2>6 DEF DelegatedWakeKept
<1>4. ASSUME NEW h \in Handle, WakeSkip(h)
      PROVE  DelegatedWakeKept'
  <2>1. state.locked /\ state'.notified /\ owed' = owed \cup Deliverer
    BY <1>4, NotifiedBit DEF WakeSkip
  <2>2. /\ pc[h] = "wake_cas"
        /\ \A g \in Handle : g # h => pc'[g] = pc[g] /\ cur'[g] = cur[g]
    BY <1>4 DEF WakeSkip, Finish, Goto
  <2>3. "self" \in owed' => "self" \in owed
    BY <2>1, WhoDelivers
  <2>4. "update" \in owed' => "update" \in owed \/ \E u \in Handle : pc[u] \in UpdateCS
    BY <2>1, WhoDelivers
  <2>5. QED
    BY <2>1, <2>2, <2>3, <2>4 DEF DelegatedWakeKept, UpdateCS
<1>5. ASSUME NEW h \in Handle, WakeCall(h)
      PROVE  DelegatedWakeKept'
  <2>1. \A g \in Handle : g # h => pc[g] \notin {"wake_call"} \cup UpdateCS
    BY <1>5 DEF WakeCall, LockExclusion, InLock, WakeCS
  <2>2. pc[h] = "wake_call" /\ owed' = IF cur[h].new THEN owed ELSE {}
    BY <1>5, HostCallDoes DEF WakeCall
  <2>3. "self" \notin owed'
    BY <2>1, <2>2 DEF DelegatedWakeKept
  <2>4. \A g \in Handle : g # h => pc'[g] = pc[g] /\ cur'[g] = cur[g]
    BY <1>5 DEF WakeCall, Goto
  <2>5. QED
    BY <2>1, <2>2, <2>3, <2>4 DEF DelegatedWakeKept, UpdateCS
<1>6. ASSUME NEW h \in Handle, WakeUnlock(h)
      PROVE  DelegatedWakeKept'
  <2>1. \A g \in Handle : pc[g] \notin {"wake_call"} \cup UpdateCS
    BY <1>6 DEF WakeUnlock, LockExclusion, InLock, WakeCS, UpdateCS
  <2>2. /\ pc[h] = "wake_unlock" /\ owed' = owed
        /\ \A g \in Handle : g # h => pc'[g] = pc[g] /\ cur'[g] = cur[g]
    BY <1>6 DEF WakeUnlock, Finish, Goto
  <2>3. QED
    BY <2>1, <2>2 DEF DelegatedWakeKept
<1>7. ASSUME NEW h \in Handle, UpdateSwap(h)
      PROVE  DelegatedWakeKept'
  BY <1>7 DEF UpdateSwap, Goto, UpdateCS, DelegatedWakeKept
<1>8. ASSUME NEW h \in Handle, UpdateUnlock(h)
      PROVE  DelegatedWakeKept'
  BY <1>8 DEF UpdateUnlock, Goto, UpdateCS, DelegatedWakeKept
<1>9. ASSUME NEW h \in Handle, UpdateNotify(h)
      PROVE  DelegatedWakeKept'
  BY <1>9, HostCallDoes DEF UpdateNotify, Goto, UpdateCS, DelegatedWakeKept
<1>10. ASSUME UNCHANGED vars
       PROVE  DelegatedWakeKept'
  BY <1>10 DEF vars, DelegatedWakeKept
<1>11. QED
  BY <1>1, <1>2, <1>3, <1>4, <1>5, <1>6, <1>7, <1>8, <1>9, <1>10
     DEF Next, Begin, Continue, Terminated

\* A wake() that took the lock, or found an update() holding it, always has somebody left
\* who will call the host: the update passes on what it finds in NOTIFIED when it unlocks.
THEOREM WakesAreNotDropped == Spec => []DelegatedWakeKept
<1>1. Init => DelegatedWakeKept
  BY DEF Init, DelegatedWakeKept
<1>2. TypeOK /\ LockExclusion /\ DelegatedWakeKept /\ [Next]_vars => DelegatedWakeKept'
  BY DeliveryStep
<1>3. QED
  BY <1>1, <1>2, TypeCorrect, LockIsExclusive, PTL DEF Spec

--------------------------------------------------------------------------------
(* The host's wakers, with one updater *)

Updating(h) == pc[h] \in {"upd_cas", "upd_notify", "upd_free"} \cup UpdateCS

\* The clone handed to an update is live and not stored yet.
ArgLive ==
  \A h \in Handle : pc[h] \in {"upd_cas", "upd_swap"} =>
    arg[h] \in CWaker /\ host[arg[h]] = "held" /\ arg[h] # data

\* After the swap the new clone is the stored one and the old one, if any, is live.
OldLive ==
  \A h \in Handle : pc[h] \in {"upd_unlock", "upd_notify", "upd_free"} =>
    /\ data = arg[h] /\ data \in CWaker /\ old[h] # data
    /\ old[h] \in CWaker => host[old[h]] = "held"
    /\ IF pc[h] = "upd_unlock" THEN state.new <=> old[h] = NoWaker
                               ELSE cur[h].new <=> old[h] = NoWaker

\* NEW says that nothing is stored, except between the swap and the unlock of an update.
NewMeansEmpty ==
  (\A h \in Handle : pc[h] # "upd_unlock") => (state.new <=> data = NoWaker)

\* The stored clone is live until the last dec() has freed it.
DataLive ==
  (\E h \in Handle : pc[h] \notin {"none", "free_box"}) /\ data \in CWaker =>
    host[data] = "held"

\* What wake() and dec() remember of NEW is still so.
SeenNew ==
  /\ \A h \in Handle : pc[h] = "wake_call" => (cur[h].new <=> state.new)
  /\ \A h \in Handle : pc[h] = "drop_data" => ~state.new

WakerInv ==
  /\ \A h \in Handle : Updating(h) => h \in Updaters
  /\ ArgLive
  /\ OldLive
  /\ NewMeansEmpty
  /\ DataLive
  /\ SeenNew

HostInv == RefInv /\ LockExclusion /\ WakerInv

\* What the operations do to NEW.
LEMMA NewBit ==
  \A word \in Word :
    /\ (Locked(word).new <=> word.new)
    /\ (WakeWord(word).new <=> word.new)
    /\ (WakeUnlocked(word).new <=> word.new)
    /\ ~UpdateUnlocked(word).new
    /\ ([word EXCEPT !.refs = @ + 1].new <=> word.new)
    /\ ([word EXCEPT !.refs = @ - 1].new <=> word.new)
BY DEF Word, Locked, WakeWord, WakeUnlocked, UpdateUnlocked

\* Every step keeps the host's wakers in order when one handle updates.
LEMMA WakerStep ==
  ASSUME SingleUpdater, HostInv, RefInv', [Next]_vars
  PROVE  WakerInv'
<1> USE DEF HostInv, RefInv, TypeOK, Goto, WakerInv, Updating, UpdateCS, ArgLive, OldLive,
            NewMeansEmpty, DataLive, SeenNew
<1>0. \A g, h \in Handle : Updating(g) /\ Updating(h) => g = h
  BY HandleAssumption DEF SingleUpdater, WakerInv
<1>1. ASSUME NEW h \in Handle, NEW g \in Handle, Clone(h, g)
      PROVE  WakerInv'
  BY <1>1, NewBit DEF Clone
<1>2. ASSUME NEW h \in Handle, Dec(h)
      PROVE  WakerInv'
  BY <1>2, NewBit DEF Dec
<1>3. ASSUME NEW h \in Handle, NEW then \in {"idle", "dec"}, WakeBegin(h, then)
      PROVE  WakerInv'
  BY <1>3 DEF WakeBegin
<1>4. ASSUME NEW h \in Handle, h \in Updaters, NEW w \in CWaker, UpdateBegin(h, w)
      PROVE  WakerInv'
  BY <1>4, <1>0, HandleAssumption DEF UpdateBegin
<1>5. ASSUME NEW h \in Handle, WakeRetry(h)
      PROVE  WakerInv'
  BY <1>5 DEF WakeRetry
<1>6. ASSUME NEW h \in Handle, UpdateRetry(h)
      PROVE  WakerInv'
  BY <1>6 DEF UpdateRetry
<1>7. ASSUME NEW h \in Handle, WakeSkip(h)
      PROVE  WakerInv'
  BY <1>7, NewBit DEF Finish, WakeSkip
<1>8. ASSUME NEW h \in Handle, WakeLock(h)
      PROVE  WakerInv'
  BY <1>8, NewBit DEF WakeLock
<1>9. ASSUME NEW h \in Handle, WakeCall(h)
      PROVE  WakerInv'
  <2>1. host' = host
    BY <1>9, HostCallDoes
  <2>2. QED
    BY <1>9, <2>1 DEF WakeCall
<1>10. ASSUME NEW h \in Handle, WakeUnlock(h)
       PROVE  WakerInv'
  <2>1. pc' = [pc EXCEPT ![h] = ret[h]] /\ ret[h] \in {"idle", "dec"}
    BY <1>10 DEF WakeUnlock, Finish
  <2>2. state'.new <=> state.new
    BY <1>10, NewBit DEF WakeUnlock
  <2>3. UNCHANGED <<data, arg, old, host>> /\ \A g \in Handle : g # h => cur'[g] = cur[g]
    BY <1>10 DEF WakeUnlock, Finish
  <2>4. \A g \in Handle : g # h => pc'[g] = pc[g]
    BY <2>1
  <2>5. ArgLive' /\ OldLive' /\ NewMeansEmpty'
    BY <1>10, <2>1, <2>2, <2>3, <2>4 DEF WakeUnlock
  <2>6. DataLive' /\ SeenNew'
    BY <1>10, <2>1, <2>2, <2>3, <2>4 DEF WakeUnlock
  <2>7. QED
    BY <2>1, <2>4, <2>5, <2>6
<1>11. ASSUME NEW h \in Handle, UpdateLock(h)
       PROVE  WakerInv'
  BY <1>11, NewBit DEF UpdateLock
<1>12. ASSUME NEW h \in Handle, UpdateSwap(h)
       PROVE  WakerInv'
  <2> USE <1>12 DEF UpdateSwap
  <2>1. \A g \in Handle : g # h => ~Updating(g)
    BY <1>0
  <2>2. \A g \in Handle : pc[g] # "wake_call"
    BY DEF LockExclusion, InLock, WakeCS
  <2>3. (state.new <=> data = NoWaker) /\ pc'[h] = "upd_unlock"
    BY <2>1
  <2>4. ArgLive' /\ OldLive'
    BY <2>1, <2>3
  <2>5. NewMeansEmpty' /\ DataLive' /\ SeenNew'
    BY <2>1, <2>2, <2>3
  <2>6. QED
    BY <2>4, <2>5
<1>13. ASSUME NEW h \in Handle, UpdateUnlock(h)
       PROVE  WakerInv'
  <2> USE <1>13 DEF UpdateUnlock
  <2>1. \A g \in Handle : g # h => ~Updating(g)
    BY <1>0
  <2>2. \A g \in Handle : pc[g] # "wake_call"
    BY DEF LockExclusion, InLock, WakeCS
  <2>3. ~state'.new /\ cur'[h] = state /\ pc'[h] = "upd_notify"
    BY NewBit
  <2>4. ArgLive' /\ OldLive'
    BY <2>1, <2>3
  <2>5. data \in CWaker
    OBVIOUS
  <2>6. NewMeansEmpty' /\ DataLive' /\ SeenNew'
    BY <2>2, <2>3, <2>5, HandleAssumption
  <2>7. QED
    BY <2>4, <2>6
<1>14. ASSUME NEW h \in Handle, UpdateNotify(h)
       PROVE  WakerInv'
  <2>1. host' = host
    BY <1>14, HostCallDoes
  <2>2. QED
    BY <1>14, <2>1 DEF UpdateNotify
<1>15. ASSUME NEW h \in Handle, UpdateFree(h)
       PROVE  WakerInv'
  <2>0. host' = IF cur[h].new THEN host ELSE [host EXCEPT ![old[h]] = "freed"]
    BY <1>15, HostCallDoes
  <2> USE <1>15, <2>0 DEF UpdateFree
  <2>1. \A g \in Handle : g # h => ~Updating(g)
    BY <1>0
  <2>2. pc'[h] = "idle" /\ \A g \in Handle : g # h => pc'[g] = pc[g] /\ cur'[g] = cur[g]
    BY DEF Finish
  <2>3. ArgLive' /\ OldLive'
    BY <2>1, <2>2
  <2>4. NewMeansEmpty' /\ SeenNew'
    BY <2>1, <2>2
  <2>5. data \in CWaker => host'[data] = host[data]
    OBVIOUS
  <2>6. DataLive'
    BY <2>5
  <2>7. QED
    BY <2>1, <2>2, <2>3, <2>4, <2>6
<1>16. ASSUME NEW h \in Handle, DropData(h)
       PROVE  WakerInv'
  <2> USE <1>16 DEF DropData
  <2>1. \A g \in Handle : g # h => pc[g] = "none"
    BY DEF RefsCountHandles, Dropping
  <2>2. pc'[h] = "free_box" /\ \A g \in Handle : g # h => pc'[g] = "none"
    BY <2>1
  <2>3. QED
    BY <2>1, <2>2
<1>17. ASSUME NEW h \in Handle, FreeBox(h)
       PROVE  WakerInv'
  BY <1>17 DEF FreeBox
<1>18. ASSUME UNCHANGED vars
       PROVE  WakerInv'
  BY <1>18 DEF vars
<1>19. QED
  BY <1>1, <1>2, <1>3, <1>4, <1>5, <1>6, <1>7, <1>8, <1>9, <1>10, <1>11, <1>12, <1>13, <1>14, <1>15, <1>16, <1>17, <1>18
     DEF Next, Begin, Continue, Terminated

\* The initial states satisfy the invariant: nothing is stored and nobody updates.
LEMMA InitWaker == Init => WakerInv
BY HandleAssumption
   DEF Init, NewWord, WakerInv, Updating, UpdateCS, ArgLive, OldLive, NewMeansEmpty,
       DataLive, SeenNew

\* The invariant says of every clone that an operation is about to use that it is live.
LEMMA WakerInvLive == HostInv => HostWakersLive
<1> SUFFICES ASSUME HostInv, NEW h \in Handle
             PROVE  /\ pc[h] = "wake_call" /\ ~cur[h].new => data \in CWaker /\ host[data] = "held"
                    /\ pc[h] = "upd_notify" => arg[h] \in CWaker /\ host[arg[h]] = "held"
                    /\ pc[h] = "upd_free" /\ ~cur[h].new => old[h] \in CWaker /\ host[old[h]] = "held"
                    /\ pc[h] = "drop_data" => data \in CWaker /\ host[data] = "held"
  BY DEF HostWakersLive, HostCall, NoCall
<1> USE DEF HostInv, RefInv, TypeOK, WakerInv, ArgLive, OldLive, NewMeansEmpty, DataLive, SeenNew
<1>1. pc[h] = "wake_call" => \A g \in Handle : pc[g] # "upd_unlock"
  BY DEF LockExclusion, InLock, WakeCS, UpdateCS
<1>2. pc[h] = "drop_data" => \A g \in Handle : pc[g] # "upd_unlock"
  BY DEF RefsCountHandles, Dropping
<1>3. QED
  BY <1>1, <1>2

\* wake_no_free and free_waker only ever get a clone that the host has given out and not
\* got back, as long as one owner updates: no clone is called or freed after its free.
THEOREM HostWakersStayLive ==
  ASSUME SingleUpdater
  PROVE  Spec => []HostWakersLive
<1>1. Init => WakerInv
  BY InitWaker
<1>2. RefInv /\ RefInv' /\ LockExclusion /\ WakerInv /\ [Next]_vars => WakerInv'
  BY WakerStep, SingleUpdater DEF HostInv
<1>3. RefInv /\ LockExclusion /\ WakerInv => HostWakersLive
  BY WakerInvLive DEF HostInv
<1>4. QED
  BY <1>1, <1>2, <1>3, RefsAlways, LockIsExclusive, PTL DEF Spec

================================================================================
