----------------------------- MODULE Slicer_proofs -----------------------------
(***************************************************************************)
(* Proofs about the slicer thread: that it uses the registry as its only   *)
(* reader may, whose theorems it therefore has, and that its count of idle *)
(* passes stays in its bounds.                                             *)
(***************************************************************************)
EXTENDS Slicer, TLAPS

\* The registry with the theorems about it.
SP == INSTANCE Registrations_proofs

\* What the registry asks of its parameters.
LEMMA SameAssumption == SP!RegistrationsAssumption
BY Zenon, SlicerAssumption
   DEF SlicerAssumption, Space!RegistrationsAssumption, SP!RegistrationsAssumption, Space!IsFiniteSet,
       SP!IsFiniteSet

\* The two instances of the registry have the same types.
LEMMA SameTypes == Space!TypeOK <=> SP!TypeOK
BY Zenon DEF Space!TypeOK, SP!TypeOK, Space!Vec, SP!Vec, Space!Slot, SP!Slot, Space!Writing, SP!Writing

\* They begin alike.
LEMMA SameInit == Space!Init <=> SP!Init
BY Zenon DEF Space!Init, SP!Init, Space!Vec, SP!Vec, Space!EmptySlot, SP!EmptySlot

\* Their threads take the same steps.
LEMMA SameWriters ==
  ASSUME NEW r
  PROVE  /\ Space!Register(r) <=> SP!Register(r)
         /\ Space!Unregister(r) <=> SP!Unregister(r)
         /\ Space!Write(r) <=> SP!Write(r)
         /\ Space!Remove(r) <=> SP!Remove(r)
<1> USE DEF Space!reader, SP!reader, Space!writers, SP!writers, Space!Goto, SP!Goto
<1>1. Space!Register(r) <=> SP!Register(r) BY Zenon DEF Space!Register, SP!Register
<1>2. Space!Unregister(r) <=> SP!Unregister(r) BY Zenon DEF Space!Unregister, SP!Unregister
<1>3. Space!WriterUnlocked <=> SP!WriterUnlocked
  BY Zenon DEF Space!WriterUnlocked, SP!WriterUnlocked, Space!Writing, SP!Writing
<1>4. Space!GcUnlocked <=> SP!GcUnlocked BY Zenon DEF Space!GcUnlocked, SP!GcUnlocked
<1>5. Space!WriteLock(r) <=> SP!WriteLock(r) BY Zenon, <1>3 DEF Space!WriteLock, SP!WriteLock
<1>6. Space!FreeSlots = SP!FreeSlots BY Zenon DEF Space!FreeSlots, SP!FreeSlots, Space!Slots, SP!Slots
<1>7. Space!NoteRegistered(r) <=> SP!NoteRegistered(r) BY Zenon DEF Space!NoteRegistered, SP!NoteRegistered
<1>8. Space!WriteSlot(r) <=> SP!WriteSlot(r)
  BY Zenon, <1>6, <1>7 DEF Space!WriteSlot, SP!WriteSlot, Space!First, SP!First
<1>9. Space!WriteActivate(r) <=> SP!WriteActivate(r)
  BY Zenon, <1>6 DEF Space!WriteActivate, SP!WriteActivate, Space!First, SP!First
<1>10. Space!WriteGrow(r) <=> SP!WriteGrow(r)
  BY Zenon, <1>6, <1>7 DEF Space!WriteGrow, SP!WriteGrow, Space!CopyWith, SP!CopyWith, Space!Slots,
                           SP!Slots, Space!EmptySlot, SP!EmptySlot
<1>11. Space!WriteDisown(r) <=> SP!WriteDisown(r) BY Zenon DEF Space!WriteDisown, SP!WriteDisown
<1>12. Space!WritePush(r) <=> SP!WritePush(r) BY Zenon, <1>4 DEF Space!WritePush, SP!WritePush
<1>13. Space!WriteUnlock(r) <=> SP!WriteUnlock(r) BY Zenon DEF Space!WriteUnlock, SP!WriteUnlock
<1>14. Space!Write(r) <=> SP!Write(r)
  BY Zenon, <1>5, <1>8, <1>9, <1>10, <1>11, <1>12, <1>13 DEF Space!Write, SP!Write
<1>15. Space!RemoveLock(r) <=> SP!RemoveLock(r) BY Zenon, <1>3 DEF Space!RemoveLock, SP!RemoveLock
<1>16. \A v : Space!Without(v, r) = SP!Without(v, r)
  BY Zenon DEF Space!Without, SP!Without, Space!Slots, SP!Slots, Space!First, SP!First
<1>17. Space!RemoveCurrent(r) <=> SP!RemoveCurrent(r)
  BY Zenon, <1>16 DEF Space!RemoveCurrent, SP!RemoveCurrent
<1>18. Space!GcLeftLock(r) <=> SP!GcLeftLock(r) BY Zenon, <1>4 DEF Space!GcLeftLock, SP!GcLeftLock
<1>19. Space!GcLeftFree(r) <=> SP!GcLeftFree(r) BY Zenon DEF Space!GcLeftFree, SP!GcLeftFree
<1>20. Space!GcLeftUnlock(r) <=> SP!GcLeftUnlock(r) BY Zenon DEF Space!GcLeftUnlock, SP!GcLeftUnlock
<1>21. Space!RemoveUnlock(r) <=> SP!RemoveUnlock(r) BY Zenon DEF Space!RemoveUnlock, SP!RemoveUnlock
<1>22. \A v : Space!GcLeftOrphan(r, v) <=> SP!GcLeftOrphan(r, v)
  BY Zenon DEF Space!GcLeftOrphan, SP!GcLeftOrphan
<1>23. \A v : Space!GcLeftRemove(r, v) <=> SP!GcLeftRemove(r, v)
  BY Zenon, <1>16 DEF Space!GcLeftRemove, SP!GcLeftRemove
<1>24. Space!Remove(r) <=> SP!Remove(r)
  BY Zenon, <1>15, <1>17, <1>18, <1>19, <1>20, <1>21, <1>22, <1>23
     DEF Space!Remove, SP!Remove, Space!Vec, SP!Vec
<1> QED BY <1>1, <1>2, <1>14, <1>24

\* So does their reader.
LEMMA SameReader ==
  /\ Space!Read <=> SP!Read
  /\ Space!TryGc <=> SP!TryGc
  /\ Space!TryGcStep <=> SP!TryGcStep
<1> USE DEF Space!reader, SP!reader, Space!writers, SP!writers, Space!vars, SP!vars, Space!Slots, SP!Slots
<1>1. Space!Registered = SP!Registered
  BY Zenon DEF Space!Registered, SP!Registered, Space!FreeSlots, SP!FreeSlots
<1>2. Space!ReadLoad <=> SP!ReadLoad BY Zenon, <1>1 DEF Space!ReadLoad, SP!ReadLoad
<1>3. Space!ReadOwn <=> SP!ReadOwn BY Zenon DEF Space!ReadOwn, SP!ReadOwn
<1>4. Space!ReadEnd <=> SP!ReadEnd BY Zenon DEF Space!ReadEnd, SP!ReadEnd
<1>5. Space!ReadDrop <=> SP!ReadDrop BY Zenon DEF Space!ReadDrop, SP!ReadDrop
<1>6. Space!ReadFreed <=> SP!ReadFreed BY Zenon DEF Space!ReadFreed, SP!ReadFreed
<1>7. \A i : Space!Job(i) <=> SP!Job(i)
  BY Zenon DEF Space!Job, SP!Job, Space!ReadFilter, SP!ReadFilter, Space!ReadCallback, SP!ReadCallback,
               Space!CallbackReturns, SP!CallbackReturns
<1>8. Space!Read <=> SP!Read
  BY Zenon, <1>2, <1>3, <1>4, <1>5, <1>6, <1>7 DEF Space!Read, SP!Read
<1>9. Space!GcUnlocked <=> SP!GcUnlocked BY Zenon DEF Space!GcUnlocked, SP!GcUnlocked
<1>10. Space!TryGcLock <=> SP!TryGcLock BY Zenon, <1>9 DEF Space!TryGcLock, SP!TryGcLock
<1>11. Space!TryGcMiss <=> SP!TryGcMiss BY Zenon, <1>9 DEF Space!TryGcMiss, SP!TryGcMiss
<1>12. Space!TryGc <=> SP!TryGc BY Zenon, <1>10, <1>11 DEF Space!TryGc, SP!TryGc
<1>13. \A v : Space!TryGcVisit(v) <=> SP!TryGcVisit(v) BY Zenon DEF Space!TryGcVisit, SP!TryGcVisit
<1>14. Space!TryGcUnlock <=> SP!TryGcUnlock BY Zenon DEF Space!TryGcUnlock, SP!TryGcUnlock
<1>15. Space!TryGcStep <=> SP!TryGcStep
  BY Zenon, <1>13, <1>14 DEF Space!TryGcStep, SP!TryGcStep, Space!Vec, SP!Vec
<1> QED BY <1>8, <1>12, <1>15

\* The two registries behave alike.
LEMMA SameSpec == Space!Spec => SP!Spec
<1>1. Space!Init => SP!Init BY SameInit
<1>2. Space!Next => SP!Next
  BY Zenon, SameWriters, SameReader DEF Space!Next, SP!Next
<1>3. [Space!Next]_(Space!vars) => [SP!Next]_(SP!vars)
  BY <1>2 DEF Space!vars, SP!vars, Space!writers, SP!writers, Space!reader, SP!reader
<1> QED BY <1>1, <1>3, PTL DEF Space!Spec, SP!Spec

--------------------------------------------------------------------------------
(* The slicer uses the registry *)

\* What a step of a thread does to the registry is one of its operations, or nothing.
LEMMA StepsRegistry ==
  ASSUME [Next]_vars
  PROVE  [Space!Next]_(Space!vars)
<1> DEFINE Same == UNCHANGED registry
<1>1. Same => UNCHANGED Space!vars BY DEF registry, Space!vars, Space!writers, Space!reader
<1>2. CASE SlicerStep
  <2>1. PassStep => Space!Read BY Zenon DEF PassStep, Space!Read
  <2>2. Loop => Space!Read BY Zenon DEF Loop, Space!Read
  <2>3. Collect \/ Park => Space!TryGc BY Zenon DEF Collect, Park
  <2>4. Worked \/ Pause \/ Unpark => Same BY Zenon DEF Worked, Pause, Unpark
  <2>5. ASSUME NEW i \in DOMAIN job, NEW b \in BOOLEAN, JobStep(i) \/ CallbackReturns(i, b)
        PROVE  Space!Read
    BY Zenon, <2>5 DEF JobStep, CallbackReturns, Space!Read, Space!Job
  <2>6. CollectStep => Space!TryGcStep BY Zenon DEF CollectStep
  <2>7. SlicerStep => Space!Read \/ Space!TryGc \/ Space!TryGcStep \/ Same
    <3>1. ASSUME NEW i \in DOMAIN job, JobStep(i) PROVE Space!Read
      BY Zenon, <3>1 DEF JobStep, Space!Read, Space!Job
    <3> HIDE DEF Same
    <3> QED BY Zenon, <2>1, <2>2, <2>3, <2>4, <2>5, <2>6, <3>1 DEF SlicerStep
  <2> QED BY Zenon, <1>1, <1>2, <2>7 DEF Space!Next
<1>3. CASE \E r \in Reg : Register(r) \/ Unregister(r) \/ WriterStep(r)
  BY Zenon, <1>3 DEF Register, Unregister, WriterStep, Space!Next
<1>4. CASE UNCHANGED vars
  <2>1. Same BY <1>4 DEF vars
  <2> QED BY <1>1, <2>1
<1>5. ReadFreed => Space!Next BY Zenon DEF ReadFreed, Space!Read, Space!Next
<1> QED BY Zenon, <1>2, <1>3, <1>4, <1>5 DEF Next

\* The slicer thread and those that register and unregister are a registry with one reader:
\* the loop of init() takes, reads and drops the guard in the only order Registrations
\* knows, and collects garbage only while it owns its array, with the queue locked.
THEOREM UsesRegistry == Spec => Space!Spec
<1>1. Init => Space!Init BY DEF Init
<1> QED BY <1>1, StepsRegistry, PTL DEF Spec, Space!Spec

\* Where nothing is ever unregistered, the collections of the slicer free no array that the
\* slicer still looks at, however often the registry grows meanwhile.
THEOREM SlicerIsSafeWithoutRemoval ==
  ASSUME Removing = {}
  PROVE  Spec => []NoUseAfterFree
<1>1. SP!RegistrationsAssumption BY SameAssumption
<1>2. Spec => SP!Spec BY UsesRegistry, SameSpec, PTL
<1>3. SP!Spec => []SP!NoUseAfterFree BY <1>1, SP!ReaderIsSafeWithoutRemoval
<1>4. SP!NoUseAfterFree => NoUseAfterFree
  BY DEF SP!NoUseAfterFree, NoUseAfterFree, Space!NoUseAfterFree
<1> QED BY <1>2, <1>3, <1>4, PTL

\* What holds of the registry holds under the slicer too: no registration is lost or doubled
\* by the arrays it is copied through, none survives its removal, no array is forgotten.
THEOREM RegistryHolds ==
  Spec => [](Space!RegisteredOnce /\ Space!RemovedEverywhere /\ Space!OwnersAreUsers /\ Space!NoArrayLeak)
<1>1. SP!RegistrationsAssumption BY SameAssumption
<1>2. Spec => SP!Spec BY UsesRegistry, SameSpec, PTL
<1>3. SP!Spec => []SP!RegisteredOnce BY <1>1, SP!RegistersOnce
<1>4. SP!Spec => []SP!RemovedEverywhere BY <1>1, SP!RemovesEverywhere
<1>5. SP!Spec => []SP!OwnersAreUsers BY <1>1, SP!OwnersAreCounted
<1>6. SP!Spec => []SP!NoArrayLeak BY <1>1, SP!ArraysAreKept
<1>7. SP!RegisteredOnce => Space!RegisteredOnce
  BY Zenon DEF SP!RegisteredOnce, Space!RegisteredOnce, SP!Slots, Space!Slots, SP!Cardinality, Space!Cardinality
<1>8. SP!RemovedEverywhere => Space!RemovedEverywhere
  BY Zenon DEF SP!RemovedEverywhere, Space!RemovedEverywhere, SP!Slots, Space!Slots
<1>9. SP!OwnersAreUsers => Space!OwnersAreUsers BY Zenon DEF SP!OwnersAreUsers, Space!OwnersAreUsers
<1>10. SP!NoArrayLeak => Space!NoArrayLeak BY Zenon DEF SP!NoArrayLeak, Space!NoArrayLeak
<1> QED BY <1>2, <1>3, <1>4, <1>5, <1>6, <1>7, <1>8, <1>9, <1>10, PTL

--------------------------------------------------------------------------------
(* The count of idle passes *)

\* A count that is a multiple of m is not one when it is raised.
LEMMA NextIsNoMultiple ==
  ASSUME NEW m \in Nat \ {0, 1}, NEW n \in Nat, n % m = 0
  PROVE  (n + 1) % m # 0
OBVIOUS

\* The count that is one above the limit was raised by a collection, and the next pass makes none.
SpinInv ==
  /\ started \in BOOLEAN /\ worked \in BOOLEAN
  /\ spins \in 0..(PauseLimit + 1)
  /\ turn \in {"pass", "parked", "drop"}
  /\ spins = PauseLimit + 1 => spins % GcEvery # 0

\* A pass keeps it.
LEMMA SpinInvStep ==
  ASSUME SpinInv, [Next]_vars
  PROVE  SpinInv'
<1> DEFINE Kept == started' \in BOOLEAN /\ worked' \in BOOLEAN /\ turn' \in {"pass", "parked", "drop"}
<1>1. GcEvery \in Nat \ {0, 1} /\ PauseLimit \in Nat BY SlicerAssumption DEF SlicerAssumption
<1>2. spins \in 0..(PauseLimit + 1) /\ (spins = PauseLimit + 1 => spins % GcEvery # 0) BY DEF SpinInv
<1>3. CASE Worked
  <2>1. Kept BY <1>3 DEF Worked, SpinInv
  <2>2. spins' = 0 BY <1>3 DEF Worked
  <2> QED BY <1>1, <2>1, <2>2 DEF SpinInv
<1>4. CASE Collect
  <2>1. Kept BY <1>4 DEF Collect, SpinInv
  <2>2. spins % GcEvery = 0 /\ spins' = spins + 1 BY <1>4 DEF Collect
  <2>3. spins # PauseLimit + 1 BY <1>2, <2>2
  <2>4. (spins + 1) % GcEvery # 0 BY <1>1, <1>2, <2>2, NextIsNoMultiple
  <2>5. spins + 1 \in 0..(PauseLimit + 1) BY <1>1, <1>2, <2>3
  <2> QED BY <2>1, <2>2, <2>4, <2>5 DEF SpinInv
<1>5. CASE Pause
  <2>1. Kept BY <1>5 DEF Pause, SpinInv
  <2>2. spins < PauseLimit /\ spins' = spins + 1 BY <1>5 DEF Pause
  <2>3. spins' \in 0..(PauseLimit + 1) /\ spins' # PauseLimit + 1 BY <1>1, <1>2, <2>2
  <2> QED BY <2>1, <2>3 DEF SpinInv
<1>6. ASSUME UNCHANGED spins, Kept PROVE SpinInv'
  BY <1>2, <1>6 DEF SpinInv
<1>7. ASSUME PassStep \/ Park \/ CollectStep \/ Unpark \/ Loop PROVE UNCHANGED spins /\ Kept
  BY <1>7 DEF PassStep, Park, CollectStep, Unpark, Loop, SpinInv
<1>8. ASSUME NEW i, NEW b \in BOOLEAN, JobStep(i) \/ CallbackReturns(i, b) PROVE UNCHANGED spins /\ Kept
  BY <1>8 DEF JobStep, CallbackReturns, SpinInv
<1>9. ASSUME NEW r, Register(r) \/ Unregister(r) \/ WriterStep(r) PROVE UNCHANGED spins /\ Kept
  BY <1>9 DEF Register, Unregister, WriterStep, SpinInv
<1>10. CASE ReadFreed \/ UNCHANGED vars BY <1>2, <1>10 DEF ReadFreed, vars, SpinInv
<1>11. TRUE \in BOOLEAN OBVIOUS
<1> HIDE DEF Kept
<1>12. (\E i \in DOMAIN job : JobStep(i)) => UNCHANGED spins /\ Kept BY <1>8, <1>11, Zenon
<1>13. (\E i \in DOMAIN job : \E b \in BOOLEAN : CallbackReturns(i, b)) => UNCHANGED spins /\ Kept
  BY <1>8, Zenon
<1> QED BY <1>3, <1>4, <1>5, <1>6, <1>7, <1>9, <1>10, <1>12, <1>13, Zenon DEF Next, SlicerStep

\* Every variable keeps its type. The count of idle passes gets at most one above the limit,
\* where the thread parks, although a pass that collects garbage raises it without a look at
\* the limit.
THEOREM TypeCorrect == Spec => []TypeOK
<1>1. SP!RegistrationsAssumption BY SameAssumption
<1>2. Spec => SP!Spec BY UsesRegistry, SameSpec, PTL
<1>3. SP!Spec => []SP!TypeOK BY <1>1, SP!TypeCorrect
<1>4. Init => SpinInv
  <2>1. 0 \in 0..(PauseLimit + 1) /\ 0 # PauseLimit + 1 BY SlicerAssumption DEF SlicerAssumption
  <2> QED BY <2>1, Zenon DEF Init, SpinInv
<1>5. SpinInv /\ [Next]_vars => SpinInv' BY SpinInvStep
<1>6. SP!TypeOK /\ SpinInv => TypeOK BY SameTypes, Zenon DEF SpinInv, TypeOK
<1> QED BY <1>2, <1>3, <1>4, <1>5, <1>6, PTL DEF Spec

================================================================================
