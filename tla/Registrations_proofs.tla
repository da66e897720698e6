-------------------------- MODULE Registrations_proofs --------------------------
(***************************************************************************)
(* Proofs about the callback registry, for any number of registrations,    *)
(* arrays and calls: that the owners counted in an array are those that    *)
(* use it, that no array that was replaced is forgotten, that a            *)
(* registration is in force once, or nowhere once it was removed, and that *)
(* the registry keeps its contract.  Where nothing is ever unregistered,   *)
(* no array is freed under the reader either.                              *)
(***************************************************************************)
EXTENDS Registrations, WellFoundedInduction, FiniteSetTheorems, SequenceTheorems, TLAPS

\* At most one thread is between the lock and the unlock of `writerlock`.
OneWriter == \A r, s \in Reg : wpc[r] \in Writing /\ wpc[s] \in Writing => r = s

\* Only gc_left and try_gc look at the queue, one at a time, and forget what they saw.
Scanning ==
  /\ scan # {} => rpc = "gc" \/ \E r \in Reg : wpc[r] = "r_scan"
  /\ doomed # {} => \E r \in Reg : wpc[r] = "r_scan"
  /\ rpc = "gc" => \A r \in Reg : wpc[r] # "r_scan"

\* What is queued, looked at or freed was replaced, and by a write that is over.
Replaced ==
  /\ gc \cup scan \cup doomed \cup freed \subseteq 1..(vector - 1)
  /\ \A r \in Reg : wpc[r] \in {"w_disown", "w_push"} =>
       vector > 1 /\ vector - 1 \notin gc \cup scan \cup doomed \cup freed

\* An active slot has a callback.
Named == \A v \in Vec : \A i \in Slots(v) : slots[v][i].active => slots[v][i].fn \in Reg

\* The slot that a write is about to activate is the one in which it stored its callback.
Stored ==
  \A r \in Reg : wpc[r] = "w_active" =>
    FreeSlots # {} /\ slots[vector][First(FreeSlots)].fn = r

\* There are jobs in a pass only, one for each slot.
JobsMatch ==
  /\ rpc # "pass" => job = <<>>
  /\ rpc = "pass" => DOMAIN job = Slots(rvec)

\* The inductive invariant of the arrays and their owners.
ArrayInv ==
  /\ TypeOK
  /\ OneWriter
  /\ Named
  /\ Stored
  /\ JobsMatch
  /\ Scanning
  /\ Replaced
  /\ rvec \in 1..vector
  /\ OwnersAreUsers
  /\ NoArrayLeak

--------------------------------------------------------------------------------
(* Slots *)

\* `find` stops at the first match.
LEMMA FirstIs ==
  ASSUME NEW S \in SUBSET Nat, S # {}
  PROVE  First(S) \in S /\ \A j \in S : First(S) <= j
<1> DEFINE Less == OpToRel(<, Nat)
<1>1. IsWellFoundedOn(Less, Nat) BY NatLessThanWellFounded
<1>2. \A x, y \in Nat : <<x, y>> \in Less <=> x < y BY DEF OpToRel
<1> HIDE DEF Less
<1>3. PICK x \in S : \A y \in S : ~ (<<y, x>> \in Less)
  BY <1>1, WFMin
<1>4. ASSUME NEW y \in S PROVE x <= y
  <2>1. x \in Nat /\ y \in Nat OBVIOUS
  <2>2. ~ (y < x) BY <1>2, <1>3, <2>1, Zenon
  <2> QED BY <2>1, <2>2
<1> QED BY <1>4 DEF First

\* The slots of an array are numbered from 1.
LEMMA SlotsOf ==
  ASSUME TypeOK, NEW v \in Vec
  PROVE  /\ slots[v] \in Seq(Slot)
         /\ Len(slots[v]) \in Nat
         /\ Slots(v) = 1..Len(slots[v])
         /\ Slots(v) \subseteq Nat
         /\ \A i \in Slots(v) : /\ slots[v][i] \in Slot
                                /\ slots[v][i].active \in BOOLEAN
                                /\ slots[v][i].fn \in Reg \cup {Nobody}
<1>1. slots[v] \in Seq(Slot) BY DEF TypeOK
<1>2. Len(slots[v]) \in Nat /\ DOMAIN slots[v] = 1..Len(slots[v]) BY <1>1, LenProperties
<1>3. \A i \in 1..Len(slots[v]) : slots[v][i] \in Slot BY <1>1, ElementOfSeq
<1> QED BY <1>1, <1>2, <1>3 DEF Slots, Slot

\* A slot of an array is changed, or none.
LEMMA SlotChanged ==
  ASSUME TypeOK, NEW v \in Vec, NEW i, NEW x, i \in Slots(v) => x \in Slot
  PROVE  LET s == [slots[v] EXCEPT ![i] = x]
         IN  /\ s \in Seq(Slot)
             /\ DOMAIN s = Slots(v)
             /\ \A k \in Slots(v) : s[k] = IF k = i THEN x ELSE slots[v][k]
<1> DEFINE s == [slots[v] EXCEPT ![i] = x]
<1>1. slots[v] \in Seq(Slot) /\ Slots(v) = 1..Len(slots[v]) BY SlotsOf
<1>2. DOMAIN s = Slots(v) BY DEF Slots
<1>3. \A k \in Slots(v) : s[k] = IF k = i THEN x ELSE slots[v][k] BY DEF Slots
<1>4. s \in Seq(Slot)
  <2>1. CASE i \in Slots(v) BY <1>1, <2>1, ExceptSeq
  <2>2. CASE i \notin Slots(v)
    <3>1. slots[v] \in [Slots(v) -> Slot] BY <1>1, LenProperties
    <3> HIDE DEF Slots
    <3>2. s = slots[v] BY <2>2, <3>1
    <3> QED BY <1>1, <3>2
  <2> QED BY <2>1, <2>2
<1> QED BY <1>2, <1>3, <1>4

\* A slot with another callback.
LEMMA OtherCallback ==
  ASSUME NEW y \in Slot, NEW r \in Reg
  PROVE  [y EXCEPT !.fn = r] = [active |-> y.active, fn |-> r] /\ [y EXCEPT !.fn = r] \in Slot
<1>1. y = [active |-> y.active, fn |-> y.fn] /\ y.active \in BOOLEAN
  BY DEF Slot
<1>2. [y EXCEPT !.fn = r] = [active |-> y.active, fn |-> r] BY <1>1
<1> QED BY <1>1, <1>2 DEF Slot

\* A slot with another flag.
LEMMA OtherFlag ==
  ASSUME NEW y \in Slot, NEW b \in BOOLEAN
  PROVE  [y EXCEPT !.active = b] = [active |-> b, fn |-> y.fn] /\ [y EXCEPT !.active = b] \in Slot
<1>1. y = [active |-> y.active, fn |-> y.fn] /\ y.fn \in Reg \cup {Nobody}
  BY DEF Slot
<1>2. [y EXCEPT !.active = b] = [active |-> b, fn |-> y.fn] BY <1>1
<1> QED BY <1>1, <1>2 DEF Slot

\* The arrays `new` are those of now but for x in slot i of array v.
SlotIs(new, v, i, x) ==
  /\ new \in [Vec -> Seq(Slot)]
  /\ \A u \in Vec : DOMAIN new[u] = Slots(u)
  /\ \A u \in Vec : \A k \in Slots(u) :
       new[u][k] = IF u = v /\ k = i THEN x ELSE slots[u][k]

\* An assignment to a slot changes no other slot of any array.
LEMMA SlotSet ==
  ASSUME TypeOK, NEW v \in Vec, NEW i, NEW x, i \in Slots(v) => x \in Slot,
         NEW s, s = [slots[v] EXCEPT ![i] = x],
         NEW new, new = [slots EXCEPT ![v] = s]
  PROVE  SlotIs(new, v, i, x)
<1>1. slots \in [Vec -> Seq(Slot)] BY DEF TypeOK
<1>2. /\ s \in Seq(Slot)
      /\ DOMAIN s = Slots(v)
      /\ \A k \in Slots(v) : s[k] = IF k = i THEN x ELSE slots[v][k]
  BY SlotChanged
<1>3. new \in [Vec -> Seq(Slot)] BY <1>1, <1>2
<1>4. \A u \in Vec : new[u] = IF u = v THEN s ELSE slots[u] BY <1>1
<1>5. \A u \in Vec : DOMAIN new[u] = Slots(u) BY <1>2, <1>4 DEF Slots
<1>6. ASSUME NEW u \in Vec, NEW k \in Slots(u)
      PROVE  new[u][k] = IF u = v /\ k = i THEN x ELSE slots[u][k]
  BY <1>2, <1>4
<1> QED BY <1>3, <1>5, <1>6 DEF SlotIs

\* The slots of v that have the callback of r, active or not.
Match(v, r) == {i \in Slots(v) : slots[v][i].fn = r}

\* The arrays `new` are those of now, but the first match of r in v is inactive.
RemovedFrom(new, v, r) ==
  /\ new \in [Vec -> Seq(Slot)]
  /\ \A u \in Vec : DOMAIN new[u] = Slots(u)
  /\ \A u \in Vec : \A k \in Slots(u) :
       new[u][k] = IF u = v /\ k \in Match(v, r) /\ k = First(Match(v, r))
                   THEN [active |-> FALSE, fn |-> slots[u][k].fn]
                   ELSE slots[u][k]
  /\ Match(v, r) # {} => /\ First(Match(v, r)) \in Match(v, r)
                         /\ \A k \in Match(v, r) : First(Match(v, r)) <= k

\* The closure `remove` makes the first of them inactive.
LEMMA Removed ==
  ASSUME TypeOK, NEW v \in Vec, NEW r \in Reg,
         NEW new, new = [slots EXCEPT ![v] = Without(v, r)]
  PROVE  RemovedFrom(new, v, r)
<1> DEFINE f == First(Match(v, r))
<1>1. slots \in [Vec -> Seq(Slot)] BY DEF TypeOK
<1>2. Match(v, r) # {} => f \in Match(v, r) /\ \A k \in Match(v, r) : f <= k
  <2>1. Match(v, r) \in SUBSET Nat BY SlotsOf DEF Match
  <2> QED BY <2>1, FirstIs
<1>3. CASE Match(v, r) = {}
  <2>1. Without(v, r) = slots[v] BY <1>3 DEF Without, Match
  <2>2. new = slots BY <1>1, <2>1
  <2> QED BY <1>1, <1>3, <2>2 DEF Slots, RemovedFrom
<1>4. CASE Match(v, r) # {}
  <2> DEFINE x == [slots[v][f] EXCEPT !.active = FALSE]
  <2>1. Without(v, r) = [slots[v] EXCEPT ![f] = x] BY <1>4 DEF Without, Match
  <2>2. f \in Match(v, r) /\ f \in Slots(v) BY <1>2, <1>4 DEF Match
  <2> HIDE DEF f
  <2>3. x = [active |-> FALSE, fn |-> slots[v][f].fn] /\ x \in Slot
    <3>1. slots[v][f] \in Slot BY <2>2, SlotsOf
    <3> QED BY <3>1, OtherFlag
  <2> HIDE DEF x
  <2>4. SlotIs(new, v, f, x)
    <3>1. f \in Slots(v) => x \in Slot BY <2>3
    <3> QED BY <2>1, <3>1, SlotSet, Zenon
  <2>5. ASSUME NEW u \in Vec, NEW k \in Slots(u)
        PROVE  new[u][k] = IF u = v /\ k \in Match(v, r) /\ k = f
                           THEN [active |-> FALSE, fn |-> slots[u][k].fn]
                           ELSE slots[u][k]
    BY <2>2, <2>3, <2>4 DEF SlotIs
  <2> QED BY <1>2, <2>4, <2>5 DEF f, SlotIs, RemovedFrom
<1> QED BY <1>3, <1>4

\* The arrays `new` have one more, with the slots of the current one, r after them, and room.
GrownBy(new, r) ==
  /\ new \in [Vec -> Seq(Slot)]
  /\ \A u \in Vec : u # vector + 1 => new[u] = slots[u]
  /\ DOMAIN new[vector + 1] = 1..(2 * Len(slots[vector]))
  /\ \A k \in 1..(2 * Len(slots[vector])) :
       new[vector + 1][k] = IF k \in Slots(vector) THEN slots[vector][k]
                            ELSE IF k = Len(slots[vector]) + 1 THEN [active |-> TRUE, fn |-> r]
                            ELSE EmptySlot

\* A write that finds no free slot doubles the array.
LEMMA Grown ==
  ASSUME TypeOK, NEW r \in Reg, vector + 1 \in Vec,
         NEW new, new = [slots EXCEPT ![vector + 1] = CopyWith(r)]
  PROVE  GrownBy(new, r)
<1> DEFINE len == Len(slots[vector])
<1>1. slots \in [Vec -> Seq(Slot)] /\ vector \in Vec BY DEF TypeOK
<1>2. /\ len \in Nat /\ Slots(vector) = 1..len
      /\ \A i \in Slots(vector) : slots[vector][i] \in Slot
  BY <1>1, SlotsOf
<1>3. [active |-> TRUE, fn |-> r] \in Slot /\ EmptySlot \in Slot BY DEF Slot, EmptySlot
<1> HIDE DEF len
<1>4. CopyWith(r) = [k \in 1..(2 * len) |->
                       IF k \in Slots(vector) THEN slots[vector][k]
                       ELSE IF k = len + 1 THEN [active |-> TRUE, fn |-> r] ELSE EmptySlot]
  BY DEF CopyWith, len
<1>5. CopyWith(r) \in [1..(2 * len) -> Slot] BY <1>2, <1>3, <1>4, Zenon
<1>6. CopyWith(r) \in Seq(Slot)
  <2>1. 2 * len \in Nat BY <1>2
  <2> QED BY <1>5, <2>1, SeqDef
<1>7. new \in [Vec -> Seq(Slot)] BY <1>1, <1>6
<1>8. \A u \in Vec : new[u] = IF u = vector + 1 THEN CopyWith(r) ELSE slots[u] BY <1>1
<1> QED BY <1>4, <1>7, <1>8 DEF len, GrownBy

\* A write stores its callback in the first free slot.
LEMMA WriteSlotSets ==
  ASSUME TypeOK, NEW r \in Reg, WriteSlot(r)
  PROVE  /\ First(FreeSlots) \in FreeSlots
         /\ \A k \in FreeSlots : First(FreeSlots) <= k
         /\ SlotIs(slots', vector, First(FreeSlots), [active |-> FALSE, fn |-> r])
<1> DEFINE f == First(FreeSlots)
<1>a. vector \in Vec /\ slots \in [Vec -> Seq(Slot)] BY DEF TypeOK
<1>b. FreeSlots \in SUBSET Nat /\ FreeSlots \subseteq Slots(vector) BY <1>a, SlotsOf DEF FreeSlots
<1>1. f \in FreeSlots /\ \A k \in FreeSlots : f <= k BY <1>b, FirstIs DEF WriteSlot
<1>2. slots' = [slots EXCEPT ![vector][f].fn = r] BY DEF WriteSlot
<1>3. f \in Slots(vector) /\ slots[vector][f] \in Slot /\ slots[vector][f].active = FALSE
  BY <1>a, <1>b, <1>1, SlotsOf DEF FreeSlots
<1> HIDE DEF f
<1> DEFINE x == [slots[vector][f] EXCEPT !.fn = r]
           t == [slots[vector] EXCEPT ![f] = x]
<1>4. slots' = [slots EXCEPT ![vector] = t] BY <1>2
<1>5. x = [active |-> FALSE, fn |-> r] /\ x \in Slot BY <1>3, OtherCallback
<1> HIDE DEF x
<1>6. f \in Slots(vector) => x \in Slot BY <1>5
<1>7. t = [slots[vector] EXCEPT ![f] = x] OBVIOUS
<1> HIDE DEF t
<1>8. SlotIs(slots', vector, f, x) BY <1>a, <1>4, <1>6, <1>7, SlotSet, Zenon
<1> QED BY <1>1, <1>5, <1>8 DEF f

\* The first free slot, made active.
Activated == [slots[vector][First(FreeSlots)] EXCEPT !.active = TRUE]

\* A write makes it active.
LEMMA ActivateSets ==
  ASSUME TypeOK, NEW r \in Reg, WriteActivate(r)
  PROVE  /\ SlotIs(slots', vector, First(FreeSlots), Activated)
         /\ First(FreeSlots) \in Slots(vector) =>
              Activated = [active |-> TRUE, fn |-> slots[vector][First(FreeSlots)].fn]
<1> DEFINE f == First(FreeSlots)
<1>a. vector \in Vec /\ slots \in [Vec -> Seq(Slot)] BY DEF TypeOK
<1>b. FreeSlots \in SUBSET Nat /\ FreeSlots \subseteq Slots(vector) BY <1>a, SlotsOf DEF FreeSlots
<1>1. slots' = [slots EXCEPT ![vector][f].active = TRUE] BY DEF WriteActivate
<1> HIDE DEF f
<1> DEFINE x == [slots[vector][f] EXCEPT !.active = TRUE]
           t == [slots[vector] EXCEPT ![f] = x]
<1>2. slots' = [slots EXCEPT ![vector] = t] BY <1>1
<1>3. f \in Slots(vector) => x \in Slot /\ x = [active |-> TRUE, fn |-> slots[vector][f].fn]
  <2>1. f \in Slots(vector) => slots[vector][f] \in Slot BY <1>a, SlotsOf
  <2> QED BY <2>1, OtherFlag
<1> HIDE DEF x
<1>4. f \in Slots(vector) => x \in Slot BY <1>3
<1>5. t = [slots[vector] EXCEPT ![f] = x] OBVIOUS
<1> HIDE DEF t
<1>6. SlotIs(slots', vector, f, x) BY <1>a, <1>2, <1>4, <1>5, SlotSet, Zenon
<1> QED BY <1>3, <1>6 DEF f, x, Activated

\* It doubles the array that is full.
LEMMA GrowSets ==
  ASSUME TypeOK, NEW r \in Reg, WriteGrow(r)
  PROVE  GrownBy(slots', r)
<1>a. vector \in Vec BY DEF TypeOK
<1>1. vector + 1 \in Vec BY <1>a, RegistrationsAssumption DEF WriteGrow, Vec
<1>2. slots' = [slots EXCEPT ![vector + 1] = CopyWith(r)] BY DEF WriteGrow
<1> QED BY <1>1, <1>2, Grown, Zenon

\* A removal takes the registration out of the current array.
LEMMA CurrentSets ==
  ASSUME TypeOK, NEW r \in Reg, RemoveCurrent(r)
  PROVE  RemovedFrom(slots', vector, r)
<1>a. vector \in Vec BY DEF TypeOK
<1>1. slots' = [slots EXCEPT ![vector] = Without(vector, r)] BY DEF RemoveCurrent
<1> QED BY <1>a, <1>1, Removed, Zenon

\* It takes the registration out of an array in the queue.
LEMMA QueuedSets ==
  ASSUME TypeOK, NEW r \in Reg, NEW v \in Vec, GcLeftRemove(r, v)
  PROVE  RemovedFrom(slots', v, r)
<1>1. slots' = [slots EXCEPT ![v] = Without(v, r)] BY DEF GcLeftRemove
<1> QED BY <1>1, Removed, Zenon

\* It changes no callback, and makes no slot active.
LEMMA RemovedKeeps ==
  ASSUME NEW v \in Vec, NEW r \in Reg, RemovedFrom(slots', v, r), NEW u \in Vec, NEW k \in Slots(u)
  PROVE  /\ slots'[u][k].fn = slots[u][k].fn
         /\ slots'[u][k].active => slots[u][k].active
<1> DEFINE first == u = v /\ k \in Match(v, r) /\ k = First(Match(v, r))
<1>1. slots'[u][k] = IF first THEN [active |-> FALSE, fn |-> slots[u][k].fn] ELSE slots[u][k]
  BY DEF RemovedFrom
<1> HIDE DEF first
<1> QED BY <1>1

--------------------------------------------------------------------------------
(* Types *)

\* At first one array is there, and nobody at work.
LEMMA InitArray == Init => ArrayInv
<1> SUFFICES ASSUME Init PROVE ArrayInv OBVIOUS
<1>1. MaxVec \in Nat \ {0} /\ 1 \in Vec
  BY RegistrationsAssumption DEF Vec
<1>2. TypeOK
  <2>1. slots \in [Vec -> Seq(Slot)]
    <3>1. EmptySlot \in Slot BY DEF EmptySlot, Slot
    <3>2. FirstLen \in Nat BY RegistrationsAssumption
    <3>3. [i \in 1..FirstLen |-> EmptySlot] \in Seq(Slot)
      <4>1. [i \in 1..FirstLen |-> EmptySlot] \in [1..FirstLen -> Slot] BY <3>1
      <4> QED BY <3>2, <4>1, SeqDef
    <3>4. <<>> \in Seq(Slot) BY EmptySeq
    <3>5. slots = [v \in Vec |-> IF v = 1 THEN [i \in 1..FirstLen |-> EmptySlot] ELSE <<>>]
      BY DEF Init
    <3> DEFINE first == [i \in 1..FirstLen |-> EmptySlot]
               none == <<>>
    <3> HIDE DEF first, none
    <3>6. slots = [v \in Vec |-> IF v = 1 THEN first ELSE none] BY <3>5 DEF first, none
    <3>7. first \in Seq(Slot) /\ none \in Seq(Slot) BY <3>3, <3>4 DEF first, none
    <3> QED BY <3>6, <3>7
  <2>2. job \in Seq({"todo", "passed", "done"} \cup Reg)
    BY EmptySeq DEF Init
  <2>3. rounds \in 0..MaxRounds
    BY RegistrationsAssumption DEF Init
  <2>4. /\ vector \in Vec /\ rvec \in Vec
        /\ owners \in [Vec -> 0..2]
        /\ freed \subseteq Vec /\ gc \subseteq Vec /\ scan \subseteq Vec /\ doomed \subseteq Vec
        /\ callable \subseteq Reg
        /\ rpc \in {"idle", "loaded", "pass", "after", "gc"}
    BY <1>1 DEF Init
  <2>5. wpc \in [Reg -> {"out", "w_lock", "in", "r_lock"} \cup Writing]
    BY DEF Init
  <2> QED BY <2>1, <2>2, <2>3, <2>4, <2>5 DEF TypeOK
<1>3. \A r \in Reg : wpc[r] = "out"
  BY DEF Init
<1>4. OneWriter
  BY <1>3 DEF OneWriter, Writing
<1>5. Scanning
  BY DEF Init, Scanning
<1>10. Named
  BY RegistrationsAssumption DEF Init, Named, Slots, EmptySlot
<1>11. Stored
  BY <1>3 DEF Stored
<1>12. JobsMatch
  BY DEF Init, JobsMatch
<1>6. Replaced
  BY <1>3 DEF Init, Replaced
<1>7. OwnersAreUsers
  BY <1>1, <1>3 DEF Init, OwnersAreUsers
<1>8. NoArrayLeak
  BY DEF Init, NoArrayLeak
<1>9. rvec \in 1..vector
  BY DEF Init
<1> QED BY <1>2, <1>4, <1>5, <1>6, <1>7, <1>8, <1>9, <1>10, <1>11, <1>12 DEF ArrayInv

\* What is registered are registrations.
LEMMA RegisteredAre ==
  ASSUME TypeOK, Named
  PROVE  Registered \subseteq Reg
<1>1. vector \in Vec BY DEF TypeOK
<1> QED BY <1>1 DEF Registered, Named, FreeSlots

\* The steps of try_gc: arrays that it looks at and that have no owner are freed, and it
\* does not look while gc_left does.
GcMoves ==
  /\ UNCHANGED <<vector, slots, owners, wpc, doomed, rounds, rvec, job, callable>>
  /\ rpc \in {"after", "gc"} /\ rpc' \in {"after", "gc"}
  /\ freed \subseteq freed' /\ freed' \subseteq freed \cup scan
  /\ gc' \subseteq gc /\ freed \cup gc \subseteq freed' \cup gc'
  /\ scan' \subseteq gc \cup scan
  /\ \A v \in freed' \ freed : owners[v] = 0
  /\ \/ UNCHANGED <<rpc, freed, gc, scan>>
     \/ rpc = "gc" /\ (scan' = {} \/ rpc' = "gc")
     \/ rpc' = "gc" /\ UNCHANGED <<freed, gc>> /\ \A r \in Reg : wpc[r] # "r_scan"

\* So try_gc goes on.
LEMMA TryGcMoves ==
  ASSUME TryGc \/ TryGcStep
  PROVE  GcMoves
<1>1. CASE TryGcLock BY <1>1 DEF TryGcLock, GcUnlocked, GcMoves
<1>2. CASE TryGcMiss BY <1>2 DEF TryGcMiss, GcMoves, vars, writers, reader
<1>3. CASE TryGcUnlock BY <1>3 DEF TryGcUnlock, GcMoves, writers
<1>4. ASSUME NEW v \in Vec, TryGcVisit(v) PROVE GcMoves
  BY <1>4 DEF TryGcVisit, GcMoves, reader
<1> QED BY <1>1, <1>2, <1>3, <1>4, Zenon DEF TryGc, TryGcStep

\* What a step does to the places of the threads.
LEMMA Moves ==
  ASSUME Next
  PROVE  \/ wpc' = wpc
         \/ \E r \in Reg : \E l \in {"out", "w_lock", "in", "r_lock"} \cup Writing :
              /\ wpc' = [wpc EXCEPT ![r] = l]
              /\ l \in Writing => WriterUnlocked \/ wpc[r] \in Writing
<1>1. CASE Read
  BY <1>1 DEF Read, ReadLoad, ReadOwn, ReadEnd, ReadDrop, ReadFreed, Job, ReadFilter, ReadCallback,
              CallbackReturns, writers, vars
<1>4. CASE TryGc \/ TryGcStep BY <1>4, TryGcMoves DEF GcMoves
<1>2. ASSUME NEW r \in Reg, Register(r) \/ Unregister(r) \/ Write(r)
      PROVE  \E l \in {"out", "w_lock", "in", "r_lock"} \cup Writing :
               /\ wpc' = [wpc EXCEPT ![r] = l]
               /\ l \in Writing => WriterUnlocked \/ wpc[r] \in Writing
  BY <1>2 DEF Register, Unregister, Write, WriteLock, WriteSlot, WriteActivate, WriteGrow,
              WriteDisown, WritePush, WriteUnlock, Goto, Writing
<1>3. ASSUME NEW r \in Reg, Remove(r)
      PROVE  \/ wpc' = wpc
             \/ \E l \in {"out", "w_lock", "in", "r_lock"} \cup Writing :
                  /\ wpc' = [wpc EXCEPT ![r] = l]
                  /\ l \in Writing => WriterUnlocked \/ wpc[r] \in Writing
  BY <1>3 DEF Remove, RemoveLock, RemoveCurrent, GcLeftLock, GcLeftFree, GcLeftUnlock, RemoveUnlock,
              GcLeftOrphan, GcLeftRemove, Goto, Writing
<1> QED BY <1>1, <1>2, <1>3, <1>4, Zenon DEF Next

\* `writerlock` excludes.
LEMMA OneWriterStep ==
  ASSUME TypeOK, OneWriter, [Next]_vars
  PROVE  /\ OneWriter'
         /\ wpc' \in [Reg -> {"out", "w_lock", "in", "r_lock"} \cup Writing]
<1>1. wpc \in [Reg -> {"out", "w_lock", "in", "r_lock"} \cup Writing] BY DEF TypeOK
<1>2. CASE wpc' = wpc BY <1>1, <1>2 DEF OneWriter
<1>3. ASSUME NEW r \in Reg, NEW l \in {"out", "w_lock", "in", "r_lock"} \cup Writing,
             wpc' = [wpc EXCEPT ![r] = l],
             l \in Writing => WriterUnlocked \/ wpc[r] \in Writing
      PROVE  /\ OneWriter'
             /\ wpc' \in [Reg -> {"out", "w_lock", "in", "r_lock"} \cup Writing]
  BY <1>1, <1>3 DEF OneWriter, WriterUnlocked
<1>4. CASE UNCHANGED vars BY <1>2, <1>4 DEF vars, writers
<1> QED BY <1>2, <1>3, <1>4, Moves

\* No slot is changed, and no callback is stored.
SetsNone ==
  /\ UNCHANGED <<vector, slots>>
  /\ \/ wpc' = wpc
     \/ \E r \in Reg : \E l : wpc' = [wpc EXCEPT ![r] = l] /\ "w_active" \notin {l, wpc[r]}

\* The steps that change a slot.
LEMMA SlotKinds ==
  ASSUME [Next]_vars
  PROVE  \/ SetsNone
         \/ \E r \in Reg : \/ WriteSlot(r) \/ WriteActivate(r) \/ WriteGrow(r) \/ RemoveCurrent(r)
                           \/ \E v \in Vec : GcLeftRemove(r, v)
<1> DEFINE Same == UNCHANGED <<vector, slots>>
           Hop(r) == \E l : wpc' = [wpc EXCEPT ![r] = l] /\ "w_active" \notin {l, wpc[r]}
<1>1. CASE Read
  BY <1>1 DEF Read, ReadLoad, ReadOwn, ReadEnd, ReadDrop, ReadFreed, Job, ReadFilter, ReadCallback,
              CallbackReturns, writers, vars, SetsNone
<1>7. CASE TryGc \/ TryGcStep BY <1>7, TryGcMoves DEF GcMoves, SetsNone
<1>2. ASSUME NEW r \in Reg, Register(r) \/ Unregister(r) \/ Write(r)
      PROVE  (Same /\ Hop(r)) \/ WriteSlot(r) \/ WriteActivate(r) \/ WriteGrow(r)
  BY <1>2 DEF Register, Unregister, Write, WriteLock, WriteDisown, WritePush, WriteUnlock, Goto
<1>3. ASSUME NEW r \in Reg, Remove(r)
      PROVE  \/ Same /\ Hop(r)
             \/ Same /\ wpc' = wpc
             \/ RemoveCurrent(r) \/ \E v \in Vec : GcLeftRemove(r, v)
  BY <1>3 DEF Remove, RemoveLock, GcLeftLock, GcLeftFree, GcLeftUnlock, RemoveUnlock, GcLeftOrphan, Goto
<1>4. CASE UNCHANGED vars BY <1>4 DEF vars, writers, SetsNone
<1>5. CASE \E r \in Reg : Register(r) \/ Unregister(r) \/ Write(r) BY <1>2, <1>5, Zenon DEF SetsNone
<1>6. CASE \E r \in Reg : Remove(r) BY <1>3, <1>6, Zenon DEF SetsNone
<1> QED BY <1>1, <1>4, <1>5, <1>6, <1>7, Zenon DEF Next

\* Slots keep their type.
LEMMA SlotsTypeStep ==
  ASSUME TypeOK, [Next]_vars
  PROVE  slots' \in [Vec -> Seq(Slot)]
<1>1. slots \in [Vec -> Seq(Slot)] BY DEF TypeOK
<1>2. ASSUME NEW r \in Reg,
             \/ WriteSlot(r) \/ WriteActivate(r) \/ WriteGrow(r) \/ RemoveCurrent(r)
             \/ \E v \in Vec : GcLeftRemove(r, v)
      PROVE  slots' \in [Vec -> Seq(Slot)]
  <2>1. \A v, i, x : SlotIs(slots', v, i, x) => slots' \in [Vec -> Seq(Slot)] BY DEF SlotIs
  <2>2. \A q : GrownBy(slots', q) => slots' \in [Vec -> Seq(Slot)] BY DEF GrownBy
  <2>3. \A v, q : RemovedFrom(slots', v, q) => slots' \in [Vec -> Seq(Slot)] BY DEF RemovedFrom
  <2>4. CASE WriteSlot(r) BY <2>1, <2>4, WriteSlotSets
  <2>5. CASE WriteActivate(r)
    <3>1. SlotIs(slots', vector, First(FreeSlots), Activated) BY <2>5, ActivateSets
    <3> QED BY <2>1, <3>1
  <2>6. CASE WriteGrow(r) BY <2>2, <2>6, GrowSets
  <2>7. CASE RemoveCurrent(r) BY <2>3, <2>7, CurrentSets
  <2>8. CASE \E v \in Vec : GcLeftRemove(r, v) BY <2>3, <2>8, QueuedSets
  <2> QED BY <1>2, <2>4, <2>5, <2>6, <2>7, <2>8
<1>3. CASE SetsNone BY <1>1, <1>3 DEF SetsNone
<1> QED BY <1>2, <1>3, SlotKinds, Zenon

\* The users of an array change in five ways; other steps free arrays, at most.
LEMMA UserKinds ==
  ASSUME TypeOK, [Next]_vars
  PROVE  \/ /\ UNCHANGED <<vector, owners, rvec>>
            /\ freed \subseteq freed'
            /\ rpc' \in {"pass", "after", "gc"} <=> rpc \in {"pass", "after", "gc"}
            /\ \A r \in Reg : wpc'[r] = "w_disown" <=> wpc[r] = "w_disown"
         \/ ReadLoad \/ ReadOwn \/ ReadDrop
         \/ \E r \in Reg : WriteGrow(r) \/ WriteDisown(r)
<1> DEFINE Same == /\ UNCHANGED <<vector, owners, rvec>>
                   /\ freed \subseteq freed'
                   /\ rpc' \in {"pass", "after", "gc"} <=> rpc \in {"pass", "after", "gc"}
                   /\ \A r \in Reg : wpc'[r] = "w_disown" <=> wpc[r] = "w_disown"
<1>1. wpc \in [Reg -> {"out", "w_lock", "in", "r_lock"} \cup Writing] BY DEF TypeOK
<1>2. CASE Read
  BY <1>1, <1>2 DEF Read, ReadEnd, ReadFreed, Job, ReadFilter, ReadCallback, CallbackReturns,
                    writers, reader, vars
<1>3. CASE TryGc \/ TryGcStep
  BY <1>3, TryGcMoves DEF GcMoves
<1>4. ASSUME NEW r \in Reg, Register(r) \/ Unregister(r) \/ Write(r)
      PROVE  Same \/ WriteGrow(r) \/ WriteDisown(r)
  BY <1>1, <1>4 DEF Register, Unregister, Write, WriteLock, WriteSlot, WriteActivate, WritePush,
                    WriteUnlock, Goto, reader
<1>5. ASSUME NEW r \in Reg, Remove(r)
      PROVE  Same
  BY <1>1, <1>5 DEF Remove, RemoveLock, RemoveCurrent, GcLeftLock, GcLeftFree, GcLeftUnlock,
                    RemoveUnlock, GcLeftOrphan, GcLeftRemove, Goto, reader
<1>6. CASE UNCHANGED vars BY <1>1, <1>6 DEF vars, writers, reader
<1> HIDE DEF Same
<1>7. CASE Next BY <1>2, <1>3, <1>4, <1>5, <1>7, Zenon DEF Next, Same
<1> QED BY <1>6, <1>7 DEF Same

--------------------------------------------------------------------------------
(* Owners *)

\* The pointer of the registry to v, which a write that replaced v drops later.
Pointed(v) == v = vector \/ (v = vector - 1 /\ \E r \in Reg : wpc[r] = "w_disown")

\* The guard of the reader on v.
Guarded(v) == rvec = v /\ rpc \in {"pass", "after", "gc"}

\* The users of an array in use are counted.
LEMMA OwnersOf ==
  ASSUME OwnersAreUsers, NEW v \in (1..vector) \ freed
  PROVE  owners[v] = (IF Pointed(v) THEN 1 ELSE 0) + (IF Guarded(v) THEN 1 ELSE 0)
BY DEF OwnersAreUsers, Pointed, Guarded

\* The counts, and the arrays that are known.
LEMMA OwnersStep ==
  ASSUME ArrayInv, [Next]_vars
  PROVE  /\ OwnersAreUsers'
         /\ owners' \in [Vec -> 0..2]
         /\ vector' \in Vec
         /\ rvec' \in 1..vector'
<1> DEFINE Goal == /\ OwnersAreUsers'
                   /\ owners' \in [Vec -> 0..2]
                   /\ vector' \in Vec
                   /\ rvec' \in 1..vector'
<1>1. /\ TypeOK /\ OneWriter /\ Replaced /\ OwnersAreUsers
      /\ vector \in Vec /\ rvec \in 1..vector /\ owners \in [Vec -> 0..2]
      /\ wpc \in [Reg -> {"out", "w_lock", "in", "r_lock"} \cup Writing]
      /\ MaxVec \in Nat /\ Vec = 1..MaxVec
  BY RegistrationsAssumption DEF ArrayInv, TypeOK, Vec
<1>2. ASSUME UNCHANGED <<vector, owners, rvec>>,
             freed \subseteq freed',
             rpc' \in {"pass", "after", "gc"} <=> rpc \in {"pass", "after", "gc"},
             \A r \in Reg : wpc'[r] = "w_disown" <=> wpc[r] = "w_disown"
      PROVE  Goal
  <2>1. OwnersAreUsers'
    <3> SUFFICES ASSUME NEW v \in (1..vector) \ freed'
                 PROVE  owners[v] = (IF v = vector \/ (v = vector - 1 /\ \E r \in Reg : wpc'[r] = "w_disown")
                                     THEN 1 ELSE 0)
                                    + (IF rvec = v /\ rpc' \in {"pass", "after", "gc"} THEN 1 ELSE 0)
      BY <1>2 DEF OwnersAreUsers
    <3>1. v \in (1..vector) \ freed BY <1>2
    <3> QED BY <1>1, <1>2, <3>1, OwnersOf DEF Pointed, Guarded
  <2> QED BY <1>1, <1>2, <2>1
<1>3. CASE ReadLoad
  <2>1. OwnersAreUsers'
    BY <1>1, <1>3 DEF ReadLoad, OwnersAreUsers, writers
  <2> QED BY <1>1, <1>3, <2>1 DEF ReadLoad
<1>4. CASE ReadOwn
  <2>1. rvec \in (1..vector) \ freed /\ rvec \in Vec BY <1>1, <1>4 DEF ReadOwn
  <2>2. owners[rvec] \in 0..1 BY <1>1, <1>4, <2>1, OwnersOf DEF Pointed, Guarded, ReadOwn
  <2>3. owners' = [owners EXCEPT ![rvec] = owners[rvec] + 1] BY <1>4 DEF ReadOwn
  <2>4. owners' \in [Vec -> 0..2] BY <1>1, <2>2, <2>3
  <2>5. OwnersAreUsers'
    BY <1>1, <1>4, <2>1, <2>3 DEF ReadOwn, OwnersAreUsers, writers
  <2> QED BY <1>1, <1>4, <2>4, <2>5 DEF ReadOwn
<1>5. CASE ReadDrop
  <2>1. rvec \in (1..vector) \ freed /\ rvec \in Vec BY <1>1, <1>5 DEF ReadDrop
  <2>2. owners[rvec] \in 1..2 BY <1>1, <1>5, <2>1, OwnersOf DEF Pointed, Guarded, ReadDrop
  <2>3. owners' = [owners EXCEPT ![rvec] = owners[rvec] - 1] BY <1>5 DEF ReadDrop
  <2>4. owners' \in [Vec -> 0..2] BY <1>1, <2>2, <2>3
  <2>5. OwnersAreUsers'
    BY <1>1, <1>5, <2>1, <2>3 DEF ReadDrop, OwnersAreUsers, writers
  <2> QED BY <1>1, <1>5, <2>4, <2>5 DEF ReadDrop
<1>6. ASSUME NEW r \in Reg, WriteGrow(r) PROVE Goal
  <2>1. vector + 1 \in Vec /\ vector' = vector + 1 /\ rvec' = rvec /\ rpc' = rpc
    BY <1>1, <1>6 DEF WriteGrow, reader
  <2>2. owners' = [owners EXCEPT ![vector + 1] = 1] BY <1>6 DEF WriteGrow
  <2>3. wpc' = [wpc EXCEPT ![r] = "w_disown"] /\ wpc[r] = "w_slot" /\ freed' = freed
    BY <1>6 DEF WriteGrow, Goto
  <2>4. \A s \in Reg : wpc[s] # "w_disown" BY <1>1, <2>3 DEF OneWriter, Writing
  <2>5. ASSUME NEW v \in (1..vector) \ freed PROVE Pointed(v) <=> v = vector
    BY <2>4 DEF Pointed
  <2>6. \E s \in Reg : wpc'[s] = "w_disown" BY <1>1, <2>3
  <2>7. ASSUME NEW v \in (1..vector') \ freed'
        PROVE  owners'[v] = (IF v = vector + 1 \/ v = vector THEN 1 ELSE 0)
                            + (IF rvec = v /\ rpc \in {"pass", "after", "gc"} THEN 1 ELSE 0)
    <3>1. CASE v = vector + 1
      <4>1. rvec # v BY <1>1, <3>1
      <4> QED BY <1>1, <2>1, <2>2, <3>1, <4>1
    <3>2. CASE v # vector + 1
      <4>1. v \in (1..vector) \ freed BY <1>1, <2>1, <2>3, <3>2
      <4>2. owners'[v] = owners[v] BY <1>1, <2>2, <3>2, <4>1
      <4> QED BY <1>1, <2>5, <3>2, <4>1, <4>2, OwnersOf DEF Guarded
    <3> QED BY <3>1, <3>2
  <2>8. OwnersAreUsers'
    <3> SUFFICES ASSUME NEW v \in (1..vector') \ freed'
                 PROVE  owners'[v] = (IF v = vector' \/ (v = vector' - 1 /\ \E s \in Reg : wpc'[s] = "w_disown")
                                      THEN 1 ELSE 0)
                                     + (IF rvec' = v /\ rpc' \in {"pass", "after", "gc"} THEN 1 ELSE 0)
      BY DEF OwnersAreUsers
    <3>1. v = vector' \/ (v = vector' - 1 /\ \E s \in Reg : wpc'[s] = "w_disown") <=> v = vector + 1 \/ v = vector
      BY <1>1, <2>1, <2>6
    <3> QED BY <2>1, <2>7, <3>1
  <2> QED BY <1>1, <2>1, <2>2, <2>8
<1>7. ASSUME NEW r \in Reg, WriteDisown(r) PROVE Goal
  <2>1. /\ wpc[r] = "w_disown" /\ wpc' = [wpc EXCEPT ![r] = "w_push"]
        /\ UNCHANGED <<vector, freed, rvec, rpc>>
    BY <1>7 DEF WriteDisown, Goto, reader
  <2>2. owners' = [owners EXCEPT ![vector - 1] = owners[vector - 1] - 1] BY <1>7 DEF WriteDisown
  <2>3. vector - 1 \in (1..vector) \ freed /\ vector - 1 \in Vec
    BY <1>1, <2>1 DEF Replaced
  <2>4. owners[vector - 1] \in 1..2
    BY <1>1, <2>1, <2>3, OwnersOf DEF Pointed
  <2>5. owners' \in [Vec -> 0..2] BY <1>1, <2>2, <2>3, <2>4
  <2>6. \A s \in Reg : wpc'[s] # "w_disown" BY <1>1, <2>1 DEF OneWriter, Writing
  <2>7. ASSUME NEW v \in (1..vector) \ freed
        PROVE  owners'[v] = (IF v = vector THEN 1 ELSE 0) + (IF Guarded(v) THEN 1 ELSE 0)
    <3>1. Pointed(v) <=> v = vector \/ v = vector - 1 BY <2>1 DEF Pointed
    <3>2. owners[v] = (IF Pointed(v) THEN 1 ELSE 0) + (IF Guarded(v) THEN 1 ELSE 0) BY <1>1, OwnersOf
    <3>3. v \in Vec BY <1>1
    <3> QED BY <1>1, <2>2, <2>3, <3>1, <3>2, <3>3
  <2>8. OwnersAreUsers'
    BY <2>1, <2>6, <2>7 DEF OwnersAreUsers, Guarded
  <2> QED BY <1>1, <2>1, <2>5, <2>8
<1> HIDE DEF Goal
<1>8. Goal
  <2>1. ReadLoad \/ ReadOwn \/ ReadDrop => Goal BY <1>3, <1>4, <1>5 DEF Goal
  <2> QED BY <1>1, <1>2, <1>6, <1>7, <2>1, UserKinds
<1> QED BY <1>8 DEF Goal

--------------------------------------------------------------------------------
(* The queue of replaced arrays *)

\* Where a thread is while it moves an array.
Midway == {"w_disown", "w_push", "r_scan"}

\* No array is moved.
MovesNone ==
  /\ UNCHANGED <<vector, gc, scan, doomed, freed>>
  /\ rpc' = "gc" <=> rpc = "gc"
  /\ \/ wpc' = wpc
     \/ \E r \in Reg : \E l : wpc' = [wpc EXCEPT ![r] = l] /\ {l, wpc[r]} \cap Midway = {}

\* The steps that move an array on its way from the pointer to the allocator.
LEMMA QueueKinds ==
  ASSUME TypeOK, [Next]_vars
  PROVE  \/ MovesNone
         \/ TryGc \/ TryGcStep
         \/ \E r \in Reg :
              \/ WriteGrow(r) \/ WriteDisown(r) \/ WritePush(r)
              \/ GcLeftLock(r) \/ GcLeftFree(r) \/ GcLeftUnlock(r)
              \/ \E v \in Vec : GcLeftOrphan(r, v) \/ GcLeftRemove(r, v)
<1> DEFINE Same == UNCHANGED <<vector, gc, scan, doomed, freed>> /\ (rpc' = "gc" <=> rpc = "gc")
           Hop(r) == \E l : /\ wpc' = [wpc EXCEPT ![r] = l]
                           /\ {l, wpc[r]} \cap Midway = {}
<1>1. CASE Read
  BY <1>1 DEF Read, ReadLoad, ReadOwn, ReadDrop, ReadEnd, ReadFreed, Job, ReadFilter,
              ReadCallback, CallbackReturns, writers, reader, vars, MovesNone
<1>2. ASSUME NEW r \in Reg, Register(r) \/ Unregister(r) \/ Write(r)
      PROVE  (Same /\ Hop(r)) \/ WriteGrow(r) \/ WriteDisown(r) \/ WritePush(r)
  BY <1>2 DEF Register, Unregister, Write, WriteLock, WriteSlot, WriteActivate, WriteUnlock, Goto, Midway,
              reader
<1>3. ASSUME NEW r \in Reg, Remove(r)
      PROVE  \/ Same /\ Hop(r)
             \/ GcLeftLock(r) \/ GcLeftFree(r) \/ GcLeftUnlock(r)
             \/ \E v \in Vec : GcLeftOrphan(r, v) \/ GcLeftRemove(r, v)
  BY <1>3 DEF Remove, RemoveLock, RemoveCurrent, RemoveUnlock, Goto, Midway, reader
<1>4. CASE UNCHANGED vars BY <1>4 DEF vars, writers, reader, MovesNone
<1>6. CASE \E r \in Reg : Register(r) \/ Unregister(r) \/ Write(r) BY <1>2, <1>6, Zenon DEF MovesNone
<1>7. CASE \E r \in Reg : Remove(r) BY <1>3, <1>7, Zenon DEF MovesNone
<1> QED BY <1>1, <1>4, <1>6, <1>7, Zenon DEF Next

\* No array is lost on the way, and none comes too early.
LEMMA QueueStep ==
  ASSUME ArrayInv, [Next]_vars
  PROVE  /\ Scanning'
         /\ Replaced'
         /\ NoArrayLeak'
<1> DEFINE Goal == Scanning' /\ Replaced' /\ NoArrayLeak'
<1>1. /\ TypeOK /\ OneWriter /\ Scanning /\ Replaced /\ NoArrayLeak
      /\ vector \in Nat \ {0}
      /\ wpc \in [Reg -> {"out", "w_lock", "in", "r_lock"} \cup Writing]
  BY RegistrationsAssumption DEF ArrayInv, TypeOK, Vec
<1>2. ASSUME MovesNone PROVE Goal
  <2>0. /\ UNCHANGED <<vector, gc, scan, doomed, freed>>
        /\ rpc' = "gc" <=> rpc = "gc"
        /\ \/ wpc' = wpc
           \/ \E r \in Reg : \E l : wpc' = [wpc EXCEPT ![r] = l] /\ {l, wpc[r]} \cap Midway = {}
    BY <1>2 DEF MovesNone
  <2>1. \A s \in Reg : wpc'[s] = wpc[s] \/ {wpc'[s], wpc[s]} \cap Midway = {}
    BY <1>1, <2>0
  <2>2. Scanning' BY <1>1, <2>0, <2>1 DEF Scanning, Midway
  <2>3. Replaced' BY <1>1, <2>0, <2>1 DEF Replaced, Midway
  <2>4. NoArrayLeak' BY <1>1, <2>0, <2>1 DEF NoArrayLeak, Midway
  <2> QED BY <2>2, <2>3, <2>4
<1>3. ASSUME TryGc \/ TryGcStep PROVE Goal
  <2>1. GcMoves BY <1>3, TryGcMoves
  <2>2. Scanning' BY <1>1, <2>1 DEF GcMoves, Scanning
  <2>3. Replaced' BY <1>1, <2>1 DEF GcMoves, Replaced
  <2>4. NoArrayLeak' BY <1>1, <2>1 DEF GcMoves, NoArrayLeak
  <2> QED BY <2>2, <2>3, <2>4
<1>4. ASSUME NEW r \in Reg, WriteGrow(r) PROVE Goal
  <2>1. /\ wpc[r] = "w_slot" /\ wpc' = [wpc EXCEPT ![r] = "w_disown"]
        /\ vector' = vector + 1
        /\ UNCHANGED <<gc, scan, doomed, freed, rpc>>
    BY <1>4 DEF WriteGrow, Goto, reader
  <2>2. \A s \in Reg : wpc[s] \notin {"w_disown", "w_push", "r_scan"}
    BY <1>1, <2>1 DEF OneWriter, Writing
  <2>3. Scanning' BY <1>1, <2>1, <2>2 DEF Scanning
  <2>4. Replaced' BY <1>1, <2>1, <2>2 DEF Replaced
  <2>5. NoArrayLeak' BY <1>1, <2>1, <2>2 DEF NoArrayLeak
  <2> QED BY <2>3, <2>4, <2>5
<1>5. ASSUME NEW r \in Reg, WriteDisown(r) PROVE Goal
  <2>1. /\ wpc[r] = "w_disown" /\ wpc' = [wpc EXCEPT ![r] = "w_push"]
        /\ UNCHANGED <<vector, gc, scan, doomed, freed, rpc>>
    BY <1>5 DEF WriteDisown, Goto, reader
  <2>2. Scanning' BY <1>1, <2>1 DEF Scanning
  <2>3. Replaced' BY <1>1, <2>1 DEF Replaced
  <2>4. NoArrayLeak' BY <1>1, <2>1 DEF NoArrayLeak
  <2> QED BY <2>2, <2>3, <2>4
<1>6. ASSUME NEW r \in Reg, WritePush(r) PROVE Goal
  <2>1. /\ wpc[r] = "w_push" /\ wpc' = [wpc EXCEPT ![r] = "w_unlock"]
        /\ gc' = gc \cup {vector - 1}
        /\ UNCHANGED <<vector, scan, doomed, freed, rpc>>
    BY <1>6 DEF WritePush, Goto, reader
  <2>2. \A s \in Reg : s # r => wpc[s] \notin {"w_disown", "w_push", "r_scan"}
    BY <1>1, <2>1 DEF OneWriter, Writing
  <2>3. Scanning' BY <1>1, <2>1, <2>2 DEF Scanning
  <2>4. Replaced' BY <1>1, <2>1, <2>2 DEF Replaced
  <2>5. NoArrayLeak' BY <1>1, <2>1, <2>2 DEF NoArrayLeak
  <2> QED BY <2>3, <2>4, <2>5
<1>7. ASSUME NEW r \in Reg, GcLeftLock(r) PROVE Goal
  <2>1. /\ wpc[r] = "r_gc" /\ wpc' = [wpc EXCEPT ![r] = "r_scan"]
        /\ scan' = gc
        /\ rpc # "gc"
        /\ UNCHANGED <<vector, gc, doomed, freed, rpc>>
    BY <1>7 DEF GcLeftLock, GcUnlocked, Goto, reader
  <2>2. \A s \in Reg : wpc[s] \notin {"w_disown", "w_push", "r_scan"}
    BY <1>1, <2>1 DEF OneWriter, Writing
  <2>3. Scanning' BY <1>1, <2>1, <2>2 DEF Scanning
  <2>4. Replaced' BY <1>1, <2>1, <2>2 DEF Replaced
  <2>5. NoArrayLeak' BY <1>1, <2>1, <2>2 DEF NoArrayLeak
  <2> QED BY <2>3, <2>4, <2>5
<1>8. ASSUME NEW r \in Reg, GcLeftUnlock(r) PROVE Goal
  <2>1. /\ wpc[r] = "r_scan" /\ wpc' = [wpc EXCEPT ![r] = "r_unlock"]
        /\ scan = {} /\ doomed = {}
        /\ UNCHANGED <<vector, gc, scan, doomed, freed, rpc>>
    BY <1>8 DEF GcLeftUnlock, Goto, reader
  <2>2. Scanning' BY <1>1, <2>1 DEF Scanning
  <2>3. Replaced' BY <1>1, <2>1 DEF Replaced
  <2>4. NoArrayLeak' BY <1>1, <2>1 DEF NoArrayLeak
  <2> QED BY <2>2, <2>3, <2>4
<1>9. ASSUME NEW r \in Reg,
             \/ GcLeftFree(r)
             \/ \E v \in Vec : GcLeftOrphan(r, v) \/ GcLeftRemove(r, v)
      PROVE  Goal
  <2>1. /\ wpc[r] = "r_scan" /\ wpc' = wpc /\ vector' = vector /\ rpc' = rpc
        /\ scan' \subseteq scan
        /\ gc' \cup scan' \cup doomed' \cup freed' \subseteq gc \cup scan \cup doomed \cup freed
        /\ freed \cup gc \cup doomed \subseteq freed' \cup gc' \cup doomed'
    BY <1>9 DEF GcLeftFree, GcLeftOrphan, GcLeftRemove, reader
  <2>2. Scanning' BY <1>1, <2>1 DEF Scanning
  <2>3. Replaced' BY <1>1, <2>1 DEF Replaced
  <2>4. NoArrayLeak' BY <1>1, <2>1 DEF NoArrayLeak
  <2> QED BY <2>2, <2>3, <2>4
<1> HIDE DEF Goal
<1>10. Goal
  <2>2. CASE \E r \in Reg :
              \/ WriteGrow(r) \/ WriteDisown(r) \/ WritePush(r)
              \/ GcLeftLock(r) \/ GcLeftFree(r) \/ GcLeftUnlock(r)
              \/ \E v \in Vec : GcLeftOrphan(r, v) \/ GcLeftRemove(r, v)
    BY <1>4, <1>5, <1>6, <1>7, <1>8, <1>9, <2>2, Zenon
  <2> QED BY <1>1, <1>2, <1>3, <2>2, QueueKinds, Zenon
<1> QED BY <1>10 DEF Goal

--------------------------------------------------------------------------------
(* Type correctness *)

\* The steps of the reader that change its jobs.
LEMMA JobKinds ==
  ASSUME [Next]_vars
  PROVE  \/ UNCHANGED <<job, rvec>> /\ (rpc' = "pass" <=> rpc = "pass")
         \/ ReadLoad \/ ReadDrop
         \/ ReadOwn \/ ReadEnd \/ \E i \in DOMAIN job : Job(i)
<1>1. CASE Read BY <1>1 DEF Read, ReadFreed, vars, reader
<1>2. CASE TryGc \/ TryGcStep BY <1>2, TryGcMoves DEF GcMoves
<1>3. ASSUME NEW r \in Reg, Register(r) \/ Unregister(r) \/ Write(r) \/ Remove(r)
      PROVE  UNCHANGED <<job, rpc, rvec>>
  BY <1>3 DEF Register, Unregister, Write, WriteLock, WriteSlot, WriteActivate, WriteGrow, WriteDisown,
              WritePush, WriteUnlock, Remove, RemoveLock, RemoveCurrent, GcLeftLock, GcLeftFree,
              GcLeftUnlock, RemoveUnlock, GcLeftOrphan, GcLeftRemove, reader
<1>4. CASE UNCHANGED vars BY <1>4 DEF vars, reader
<1> QED BY <1>1, <1>2, <1>3, <1>4, Zenon DEF Next

\* Jobs are numbered like the slots they are made for.
LEMMA JobsTypeStep ==
  ASSUME TypeOK, JobsMatch, [Next]_vars
  PROVE  job' \in Seq({"todo", "passed", "done"} \cup Reg)
<1> DEFINE J == {"todo", "passed", "done"} \cup Reg
<1>1. job \in Seq(J) /\ rvec \in Vec BY DEF TypeOK
<1> HIDE DEF J
<1>2. CASE ReadOwn
  <2>1. Len(slots[rvec]) \in Nat /\ Slots(rvec) = 1..Len(slots[rvec]) BY <1>1, SlotsOf
  <2>2. job' = [i \in 1..Len(slots[rvec]) |-> "todo"] BY <1>2, <2>1 DEF ReadOwn
  <2>3. job' \in [1..Len(slots[rvec]) -> J] BY <2>2 DEF J
  <2> QED BY <2>1, <2>3, SeqDef DEF J
<1>3. CASE ReadEnd
  <2>1. <<>> \in Seq(J) BY EmptySeq
  <2> QED BY <1>3, <2>1 DEF ReadEnd, J
<1>4. ASSUME NEW i \in DOMAIN job, Job(i) PROVE job' \in Seq(J)
  <2>1. i \in 1..Len(job) BY <1>1, LenProperties
  <2>2. PICK x \in J : job' = [job EXCEPT ![i] = x]
    <3>1. CASE ReadFilter(i) \/ CallbackReturns(i)
      BY <1>4, <3>1 DEF ReadFilter, CallbackReturns, J
    <3>2. CASE ReadCallback(i)
      <4>1. i \in Slots(rvec) BY <1>4, <3>2 DEF ReadCallback, JobsMatch
      <4>2. slots[rvec][i].fn \in Reg \cup {Nobody} BY <1>1, <4>1, SlotsOf
      <4> QED BY <3>2, <4>2 DEF ReadCallback, J
    <3> QED BY <1>4, <3>1, <3>2 DEF Job
  <2> QED BY <1>1, <2>1, <2>2, ExceptSeq
<1>5. CASE UNCHANGED job \/ ReadLoad \/ ReadDrop
  BY <1>1, <1>5 DEF ReadLoad, ReadDrop, J
<1> QED BY <1>2, <1>3, <1>4, <1>5, JobKinds DEF J

\* An array that was made keeps its length.
LEMMA LengthsStep ==
  ASSUME TypeOK, [Next]_vars
  PROVE  \A v \in 1..vector : DOMAIN slots'[v] = Slots(v)
<1>1. 1..vector \subseteq Vec /\ vector \in Nat BY RegistrationsAssumption DEF TypeOK, Vec
<1>2. ASSUME NEW v \in 1..vector, NEW r \in Reg,
             \/ WriteSlot(r) \/ WriteActivate(r) \/ WriteGrow(r) \/ RemoveCurrent(r)
             \/ \E u \in Vec : GcLeftRemove(r, u)
      PROVE  DOMAIN slots'[v] = Slots(v)
  <2>1. v \in Vec /\ v # vector + 1 BY <1>1
  <2>2. \A u, i, x : SlotIs(slots', u, i, x) => DOMAIN slots'[v] = Slots(v) BY <2>1 DEF SlotIs
  <2>3. \A q : GrownBy(slots', q) => DOMAIN slots'[v] = Slots(v) BY <2>1 DEF GrownBy, Slots
  <2>4. \A u, q : RemovedFrom(slots', u, q) => DOMAIN slots'[v] = Slots(v) BY <2>1 DEF RemovedFrom
  <2>5. CASE WriteSlot(r) BY <2>2, <2>5, WriteSlotSets
  <2>6. CASE WriteActivate(r)
    <3>1. SlotIs(slots', vector, First(FreeSlots), Activated) BY <2>6, ActivateSets
    <3> QED BY <2>2, <3>1
  <2>7. CASE WriteGrow(r) BY <2>3, <2>7, GrowSets
  <2>8. CASE RemoveCurrent(r) BY <2>4, <2>8, CurrentSets
  <2>9. CASE \E u \in Vec : GcLeftRemove(r, u) BY <2>4, <2>9, QueuedSets
  <2> QED BY <1>2, <2>5, <2>6, <2>7, <2>8, <2>9
<1>3. CASE SetsNone BY <1>3 DEF SetsNone, Slots
<1> QED BY <1>2, <1>3, SlotKinds, Zenon

\* The jobs of a pass go on matching the slots.
LEMMA JobsMatchStep ==
  ASSUME ArrayInv, [Next]_vars
  PROVE  JobsMatch'
<1>1. TypeOK /\ JobsMatch /\ rvec \in 1..vector /\ rvec \in Vec /\ vector \in Vec BY DEF ArrayInv, TypeOK
<1>2. DOMAIN slots'[rvec] = Slots(rvec) BY <1>1, LengthsStep
<1>3. Slots(rvec) = 1..Len(slots[rvec]) BY <1>1, SlotsOf
<1>4. CASE UNCHANGED <<job, rvec>> /\ (rpc' = "pass" <=> rpc = "pass") BY <1>1, <1>2, <1>4 DEF JobsMatch, Slots
<1>5. CASE ReadLoad \/ ReadDrop BY <1>1, <1>5 DEF ReadLoad, ReadDrop, JobsMatch
<1>6. CASE ReadOwn BY <1>2, <1>6 DEF ReadOwn, JobsMatch, Slots
<1>7. CASE ReadEnd BY <1>7 DEF ReadEnd, JobsMatch
<1>8. CASE \E i \in DOMAIN job : Job(i)
  <2>1. rpc = "pass" /\ rpc' = "pass" /\ rvec' = rvec /\ slots' = slots /\ DOMAIN job' = DOMAIN job
    BY <1>8 DEF Job, ReadFilter, ReadCallback, CallbackReturns
  <2> QED BY <1>1, <2>1 DEF JobsMatch, Slots
<1> QED BY <1>4, <1>5, <1>6, <1>7, <1>8, JobKinds

\* Only a callback is ever made active.
LEMMA NamedStep ==
  ASSUME ArrayInv, [Next]_vars
  PROVE  Named'
<1>1. TypeOK /\ Named /\ Stored /\ vector \in Vec /\ vector \in Nat /\ slots \in [Vec -> Seq(Slot)]
  BY RegistrationsAssumption DEF ArrayInv, TypeOK, Vec
<1>2. \A v \in Vec : \A i \in Slots(v) : slots[v][i].active => slots[v][i].fn \in Reg
  BY <1>1 DEF Named
<1> DEFINE Goal == \A v \in Vec : \A i \in DOMAIN slots'[v] : slots'[v][i].active => slots'[v][i].fn \in Reg
<1>3. ASSUME NEW r \in Reg, WriteSlot(r) PROVE Goal
  <2> DEFINE f == First(FreeSlots)
  <2>1. SlotIs(slots', vector, f, [active |-> FALSE, fn |-> r]) BY <1>1, <1>3, WriteSlotSets
  <2> HIDE DEF f
  <2> QED BY <1>2, <2>1 DEF SlotIs
<1>4. ASSUME NEW r \in Reg, WriteActivate(r) PROVE Goal
  <2>1. FreeSlots # {} /\ slots[vector][First(FreeSlots)].fn = r
    BY <1>1, <1>4 DEF Stored, WriteActivate
  <2>2. FreeSlots \in SUBSET Nat /\ FreeSlots \subseteq Slots(vector)
    BY <1>1, SlotsOf DEF FreeSlots
  <2>3. First(FreeSlots) \in Slots(vector) BY <2>1, <2>2, FirstIs
  <2>4. SlotIs(slots', vector, First(FreeSlots), Activated) BY <1>1, <1>4, ActivateSets
  <2>5. Activated = [active |-> TRUE, fn |-> r] BY <1>1, <1>4, <2>1, <2>3, ActivateSets
  <2> QED BY <1>2, <2>4, <2>5 DEF SlotIs
<1>5. ASSUME NEW r \in Reg, WriteGrow(r) PROVE Goal
  <2>1. GrownBy(slots', r) BY <1>1, <1>5, GrowSets
  <2> SUFFICES ASSUME NEW v \in Vec, NEW i \in DOMAIN slots'[v], slots'[v][i].active
               PROVE  slots'[v][i].fn \in Reg
    OBVIOUS
  <2>2. CASE v # vector + 1 BY <1>2, <2>1, <2>2 DEF GrownBy, Slots
  <2>3. CASE v = vector + 1
    <3>1. i \in 1..(2 * Len(slots[vector])) BY <2>1, <2>3 DEF GrownBy
    <3>2. slots'[v][i] = IF i \in Slots(vector) THEN slots[vector][i]
                         ELSE IF i = Len(slots[vector]) + 1 THEN [active |-> TRUE, fn |-> r]
                         ELSE EmptySlot
      BY <2>1, <2>3, <3>1 DEF GrownBy
    <3> QED BY <1>1, <1>2, <3>2 DEF EmptySlot
  <2> QED BY <2>2, <2>3
<1>6. ASSUME NEW r \in Reg, NEW v \in Vec, RemovedFrom(slots', v, r) PROVE Goal
  <2>1. \A u \in Vec : DOMAIN slots'[u] = Slots(u) BY <1>6 DEF RemovedFrom
  <2> QED BY <1>2, <1>6, <2>1, RemovedKeeps
<1>7. ASSUME SetsNone PROVE Goal BY <1>2, <1>7 DEF SetsNone, Slots
<1> HIDE DEF Goal
<1>8. ASSUME NEW r \in Reg, RemoveCurrent(r) PROVE Goal BY <1>1, <1>6, <1>8, CurrentSets
<1>9. ASSUME NEW r \in Reg, NEW v \in Vec, GcLeftRemove(r, v) PROVE Goal BY <1>1, <1>6, <1>9, QueuedSets
<1>10. Goal BY <1>3, <1>4, <1>5, <1>7, <1>8, <1>9, SlotKinds, Zenon
<1> QED BY <1>10 DEF Goal, Named, Slots

\* Nobody else takes the slot in which a write has stored its callback.
LEMMA StoredStep ==
  ASSUME ArrayInv, [Next]_vars
  PROVE  Stored'
<1>1. /\ TypeOK /\ OneWriter /\ Stored /\ vector \in Vec
      /\ wpc \in [Reg -> {"out", "w_lock", "in", "r_lock"} \cup Writing]
  BY DEF ArrayInv, TypeOK
<1> DEFINE Goal == Stored'
<1>2. ASSUME SetsNone PROVE Goal
  <2>1. UNCHANGED <<vector, slots>> BY <1>2 DEF SetsNone
  <2>2. FreeSlots' = FreeSlots BY <2>1 DEF FreeSlots, Slots
  <2>3. \A s \in Reg : wpc'[s] = "w_active" => wpc[s] = "w_active" BY <1>1, <1>2 DEF SetsNone
  <2> QED BY <1>1, <2>1, <2>2, <2>3 DEF Stored
<1>3. ASSUME NEW r \in Reg, WriteSlot(r) PROVE Goal
  <2> DEFINE f == First(FreeSlots)
  <2>1. /\ f \in FreeSlots
        /\ SlotIs(slots', vector, f, [active |-> FALSE, fn |-> r])
    BY <1>1, <1>3, WriteSlotSets
  <2>2. vector' = vector /\ wpc[r] = "w_slot" /\ wpc' = [wpc EXCEPT ![r] = "w_active"]
    BY <1>3 DEF WriteSlot, Goto
  <2>3. FreeSlots' = {i \in DOMAIN slots'[vector] : ~slots'[vector][i].active}
    BY <2>2 DEF FreeSlots, Slots
  <2>4. DOMAIN slots'[vector] = Slots(vector) BY <1>1, <2>1 DEF SlotIs
  <2>5. \A i \in Slots(vector) :
          slots'[vector][i] = IF i = f THEN [active |-> FALSE, fn |-> r] ELSE slots[vector][i]
    BY <1>1, <2>1 DEF SlotIs
  <2>6. f \in Slots(vector) /\ ~slots[vector][f].active BY <2>1 DEF FreeSlots
  <2>7. FreeSlots' = FreeSlots
    <3> HIDE DEF f
    <3>1. \A i \in Slots(vector) : ~slots'[vector][i].active <=> ~slots[vector][i].active
      BY <2>5, <2>6
    <3> QED BY <2>3, <2>4, <3>1 DEF FreeSlots
  <2>8. slots'[vector][f].fn = r BY <2>5, <2>6
  <2>9. \A s \in Reg : wpc'[s] = "w_active" => s = r BY <1>1, <2>2 DEF OneWriter, Writing
  <2> QED BY <2>1, <2>2, <2>7, <2>8, <2>9 DEF Stored
<1>4. ASSUME NEW r \in Reg, NEW l, wpc[r] \in Writing, l # "w_active",
             wpc' = [wpc EXCEPT ![r] = l]
      PROVE  Goal
  <2>1. \A s \in Reg : wpc'[s] # "w_active" BY <1>1, <1>4 DEF OneWriter, Writing
  <2> QED BY <2>1 DEF Stored
<1> HIDE DEF Goal
<1>5. ASSUME NEW r \in Reg, WriteActivate(r) \/ WriteGrow(r) \/ RemoveCurrent(r) PROVE Goal
  BY <1>4, <1>5 DEF WriteActivate, WriteGrow, RemoveCurrent, Goto, Writing
<1>6. ASSUME NEW r \in Reg, NEW v \in Vec, GcLeftRemove(r, v) PROVE Goal
  <2>1. wpc[r] = "r_scan" /\ wpc' = wpc BY <1>6 DEF GcLeftRemove
  <2>2. wpc' = [wpc EXCEPT ![r] = "r_scan"] BY <1>1, <2>1
  <2> QED BY <1>4, <2>1, <2>2 DEF Writing
<1>7. Goal BY <1>2, <1>3, <1>5, <1>6, SlotKinds, Zenon
<1> QED BY <1>7 DEF Goal

\* The small parts of the state keep their type.
LEMMA RestTypeStep ==
  ASSUME ArrayInv, [Next]_vars
  PROVE  /\ rounds' \in 0..MaxRounds
         /\ rpc' \in {"idle", "loaded", "pass", "after", "gc"}
         /\ callable' \subseteq Reg
<1> DEFINE Goal == /\ rounds' \in 0..MaxRounds
                   /\ rpc' \in {"idle", "loaded", "pass", "after", "gc"}
                   /\ callable' \subseteq Reg
<1>1. /\ rounds \in 0..MaxRounds /\ MaxRounds \in Nat
      /\ rpc \in {"idle", "loaded", "pass", "after", "gc"}
      /\ callable \subseteq Reg
      /\ Registered \subseteq Reg
  BY RegistrationsAssumption, RegisteredAre DEF ArrayInv, TypeOK
<1>2. CASE Read
  BY <1>1, <1>2 DEF Read, ReadLoad, ReadOwn, ReadEnd, ReadDrop, ReadFreed, Job, ReadFilter, ReadCallback,
                    CallbackReturns, writers, reader, vars
<1>9. CASE TryGc \/ TryGcStep BY <1>1, <1>9, TryGcMoves DEF GcMoves
<1>3. ASSUME NEW r \in Reg, Register(r) PROVE Goal
  BY <1>1, <1>3 DEF Register, reader
<1>4. ASSUME NEW r \in Reg, Unregister(r) \/ Write(r) PROVE Goal
  BY <1>1, <1>4 DEF Unregister, Write, WriteLock, WriteSlot, WriteActivate, WriteGrow, WriteDisown,
                    WritePush, WriteUnlock, NoteRegistered, reader
<1>5. ASSUME NEW r \in Reg, Remove(r) PROVE Goal
  BY <1>1, <1>5 DEF Remove, RemoveLock, RemoveCurrent, GcLeftLock, GcLeftFree, GcLeftUnlock,
                    RemoveUnlock, GcLeftOrphan, GcLeftRemove, reader
<1>6. CASE UNCHANGED vars BY <1>1, <1>6 DEF vars, writers, reader
<1> HIDE DEF Goal
<1>7. Read \/ TryGc \/ TryGcStep \/ UNCHANGED vars => Goal BY <1>2, <1>6, <1>9 DEF Goal
<1>8. Goal BY <1>3, <1>4, <1>5, <1>7, Zenon DEF Next
<1> QED BY <1>8 DEF Goal

\* Every step keeps the invariant.
LEMMA ArrayInvStep ==
  ASSUME ArrayInv, [Next]_vars
  PROVE  ArrayInv'
<1>1. TypeOK /\ OneWriter /\ JobsMatch BY DEF ArrayInv
<1>2. OneWriter' /\ wpc' \in [Reg -> {"out", "w_lock", "in", "r_lock"} \cup Writing]
  BY <1>1, OneWriterStep
<1>3. Scanning' /\ Replaced' /\ NoArrayLeak' BY QueueStep
<1>4. OwnersAreUsers' /\ owners' \in [Vec -> 0..2] /\ vector' \in Vec /\ rvec' \in 1..vector'
  BY OwnersStep
<1>5. 1..vector' \subseteq Vec
  BY <1>4, RegistrationsAssumption DEF Vec
<1>6. freed' \subseteq Vec /\ gc' \subseteq Vec /\ scan' \subseteq Vec /\ doomed' \subseteq Vec
  BY <1>3, <1>4, <1>5, RegistrationsAssumption DEF Replaced, Vec
<1>7. slots' \in [Vec -> Seq(Slot)] BY <1>1, SlotsTypeStep
<1>8. job' \in Seq({"todo", "passed", "done"} \cup Reg) BY <1>1, JobsTypeStep
<1>9. TypeOK' BY <1>2, <1>4, <1>5, <1>6, <1>7, <1>8, RestTypeStep DEF TypeOK
<1> QED BY <1>2, <1>3, <1>4, <1>9, NamedStep, StoredStep, JobsMatchStep DEF ArrayInv

\* The invariant holds in every state.
LEMMA ArrayInvHolds == Spec => []ArrayInv
<1>1. ArrayInv /\ [Next]_vars => ArrayInv' BY ArrayInvStep
<1> QED BY <1>1, InitArray, PTL DEF Spec

\* Every variable keeps its type: the count of an array is at most 2, and there is a callback
\* or none in every slot of every array.
THEOREM TypeCorrect == Spec => []TypeOK
<1>1. ArrayInv => TypeOK BY DEF ArrayInv
<1> QED BY <1>1, ArrayInvHolds, PTL

\* The count of every array in use, VectorDescriptor::owners, is the number of its users,
\* at every step of a growing write and of a reader: `owners == 0` means what try_gc and
\* gc_left take it for.
THEOREM OwnersAreCounted == Spec => []OwnersAreUsers
<1>1. ArrayInv => OwnersAreUsers BY DEF ArrayInv
<1> QED BY <1>1, ArrayInvHolds, PTL

\* An array that a write replaced is freed, or queued to be: none is forgotten.
THEOREM ArraysAreKept == Spec => []NoArrayLeak
<1>1. ArrayInv => NoArrayLeak BY DEF ArrayInv
<1> QED BY <1>1, ArrayInvHolds, PTL

--------------------------------------------------------------------------------
(* Without unregister *)

\* The places of a thread in unregister.
Leaving == {"r_lock", "r_current", "r_gc", "r_scan", "r_unlock"}

\* Where nothing is unregistered, nobody but the reader itself frees arrays.
QuietInv ==
  /\ ArrayInv
  /\ \A r \in Reg : wpc[r] \notin Leaving
  /\ NoUseAfterFree

\* Where nothing is unregistered, a step keeps the array of the reader.
LEMMA QuietInvStep ==
  ASSUME Removing = {}, QuietInv, [Next]_vars
  PROVE  QuietInv'
<1> DEFINE Goal == (\A r \in Reg : wpc'[r] \notin Leaving) /\ NoUseAfterFree'
<1>1. /\ ArrayInv /\ NoUseAfterFree /\ Replaced /\ OwnersAreUsers
      /\ \A r \in Reg : wpc[r] \notin Leaving
      /\ wpc \in [Reg -> {"out", "w_lock", "in", "r_lock"} \cup Writing]
      /\ rvec \in 1..vector /\ vector \in Nat
  BY RegistrationsAssumption DEF QuietInv, ArrayInv, TypeOK, Vec
<1>2. ArrayInv' BY <1>1, ArrayInvStep
<1>3. ASSUME ReadLoad PROVE Goal
  <2>1. vector \notin freed BY <1>1 DEF Replaced
  <2> QED BY <1>1, <1>3, <2>1 DEF ReadLoad, writers, NoUseAfterFree
<1>4. ASSUME TryGc \/ TryGcStep PROVE Goal
  <2>0. GcMoves BY <1>4, TryGcMoves
  <2>1. rpc \in {"after", "gc"} /\ rvec \in (1..vector) \ freed BY <1>1, <2>0 DEF GcMoves, NoUseAfterFree
  <2>2. owners[rvec] # 0 BY <1>1, <2>1, OwnersOf DEF Guarded
  <2>3. rvec \notin freed' BY <2>0, <2>1, <2>2 DEF GcMoves
  <2> QED BY <1>1, <2>0, <2>3 DEF GcMoves, NoUseAfterFree
<1>5. ASSUME Read PROVE Goal
  BY <1>1, <1>3, <1>5 DEF Read, ReadOwn, ReadEnd, ReadDrop, ReadFreed, Job, ReadFilter, ReadCallback,
                          CallbackReturns, writers, reader, vars, NoUseAfterFree
<1>6. ASSUME NEW r \in Reg, Register(r) \/ Unregister(r) \/ Write(r) PROVE Goal
  BY <1>1, <1>6 DEF Register, Unregister, Write, WriteLock, WriteSlot, WriteActivate, WriteGrow,
                    WriteDisown, WritePush, WriteUnlock, Goto, Leaving, reader, NoUseAfterFree
<1>7. ASSUME NEW r \in Reg, Remove(r) PROVE Goal
  BY <1>1, <1>7 DEF Remove, RemoveLock, RemoveCurrent, GcLeftLock, GcLeftFree, GcLeftUnlock,
                    RemoveUnlock, GcLeftOrphan, GcLeftRemove, Leaving
<1>8. ASSUME UNCHANGED vars PROVE Goal
  BY <1>1, <1>8 DEF vars, writers, reader, NoUseAfterFree
<1> HIDE DEF Goal
<1>9. Goal BY <1>4, <1>5, <1>6, <1>7, <1>8, Zenon DEF Next
<1> QED BY <1>2, <1>9 DEF Goal, QuietInv

\* Where nothing is ever unregistered, the array of the reader is not freed from the load of
\* the pointer to the drop of the guard, however often the array is replaced meanwhile: the
\* gap of get() between the load and the count does harm through gc_left only.
THEOREM ReaderIsSafeWithoutRemoval ==
  ASSUME Removing = {}
  PROVE  Spec => []NoUseAfterFree
<1>1. Init => QuietInv
  BY InitArray DEF Init, QuietInv, Leaving, NoUseAfterFree
<1>2. QuietInv /\ [Next]_vars => QuietInv' BY QuietInvStep
<1>3. QuietInv => NoUseAfterFree BY DEF QuietInv
<1> QED BY <1>1, <1>2, <1>3, PTL DEF Spec

--------------------------------------------------------------------------------
(* Registrations in force *)

\* A slot of array v has r active, in the arrays `a`.
ActiveIn(a, v, r) == \E i \in DOMAIN a[v] : a[v][i].active /\ a[v][i].fn = r

\* The registration of a thread is in force in the current array.
Held == {"w_disown", "w_push", "w_unlock", "in", "r_lock", "r_current"}

\* A thread at `loc` may have its registration active in array v, when `cur` is the current
\* array and `left` are those that gc_left has still to look at or to free.
MayHold(loc, cur, left, v) ==
  loc \in Held \/ (loc = "r_gc" /\ v # cur) \/ (loc = "r_scan" /\ v \in left)

\* An array has a slot.
Long == \A v \in 1..vector : Slots(v) # {}

\* An active slot is the first with its callback: the one that `remove` finds.
Ordered ==
  \A v \in Vec : \A i, j \in Slots(v) :
    slots[v][j].active /\ slots[v][i].fn = slots[v][j].fn => j <= i

\* A registration in force is in the current array.
Present == \A r \in Reg : wpc[r] \in Held => ActiveIn(slots, vector, r)

\* An array in use has only registrations that may be active in it.
Absent ==
  \A v \in (1..vector) \ freed : \A r \in Reg :
    ActiveIn(slots, v, r) => MayHold(wpc[r], vector, scan \cup doomed, v)

\* The inductive invariant of the registrations.
SlotInv == ArrayInv /\ Long /\ Ordered /\ Present /\ Absent

\* The parts of the invariants that the lemmas use.
LEMMA SlotInvIs ==
  ASSUME SlotInv
  PROVE  /\ ArrayInv /\ TypeOK /\ OneWriter /\ Named /\ Stored /\ Scanning /\ Replaced /\ NoArrayLeak
         /\ Long /\ Ordered /\ Present /\ Absent
         /\ vector \in Vec /\ vector \in Nat \ {0} /\ vector \in 1..vector
         /\ 1..vector \subseteq Vec
         /\ vector \notin freed /\ vector \notin scan \cup doomed
         /\ wpc \in [Reg -> {"out", "w_lock", "in", "r_lock"} \cup Writing]
<1>1. /\ ArrayInv /\ TypeOK /\ OneWriter /\ Named /\ Stored /\ Scanning /\ Replaced /\ NoArrayLeak
      /\ Long /\ Ordered /\ Present /\ Absent
      /\ vector \in Vec
      /\ wpc \in [Reg -> {"out", "w_lock", "in", "r_lock"} \cup Writing]
  BY DEF SlotInv, ArrayInv, TypeOK
<1>2. vector \in Nat \ {0} /\ vector \in 1..vector /\ 1..vector \subseteq Vec
  BY <1>1, RegistrationsAssumption DEF Vec
<1>3. vector \notin freed /\ vector \notin scan \cup doomed BY <1>1, <1>2 DEF Replaced
<1> QED BY <1>1, <1>2, <1>3

\* Nobody else is in a critical section.
LEMMA Alone ==
  ASSUME SlotInv, NEW r \in Reg, wpc[r] \in Writing, NEW s \in Reg, s # r
  PROVE  wpc[s] \notin Writing
BY SlotInvIs DEF OneWriter

\* A registration that is being written is in no array in use.
LEMMA NotYet ==
  ASSUME SlotInv, NEW r \in Reg, wpc[r] \in {"w_slot", "w_active"}
  PROVE  ~ActiveIn(slots, vector, r)
<1>1. vector \in (1..vector) \ freed BY SlotInvIs
<1>2. ~MayHold(wpc[r], vector, scan \cup doomed, vector) BY DEF MayHold, Held
<1>3. Absent BY SlotInvIs
<1> QED BY <1>1, <1>2, <1>3 DEF Absent

\* To store a callback activates nothing.
LEMMA SlotEffect ==
  ASSUME SlotInv, NEW r \in Reg, WriteSlot(r), NEW v \in Vec, NEW s \in Reg
  PROVE  ActiveIn(slots', v, s) <=> ActiveIn(slots, v, s)
<1> DEFINE f == First(FreeSlots)
<1>1. f \in FreeSlots /\ SlotIs(slots', vector, f, [active |-> FALSE, fn |-> r])
  BY SlotInvIs, WriteSlotSets
<1>2. ~slots[vector][f].active BY <1>1 DEF FreeSlots
<1> HIDE DEF f
<1>3. DOMAIN slots'[v] = Slots(v) BY <1>1 DEF SlotIs
<1>4. \A k \in Slots(v) : slots'[v][k] = IF v = vector /\ k = f THEN [active |-> FALSE, fn |-> r]
                                        ELSE slots[v][k]
  BY <1>1 DEF SlotIs
<1> QED BY <1>2, <1>3, <1>4 DEF ActiveIn, Slots

\* The slot with the callback is made active.
LEMMA ActivateEffect ==
  ASSUME SlotInv, NEW r \in Reg, WriteActivate(r)
  PROVE  /\ First(FreeSlots) \in FreeSlots
         /\ slots[vector][First(FreeSlots)].fn = r
         /\ SlotIs(slots', vector, First(FreeSlots), [active |-> TRUE, fn |-> r])
<1> DEFINE f == First(FreeSlots)
<1>1. TypeOK /\ Stored /\ vector \in Vec BY SlotInvIs
<1>2. FreeSlots # {} /\ slots[vector][f].fn = r BY <1>1 DEF Stored, WriteActivate
<1>3. FreeSlots \in SUBSET Nat /\ FreeSlots \subseteq Slots(vector) BY <1>1, SlotsOf DEF FreeSlots
<1>4. f \in FreeSlots /\ f \in Slots(vector) BY <1>2, <1>3, FirstIs
<1>5. SlotIs(slots', vector, f, Activated) BY <1>1, ActivateSets
<1>6. Activated = [active |-> TRUE, fn |-> r] BY <1>1, <1>2, <1>4, ActivateSets
<1> QED BY <1>2, <1>4, <1>5, <1>6

\* It puts the registration in force in the current array.
LEMMA ActivateActive ==
  ASSUME SlotInv, NEW r \in Reg, WriteActivate(r), NEW v \in Vec, NEW s \in Reg
  PROVE  ActiveIn(slots', v, s) <=> ActiveIn(slots, v, s) \/ (v = vector /\ s = r)
<1> DEFINE f == First(FreeSlots)
<1>1. /\ f \in FreeSlots
      /\ SlotIs(slots', vector, f, [active |-> TRUE, fn |-> r])
  BY ActivateEffect
<1>2. f \in Slots(vector) /\ ~slots[vector][f].active BY <1>1 DEF FreeSlots
<1> HIDE DEF f
<1>3. DOMAIN slots'[v] = Slots(v) BY <1>1 DEF SlotIs
<1>4. \A k \in Slots(v) : slots'[v][k] = IF v = vector /\ k = f THEN [active |-> TRUE, fn |-> r]
                                        ELSE slots[v][k]
  BY <1>1 DEF SlotIs
<1> QED BY <1>2, <1>3, <1>4 DEF ActiveIn, Slots

\* The larger array has the registrations of the replaced one, and the new one.
LEMMA GrowActive ==
  ASSUME SlotInv, NEW r \in Reg, WriteGrow(r), NEW s \in Reg
  PROVE  /\ ActiveIn(slots', vector + 1, s) <=> ActiveIn(slots, vector, s) \/ s = r
         /\ \A v \in Vec : v # vector + 1 => (ActiveIn(slots', v, s) <=> ActiveIn(slots, v, s))
<1> DEFINE len == Len(slots[vector])
<1>1. GrownBy(slots', r) BY SlotInvIs, GrowSets
<1>2. TypeOK /\ vector \in Vec /\ Slots(vector) # {} BY SlotInvIs DEF Long
<1>3. len \in Nat /\ Slots(vector) = 1..len BY <1>2, SlotsOf
<1>4. len > 0 BY <1>2, <1>3
<1>5. DOMAIN slots'[vector + 1] = 1..(2 * len) BY <1>1 DEF GrownBy
<1>6. \A k \in 1..(2 * len) :
        slots'[vector + 1][k] = IF k \in Slots(vector) THEN slots[vector][k]
                                ELSE IF k = len + 1 THEN [active |-> TRUE, fn |-> r]
                                ELSE EmptySlot
  BY <1>1 DEF GrownBy
<1> HIDE DEF len
<1>7. Slots(vector) \subseteq 1..(2 * len) BY <1>3
<1>8. len + 1 \in 1..(2 * len) /\ len + 1 \notin Slots(vector) BY <1>3, <1>4
<1>9. slots'[vector + 1][len + 1] = [active |-> TRUE, fn |-> r] BY <1>6, <1>8
<1>10. \A k \in Slots(vector) : slots'[vector + 1][k] = slots[vector][k] BY <1>6, <1>7
<1>11. \A k \in (1..(2 * len)) \ Slots(vector) : k # len + 1 => ~slots'[vector + 1][k].active
  BY <1>6 DEF EmptySlot
<1>12. ActiveIn(slots', vector + 1, s) => ActiveIn(slots, vector, s) \/ s = r
  BY <1>5, <1>9, <1>10, <1>11 DEF ActiveIn, Slots
<1>13. ActiveIn(slots, vector, s) => ActiveIn(slots', vector + 1, s)
  BY <1>5, <1>7, <1>10 DEF ActiveIn, Slots
<1>14. s = r => ActiveIn(slots', vector + 1, s)
  BY <1>5, <1>8, <1>9 DEF ActiveIn
<1>15. \A v \in Vec : v # vector + 1 => (ActiveIn(slots', v, s) <=> ActiveIn(slots, v, s))
  BY <1>1 DEF GrownBy, ActiveIn
<1> QED BY <1>12, <1>13, <1>14, <1>15

\* The closure `remove` takes its registration out of the array, and no other.
LEMMA RemoveActive ==
  ASSUME SlotInv, NEW u \in Vec, NEW r \in Reg, RemovedFrom(slots', u, r),
         NEW v \in Vec, NEW s \in Reg
  PROVE  ActiveIn(slots', v, s) <=> ActiveIn(slots, v, s) /\ ~(v = u /\ s = r)
<1> DEFINE f == First(Match(u, r))
<1>1. TypeOK /\ Ordered BY SlotInvIs
<1>2. DOMAIN slots'[v] = Slots(v) BY DEF RemovedFrom
<1>3. \A k \in Slots(v) :
        slots'[v][k] = IF v = u /\ k \in Match(u, r) /\ k = f THEN [active |-> FALSE, fn |-> slots[v][k].fn]
                       ELSE slots[v][k]
  BY DEF RemovedFrom
<1>4. Match(u, r) # {} => f \in Match(u, r) /\ \A k \in Match(u, r) : f <= k BY DEF RemovedFrom
<1>5. Slots(u) \subseteq Nat BY <1>1, SlotsOf
<1>6. ASSUME NEW k \in Match(u, r), slots[u][k].active PROVE k = f
  <2>1. f \in Match(u, r) /\ f <= k BY <1>4
  <2>2. k \in Slots(u) /\ f \in Slots(u) /\ slots[u][f].fn = slots[u][k].fn
    BY <2>1 DEF Match
  <2>3. k <= f BY <1>1, <1>6, <2>2 DEF Ordered
  <2> QED BY <1>5, <2>1, <2>2, <2>3
<1> HIDE DEF f
<1>7. ASSUME ActiveIn(slots', v, s) PROVE ActiveIn(slots, v, s) /\ ~(v = u /\ s = r)
  <2>1. PICK k \in Slots(v) : slots'[v][k].active /\ slots'[v][k].fn = s BY <1>2, <1>7 DEF ActiveIn
  <2> DEFINE gone == v = u /\ k \in Match(u, r) /\ k = f
  <2>a. slots'[v][k] = IF gone THEN [active |-> FALSE, fn |-> slots[v][k].fn] ELSE slots[v][k]
    BY <1>3
  <2> HIDE DEF gone
  <2>b. ~gone BY <2>1, <2>a
  <2>2. ~(v = u /\ k \in Match(u, r) /\ k = f) BY <2>b DEF gone
  <2>3. slots'[v][k] = slots[v][k] BY <2>a, <2>b
  <2>4. ActiveIn(slots, v, s) BY <2>1, <2>3 DEF ActiveIn, Slots
  <2>5. ~(v = u /\ s = r) BY <1>6, <2>1, <2>2, <2>3 DEF Match
  <2> QED BY <2>4, <2>5
<1>8. ASSUME ActiveIn(slots, v, s), ~(v = u /\ s = r) PROVE ActiveIn(slots', v, s)
  <2>1. PICK k \in Slots(v) : slots[v][k].active /\ slots[v][k].fn = s BY <1>8 DEF ActiveIn, Slots
  <2>2. ~(v = u /\ k \in Match(u, r) /\ k = f) BY <1>8, <2>1 DEF Match
  <2>3. slots'[v][k] = slots[v][k] BY <1>3, <2>2
  <2> QED BY <1>2, <2>1, <2>3 DEF ActiveIn
<1> QED BY <1>7, <1>8

\* No registration begins or ends.
HoldsNone ==
  /\ UNCHANGED <<vector, slots>>
  /\ freed \subseteq freed'
  /\ scan' \cup doomed' = scan \cup doomed \/ \A r \in Reg : wpc[r] # "r_scan"
  /\ \/ wpc' = wpc
     \/ \E r \in Reg : \E l :
          /\ wpc' = [wpc EXCEPT ![r] = l]
          /\ \/ {l, wpc[r]} \subseteq Held
             \/ {l, wpc[r]} \cap (Held \cup {"w_active", "r_gc", "r_scan"}) = {}

\* The steps at which one does, or gc_left gets on.
LEMMA HoldKinds ==
  ASSUME Scanning, [Next]_vars
  PROVE  \/ HoldsNone
         \/ \E r \in Reg : \/ WriteSlot(r) \/ WriteActivate(r) \/ WriteGrow(r) \/ RemoveCurrent(r)
                           \/ GcLeftLock(r) \/ GcLeftFree(r) \/ GcLeftUnlock(r)
                           \/ \E v \in Vec : GcLeftRemove(r, v)
<1> DEFINE Same == /\ UNCHANGED <<vector, slots>>
                   /\ freed \subseteq freed'
                   /\ scan' \cup doomed' = scan \cup doomed
           Hop(r) == \E l : /\ wpc' = [wpc EXCEPT ![r] = l]
                            /\ \/ {l, wpc[r]} \subseteq Held
                               \/ {l, wpc[r]} \cap (Held \cup {"w_active", "r_gc", "r_scan"}) = {}
<1>1. CASE Read
  BY <1>1 DEF Read, ReadLoad, ReadOwn, ReadEnd, ReadDrop, ReadFreed, Job, ReadFilter, ReadCallback,
              CallbackReturns, writers, vars, HoldsNone
<1>8. CASE TryGc \/ TryGcStep BY <1>8, TryGcMoves DEF GcMoves, Scanning, HoldsNone
<1>2. ASSUME NEW r \in Reg, Register(r) \/ Unregister(r) \/ Write(r)
      PROVE  (Same /\ Hop(r)) \/ WriteSlot(r) \/ WriteActivate(r) \/ WriteGrow(r)
  BY <1>2 DEF Register, Unregister, Write, WriteLock, WriteDisown, WritePush, WriteUnlock, Goto, Held
<1>3. ASSUME NEW r \in Reg, NEW v \in Vec, GcLeftOrphan(r, v) PROVE Same /\ wpc' = wpc
  BY <1>3 DEF GcLeftOrphan
<1>4. ASSUME NEW r \in Reg, Remove(r)
      PROVE  \/ Same /\ Hop(r)
             \/ Same /\ wpc' = wpc
             \/ RemoveCurrent(r) \/ GcLeftLock(r) \/ GcLeftFree(r) \/ GcLeftUnlock(r)
             \/ \E v \in Vec : GcLeftRemove(r, v)
  <2>1. CASE RemoveLock(r) \/ RemoveUnlock(r) BY <2>1 DEF RemoveLock, RemoveUnlock, Goto, Held
  <2> HIDE DEF Same, Hop
  <2> QED BY <1>3, <1>4, <2>1, Zenon DEF Remove
<1>5. CASE UNCHANGED vars BY <1>5 DEF vars, writers, HoldsNone
<1>6. CASE \E r \in Reg : Register(r) \/ Unregister(r) \/ Write(r) BY <1>2, <1>6, Zenon DEF HoldsNone
<1>7. CASE \E r \in Reg : Remove(r) BY <1>4, <1>7, Zenon DEF HoldsNone
<1> QED BY <1>1, <1>5, <1>6, <1>7, <1>8, Zenon DEF Next

\* Slots stay ordered, and arrays have some.
LEMMA OrderedStep ==
  ASSUME SlotInv, [Next]_vars
  PROVE  Ordered' /\ Long'
<1> DEFINE Goal == Ordered' /\ Long'
<1>1. /\ TypeOK /\ Named /\ Ordered /\ Long /\ vector \in Vec /\ vector \in Nat
      /\ vector \in 1..vector /\ 1..vector \subseteq Vec
  BY SlotInvIs
<1>2. ASSUME SetsNone PROVE Goal
  BY <1>1, <1>2 DEF SetsNone, Ordered, Long, Slots
<1>3. ASSUME NEW r \in Reg, WriteSlot(r) PROVE Goal
  <2> DEFINE f == First(FreeSlots)
  <2>1. f \in FreeSlots /\ SlotIs(slots', vector, f, [active |-> FALSE, fn |-> r])
    BY <1>1, <1>3, WriteSlotSets
  <2>2. vector' = vector BY <1>3 DEF WriteSlot
  <2>3. ~ActiveIn(slots, vector, r) BY <1>3, NotYet DEF WriteSlot
  <2> HIDE DEF f
  <2>4. \A v \in Vec : DOMAIN slots'[v] = Slots(v) BY <2>1 DEF SlotIs
  <2>5. \A v \in Vec : \A k \in Slots(v) :
          slots'[v][k] = IF v = vector /\ k = f THEN [active |-> FALSE, fn |-> r] ELSE slots[v][k]
    BY <2>1 DEF SlotIs
  <2>6. Ordered'
    <3> SUFFICES ASSUME NEW v \in Vec, NEW i \in Slots(v), NEW j \in Slots(v),
                        slots'[v][j].active, slots'[v][i].fn = slots'[v][j].fn
                 PROVE  j <= i
      BY <2>4 DEF Ordered, Slots
    <3>1. slots'[v][j] = slots[v][j] BY <2>5
    <3>2. CASE v = vector /\ i = f
      <4>1. slots'[v][i].fn = r BY <2>5, <3>2
      <4>2. ActiveIn(slots, vector, r) BY <3>1, <3>2, <4>1 DEF ActiveIn, Slots
      <4> QED BY <2>3, <4>2
    <3>3. CASE ~(v = vector /\ i = f)
      <4>1. slots'[v][i] = slots[v][i] BY <2>5, <3>3
      <4> QED BY <1>1, <3>1, <4>1 DEF Ordered
    <3> QED BY <3>2, <3>3
  <2>7. Long' BY <1>1, <2>2, <2>4 DEF Long, Slots
  <2> QED BY <2>6, <2>7
<1>4. ASSUME NEW r \in Reg, WriteActivate(r) PROVE Goal
  <2> DEFINE f == First(FreeSlots)
  <2>1. f \in FreeSlots /\ slots[vector][f].fn = r /\ SlotIs(slots', vector, f, [active |-> TRUE, fn |-> r])
    BY <1>4, ActivateEffect
  <2>2. vector' = vector BY <1>4 DEF WriteActivate
  <2>3. ~ActiveIn(slots, vector, r) BY <1>4, NotYet DEF WriteActivate
  <2>4. FreeSlots \subseteq Slots(vector) /\ FreeSlots \in SUBSET Nat BY <1>1, SlotsOf DEF FreeSlots
  <2>5. \A k \in FreeSlots : f <= k BY <2>1, <2>4, FirstIs
  <2> HIDE DEF f
  <2>6. \A v \in Vec : DOMAIN slots'[v] = Slots(v) BY <2>1 DEF SlotIs
  <2>7. \A v \in Vec : \A k \in Slots(v) :
          slots'[v][k] = IF v = vector /\ k = f THEN [active |-> TRUE, fn |-> r] ELSE slots[v][k]
    BY <2>1 DEF SlotIs
  <2>8. \A v \in Vec : \A k \in Slots(v) : slots'[v][k].fn = slots[v][k].fn
    BY <2>1, <2>7
  <2>9. \A k \in Slots(vector) : slots[vector][k].fn = r => k \in FreeSlots
    BY <2>3 DEF ActiveIn, FreeSlots, Slots
  <2>10. Ordered'
    <3> SUFFICES ASSUME NEW v \in Vec, NEW i \in Slots(v), NEW j \in Slots(v),
                        slots'[v][j].active, slots'[v][i].fn = slots'[v][j].fn
                 PROVE  j <= i
      BY <2>6 DEF Ordered, Slots
    <3>1. slots[v][i].fn = slots[v][j].fn BY <2>8
    <3>2. CASE v = vector /\ j = f
      <4>1. slots[v][i].fn = r BY <2>1, <3>1, <3>2
      <4> QED BY <2>5, <2>9, <3>2, <4>1
    <3>3. CASE ~(v = vector /\ j = f)
      <4>1. slots'[v][j] = slots[v][j] BY <2>7, <3>3
      <4> QED BY <1>1, <3>1, <4>1 DEF Ordered
    <3> QED BY <3>2, <3>3
  <2>11. Long' BY <1>1, <2>2, <2>6 DEF Long, Slots
  <2> QED BY <2>10, <2>11
<1>5. ASSUME NEW r \in Reg, WriteGrow(r) PROVE Goal
  <2> DEFINE len == Len(slots[vector])
  <2>1. GrownBy(slots', r) BY <1>1, <1>5, GrowSets
  <2>2. vector' = vector + 1 /\ FreeSlots = {} /\ wpc[r] = "w_slot" BY <1>5 DEF WriteGrow
  <2>3. ~ActiveIn(slots, vector, r) BY <2>2, NotYet
  <2>4. len \in Nat /\ Slots(vector) = 1..len /\ Slots(vector) # {} BY <1>1, SlotsOf DEF Long
  <2>5. \A v \in Vec : v # vector + 1 => slots'[v] = slots[v] BY <2>1 DEF GrownBy
  <2>6. DOMAIN slots'[vector + 1] = 1..(2 * len) BY <2>1 DEF GrownBy
  <2>7. \A k \in 1..(2 * len) :
          slots'[vector + 1][k] = IF k \in Slots(vector) THEN slots[vector][k]
                                  ELSE IF k = len + 1 THEN [active |-> TRUE, fn |-> r] ELSE EmptySlot
    BY <2>1 DEF GrownBy
  <2> HIDE DEF len
  <2>8. \A k \in Slots(vector) : slots[vector][k].active BY <2>2 DEF FreeSlots
  <2>9. Ordered'
    <3> SUFFICES ASSUME NEW v \in Vec, NEW i \in DOMAIN slots'[v], NEW j \in DOMAIN slots'[v],
                        slots'[v][j].active, slots'[v][i].fn = slots'[v][j].fn
                 PROVE  j <= i
      BY DEF Ordered, Slots
    <3>1. CASE v # vector + 1
      BY <1>1, <2>5, <3>1 DEF Ordered, Slots
    <3>2. CASE v = vector + 1
      <4>1. i \in 1..(2 * len) /\ j \in 1..(2 * len) BY <2>6, <3>2
      <4>2. CASE i \in Slots(vector) /\ j \in Slots(vector)
        <5>1. slots'[v][i] = slots[vector][i] /\ slots'[v][j] = slots[vector][j] BY <2>7, <3>2, <4>1, <4>2
        <5> QED BY <1>1, <4>2, <5>1 DEF Ordered
      <4>3. CASE i \in Slots(vector) /\ j \notin Slots(vector)
        <5>1. slots'[v][i] = slots[vector][i] BY <2>7, <3>2, <4>1, <4>3
        <5>2. slots'[v][j].fn = r BY <2>7, <3>2, <4>1, <4>3 DEF EmptySlot
        <5>3. ActiveIn(slots, vector, r) BY <2>8, <4>3, <5>1, <5>2 DEF ActiveIn, Slots
        <5> QED BY <2>3, <5>3
      <4>4. CASE i \notin Slots(vector)
        <5>1. j \in Slots(vector) \/ j = len + 1 BY <2>7, <3>2, <4>1 DEF EmptySlot
        <5> QED BY <2>4, <4>1, <4>4, <5>1
      <4> QED BY <4>2, <4>3, <4>4
    <3> QED BY <3>1, <3>2
  <2>10. Long'
    <3> SUFFICES ASSUME NEW v \in 1..(vector + 1) PROVE DOMAIN slots'[v] # {}
      BY <2>2 DEF Long, Slots
    <3>1. CASE v = vector + 1
      <4>1. len > 0 BY <2>4
      <4>2. 1 \in 1..(2 * len) BY <2>4, <4>1
      <4> QED BY <2>6, <3>1, <4>2
    <3>2. CASE v # vector + 1
      <4>1. v \in 1..vector BY <1>1, <3>2
      <4> QED BY <1>1, <2>5, <3>2, <4>1 DEF Long, Slots
    <3> QED BY <3>1, <3>2
  <2> QED BY <2>9, <2>10
<1>6. ASSUME NEW r \in Reg, NEW v \in Vec, RemovedFrom(slots', v, r), vector' = vector PROVE Goal
  <2>1. \A u \in Vec : DOMAIN slots'[u] = Slots(u) BY <1>6 DEF RemovedFrom
  <2>2. Ordered'
    <3> SUFFICES ASSUME NEW u \in Vec, NEW i \in Slots(u), NEW j \in Slots(u),
                        slots'[u][j].active, slots'[u][i].fn = slots'[u][j].fn
                 PROVE  j <= i
      BY <2>1 DEF Ordered, Slots
    <3>1. slots[u][j].active /\ slots[u][i].fn = slots[u][j].fn BY <1>6, RemovedKeeps
    <3> QED BY <1>1, <3>1 DEF Ordered
  <2>3. Long' BY <1>1, <1>6, <2>1 DEF Long, Slots
  <2> QED BY <2>2, <2>3
<1> HIDE DEF Goal
<1>7. ASSUME NEW r \in Reg, RemoveCurrent(r) PROVE Goal
  BY <1>1, <1>6, <1>7, CurrentSets DEF RemoveCurrent
<1>8. ASSUME NEW r \in Reg, NEW v \in Vec, GcLeftRemove(r, v) PROVE Goal
  BY <1>1, <1>6, <1>8, QueuedSets DEF GcLeftRemove
<1>9. Goal BY <1>2, <1>3, <1>4, <1>5, <1>7, <1>8, SlotKinds, Zenon
<1> QED BY <1>9 DEF Goal

\* A registration in force is found, and one that is not is nowhere.
LEMMA HeldStep ==
  ASSUME SlotInv, [Next]_vars
  PROVE  Present' /\ Absent'
<1> DEFINE In == \A s \in Reg : wpc'[s] \in Held => ActiveIn(slots', vector', s)
           Out == \A v \in (1..vector') \ freed' : \A s \in Reg :
                    ActiveIn(slots', v, s) => MayHold(wpc'[s], vector', scan' \cup doomed', v)
           Goal == In /\ Out
<1>1. /\ TypeOK /\ OneWriter /\ Present /\ Absent /\ vector \in Vec /\ vector \in Nat
      /\ 1..vector \subseteq Vec
      /\ vector \notin freed /\ vector \notin scan \cup doomed
      /\ wpc \in [Reg -> {"out", "w_lock", "in", "r_lock"} \cup Writing]
  BY SlotInvIs
<1>2. \A s \in Reg : wpc[s] \in Held => ActiveIn(slots, vector, s) BY <1>1 DEF Present
<1>3. \A v \in (1..vector) \ freed : \A s \in Reg :
        ActiveIn(slots, v, s) => MayHold(wpc[s], vector, scan \cup doomed, v)
  BY <1>1 DEF Absent
<1>4. ASSUME HoldsNone PROVE Goal
  <2>1. /\ slots' = slots /\ vector' = vector /\ freed \subseteq freed'
        /\ scan' \cup doomed' = scan \cup doomed \/ \A s \in Reg : wpc[s] # "r_scan"
    BY <1>4 DEF HoldsNone
  <2>2. \A s \in Reg : \/ wpc'[s] = wpc[s]
                       \/ wpc'[s] \in Held /\ wpc[s] \in Held
                       \/ wpc'[s] \notin Held /\ wpc[s] \notin Held \cup {"r_gc", "r_scan"}
    BY <1>1, <1>4 DEF HoldsNone
  <2>3. In BY <1>2, <2>1, <2>2
  <2>4. Out
    <3> SUFFICES ASSUME NEW v \in (1..vector) \ freed, NEW s \in Reg, ActiveIn(slots, v, s)
                 PROVE  MayHold(wpc'[s], vector, scan' \cup doomed', v)
      BY <2>1
    <3>1. MayHold(wpc[s], vector, scan \cup doomed, v) BY <1>3
    <3>2. MayHold(wpc[s], vector, scan' \cup doomed', v) BY <2>1, <3>1 DEF MayHold
    <3> QED BY <2>2, <3>2 DEF MayHold
  <2> QED BY <2>3, <2>4
<1>5. ASSUME NEW r \in Reg, WriteSlot(r) PROVE Goal
  <2>1. /\ UNCHANGED <<vector, freed, scan, doomed>>
        /\ wpc[r] = "w_slot" /\ wpc' = [wpc EXCEPT ![r] = "w_active"]
    BY <1>5 DEF WriteSlot, Goto
  <2>2. \A v \in Vec : \A s \in Reg : ActiveIn(slots', v, s) <=> ActiveIn(slots, v, s)
    BY <1>5, SlotEffect
  <2>3. \A s \in Reg : wpc'[s] = IF s = r THEN "w_active" ELSE wpc[s] BY <1>1, <2>1
  <2>4. In BY <1>1, <1>2, <2>1, <2>2, <2>3 DEF Held
  <2>5. Out
    <3> SUFFICES ASSUME NEW v \in (1..vector) \ freed, NEW s \in Reg, ActiveIn(slots', v, s)
                 PROVE  MayHold(wpc'[s], vector, scan \cup doomed, v)
      BY <2>1
    <3>1. MayHold(wpc[s], vector, scan \cup doomed, v) BY <1>1, <1>3, <2>2
    <3>2. s # r BY <2>1, <3>1 DEF MayHold, Held
    <3> QED BY <2>3, <3>1, <3>2
  <2> QED BY <2>4, <2>5
<1>6. ASSUME NEW r \in Reg, WriteActivate(r) PROVE Goal
  <2>1. /\ UNCHANGED <<vector, freed, scan, doomed>>
        /\ wpc[r] = "w_active" /\ wpc' = [wpc EXCEPT ![r] = "w_unlock"]
    BY <1>6 DEF WriteActivate, Goto
  <2>2. \A v \in Vec : \A s \in Reg :
          ActiveIn(slots', v, s) <=> ActiveIn(slots, v, s) \/ (v = vector /\ s = r)
    BY <1>6, ActivateActive
  <2>3. \A s \in Reg : wpc'[s] = IF s = r THEN "w_unlock" ELSE wpc[s] BY <1>1, <2>1
  <2>4. In BY <1>1, <1>2, <2>1, <2>2, <2>3
  <2>5. Out
    <3> SUFFICES ASSUME NEW v \in (1..vector) \ freed, NEW s \in Reg, ActiveIn(slots', v, s)
                 PROVE  MayHold(wpc'[s], vector, scan \cup doomed, v)
      BY <2>1
    <3>1. CASE s = r BY <2>3, <3>1 DEF MayHold, Held
    <3>2. CASE s # r
      <4>1. MayHold(wpc[s], vector, scan \cup doomed, v) BY <1>1, <1>3, <2>2, <3>2
      <4> QED BY <2>3, <3>2, <4>1
    <3> QED BY <3>1, <3>2
  <2> QED BY <2>4, <2>5
<1>7. ASSUME NEW r \in Reg, WriteGrow(r) PROVE Goal
  <2>1. /\ vector' = vector + 1 /\ vector + 1 \in Vec
        /\ UNCHANGED <<freed, scan, doomed>>
        /\ wpc[r] = "w_slot" /\ wpc' = [wpc EXCEPT ![r] = "w_disown"]
    BY <1>1, <1>7, RegistrationsAssumption DEF WriteGrow, Goto, Vec
  <2>2. \A s \in Reg : ActiveIn(slots', vector + 1, s) <=> ActiveIn(slots, vector, s) \/ s = r
    BY <1>7, GrowActive
  <2>3. \A s \in Reg : \A v \in Vec : v # vector + 1 => (ActiveIn(slots', v, s) <=> ActiveIn(slots, v, s))
    BY <1>7, GrowActive
  <2>4. \A s \in Reg : wpc'[s] = IF s = r THEN "w_disown" ELSE wpc[s] BY <1>1, <2>1
  <2>5. In BY <1>2, <2>1, <2>2, <2>4
  <2>6. \A s \in Reg : s # r => wpc[s] \notin Writing BY <1>1, <2>1 DEF OneWriter, Writing
  <2>7. Out
    <3> SUFFICES ASSUME NEW v \in (1..(vector + 1)) \ freed, NEW s \in Reg, ActiveIn(slots', v, s), s # r
                 PROVE  wpc'[s] \in Held
      BY <2>1, <2>4 DEF MayHold, Held
    <3>1. PICK u \in (1..vector) \ freed : ActiveIn(slots, u, s)
      <4>1. CASE v = vector + 1
        <5>1. vector \in 1..vector BY SlotInvIs
        <5> QED BY <1>1, <2>2, <4>1, <5>1
      <4>2. CASE v # vector + 1
        <5>1. v \in 1..vector BY <1>1, <4>2
        <5> QED BY <1>1, <2>3, <4>2, <5>1
      <4> QED BY <4>1, <4>2
    <3>2. MayHold(wpc[s], vector, scan \cup doomed, u) BY <1>3, <3>1
    <3> QED BY <2>4, <2>6, <3>2 DEF MayHold, Writing
  <2> QED BY <2>5, <2>7
<1>8. ASSUME NEW r \in Reg, RemoveCurrent(r) PROVE Goal
  <2>1. /\ UNCHANGED <<vector, freed, scan, doomed>>
        /\ wpc[r] = "r_current" /\ wpc' = [wpc EXCEPT ![r] = "r_gc"]
    BY <1>8 DEF RemoveCurrent, Goto
  <2>2. RemovedFrom(slots', vector, r) BY <1>1, <1>8, CurrentSets
  <2>3. \A v \in Vec : \A s \in Reg :
          ActiveIn(slots', v, s) <=> ActiveIn(slots, v, s) /\ ~(v = vector /\ s = r)
    BY <1>1, <2>2, RemoveActive
  <2>4. \A s \in Reg : wpc'[s] = IF s = r THEN "r_gc" ELSE wpc[s] BY <1>1, <2>1
  <2>5. In BY <1>1, <1>2, <2>1, <2>3, <2>4 DEF Held
  <2>6. Out
    <3> SUFFICES ASSUME NEW v \in (1..vector) \ freed, NEW s \in Reg, ActiveIn(slots', v, s)
                 PROVE  MayHold(wpc'[s], vector, scan \cup doomed, v)
      BY <2>1
    <3>1. CASE s = r
      <4>1. v # vector BY <1>1, <2>3, <3>1
      <4> QED BY <2>4, <3>1, <4>1 DEF MayHold
    <3>2. CASE s # r
      <4>1. MayHold(wpc[s], vector, scan \cup doomed, v) BY <1>1, <1>3, <2>3
      <4> QED BY <2>4, <3>2, <4>1
    <3> QED BY <3>1, <3>2
  <2> QED BY <2>5, <2>6
<1>9. ASSUME NEW r \in Reg, GcLeftLock(r) PROVE Goal
  <2>1. /\ UNCHANGED <<vector, slots, freed, doomed>> /\ scan' = gc
        /\ wpc[r] = "r_gc" /\ wpc' = [wpc EXCEPT ![r] = "r_scan"] /\ rpc # "gc"
    BY <1>9 DEF GcLeftLock, GcUnlocked, Goto
  <2>2. \A s \in Reg : wpc'[s] = IF s = r THEN "r_scan" ELSE wpc[s] BY <1>1, <2>1
  <2>3. In BY <1>1, <1>2, <2>1, <2>2 DEF Held
  <2>4. \A s \in Reg : wpc[s] \notin {"r_scan", "w_disown", "w_push"}
    BY <1>1, <2>1 DEF OneWriter, Writing
  <2>5. scan \cup doomed = {} BY <2>1, <2>4, SlotInvIs DEF Scanning
  <2>6. \A v \in (1..vector) \ freed : v # vector => v \in gc
    <3> SUFFICES ASSUME NEW v \in (1..vector) \ freed, v # vector PROVE v \in gc OBVIOUS
    <3>1. v \in 1..(vector - 1) BY <1>1
    <3> QED BY <2>4, <2>5, <3>1, SlotInvIs DEF NoArrayLeak
  <2>7. Out
    <3> SUFFICES ASSUME NEW v \in (1..vector) \ freed, NEW s \in Reg, ActiveIn(slots, v, s)
                 PROVE  MayHold(wpc'[s], vector, gc \cup doomed, v)
      BY <2>1
    <3>1. MayHold(wpc[s], vector, scan \cup doomed, v) BY <1>3
    <3>2. CASE s = r BY <2>1, <2>2, <2>6, <3>1, <3>2 DEF MayHold, Held
    <3>3. CASE s # r BY <2>2, <2>4, <3>1, <3>3 DEF MayHold
    <3> QED BY <3>2, <3>3
  <2> QED BY <2>3, <2>7
<1>10. ASSUME NEW r \in Reg, GcLeftFree(r) PROVE Goal
  <2>1. /\ UNCHANGED <<vector, slots, wpc, scan>> /\ doomed' = {} /\ freed' = freed \cup doomed
    BY <1>10 DEF GcLeftFree
  <2>2. In BY <1>2, <2>1
  <2>3. Out
    <3> SUFFICES ASSUME NEW v \in (1..vector) \ (freed \cup doomed), NEW s \in Reg, ActiveIn(slots, v, s)
                 PROVE  MayHold(wpc[s], vector, scan, v)
      BY <2>1
    <3>1. MayHold(wpc[s], vector, scan \cup doomed, v) BY <1>3
    <3> QED BY <3>1 DEF MayHold
  <2> QED BY <2>2, <2>3
<1>11. ASSUME NEW r \in Reg, GcLeftUnlock(r) PROVE Goal
  <2>1. /\ UNCHANGED <<vector, slots, freed, scan, doomed>> /\ scan = {} /\ doomed = {}
        /\ wpc[r] = "r_scan" /\ wpc' = [wpc EXCEPT ![r] = "r_unlock"]
    BY <1>11 DEF GcLeftUnlock, Goto
  <2>2. \A s \in Reg : wpc'[s] = IF s = r THEN "r_unlock" ELSE wpc[s] BY <1>1, <2>1
  <2>3. In BY <1>2, <2>1, <2>2 DEF Held
  <2>4. Out
    <3> SUFFICES ASSUME NEW v \in (1..vector) \ freed, NEW s \in Reg, ActiveIn(slots, v, s)
                 PROVE  MayHold(wpc'[s], vector, scan \cup doomed, v)
      BY <2>1
    <3>1. MayHold(wpc[s], vector, scan \cup doomed, v) BY <1>3
    <3>2. s # r BY <2>1, <3>1 DEF MayHold, Held
    <3> QED BY <2>2, <3>1, <3>2
  <2> QED BY <2>3, <2>4
<1>12. ASSUME NEW r \in Reg, NEW u \in Vec, GcLeftRemove(r, u) PROVE Goal
  <2>1. /\ UNCHANGED <<vector, freed, wpc, doomed>> /\ scan' = scan \ {u} /\ doomed = {}
        /\ u \in scan /\ wpc[r] = "r_scan"
    BY <1>12 DEF GcLeftRemove
  <2>2. RemovedFrom(slots', u, r) BY <1>1, <1>12, QueuedSets
  <2>3. \A v \in Vec : \A s \in Reg :
          ActiveIn(slots', v, s) <=> ActiveIn(slots, v, s) /\ ~(v = u /\ s = r)
    BY <2>2, RemoveActive
  <2>4. u # vector BY <1>1, <2>1
  <2>5. In BY <1>1, <1>2, <2>1, <2>3, <2>4
  <2>6. \A s \in Reg : s # r => wpc[s] # "r_scan" BY <1>1, <2>1 DEF OneWriter, Writing
  <2>7. Out
    <3> SUFFICES ASSUME NEW v \in (1..vector) \ freed, NEW s \in Reg, ActiveIn(slots', v, s)
                 PROVE  MayHold(wpc[s], vector, scan \ {u}, v)
      BY <2>1
    <3>1. ActiveIn(slots, v, s) /\ ~(v = u /\ s = r) BY <1>1, <2>3
    <3>2. MayHold(wpc[s], vector, scan \cup doomed, v) BY <1>3, <3>1
    <3> QED BY <2>1, <2>6, <3>1, <3>2 DEF MayHold
  <2> QED BY <2>5, <2>7
<1> HIDE DEF Goal
<1>13. Scanning BY SlotInvIs
<1>14. Goal BY <1>4, <1>5, <1>6, <1>7, <1>8, <1>9, <1>10, <1>11, <1>12, <1>13, HoldKinds, Zenon
<1> QED BY <1>14 DEF Goal, Present, Absent

\* Every step keeps the invariant of the registrations.
LEMMA SlotInvStep ==
  ASSUME SlotInv, [Next]_vars
  PROVE  SlotInv'
<1>1. ArrayInv BY DEF SlotInv
<1> QED BY <1>1, ArrayInvStep, OrderedStep, HeldStep DEF SlotInv

\* It holds at first: nothing is registered.
LEMMA InitSlot == Init => SlotInv
<1> SUFFICES ASSUME Init PROVE SlotInv OBVIOUS
<1>1. ArrayInv BY InitArray
<1>2. /\ \A r \in Reg : wpc[r] = "out"
      /\ vector = 1 /\ 1 \in Vec
      /\ slots = [v \in Vec |-> IF v = 1 THEN [i \in 1..FirstLen |-> EmptySlot] ELSE <<>>]
  BY RegistrationsAssumption DEF Init, Vec
<1>3. Slots(1) = 1..FirstLen /\ 1 \in 1..FirstLen BY <1>2, RegistrationsAssumption DEF Slots
<1>4. \A v \in Vec : \A i \in Slots(v) : ~slots[v][i].active
  <2> SUFFICES ASSUME NEW v \in Vec, NEW i \in Slots(v) PROVE ~slots[v][i].active OBVIOUS
  <2>1. CASE v = 1 BY <1>2, <1>3, <2>1 DEF EmptySlot
  <2>2. CASE v # 1 BY <1>2, <2>2 DEF Slots
  <2> QED BY <2>1, <2>2
<1>5. Long
  <2>1. \A v \in 1..vector : v = 1 BY <1>2
  <2>2. Slots(1) # {} BY <1>3
  <2> QED BY <2>1, <2>2 DEF Long
<1>6. Ordered BY <1>4 DEF Ordered
<1>7. Present BY <1>2 DEF Present, Held
<1>8. Absent BY <1>2, <1>4 DEF Absent, ActiveIn, Slots
<1> QED BY <1>1, <1>5, <1>6, <1>7, <1>8 DEF SlotInv

\* It holds in every state.
LEMMA SlotInvHolds == Spec => []SlotInv
<1>1. SlotInv /\ [Next]_vars => SlotInv' BY SlotInvStep
<1> QED BY <1>1, InitSlot, PTL DEF Spec

\* Once register has returned exactly one slot of the current array has the registration,
\* through every copy, whatever others register and unregister meanwhile.
THEOREM RegistersOnce == Spec => []RegisteredOnce
<1>1. SlotInv => RegisteredOnce
  <2> SUFFICES ASSUME SlotInv, NEW r \in Reg, wpc[r] = "in"
               PROVE  Cardinality({i \in Slots(vector) : slots[vector][i] = [active |-> TRUE, fn |-> r]}) = 1
    BY DEF RegisteredOnce
  <2>1. TypeOK /\ Present /\ Ordered /\ vector \in Vec BY SlotInvIs
  <2>2. ActiveIn(slots, vector, r) BY <2>1 DEF Present, Held
  <2>3. PICK i \in Slots(vector) : slots[vector][i].active /\ slots[vector][i].fn = r
    BY <2>2 DEF ActiveIn, Slots
  <2>4. Slots(vector) \subseteq Nat BY <2>1, SlotsOf
  <2>5. slots[vector][i] = [active |-> TRUE, fn |-> r]
    <3>1. slots[vector][i] \in Slot BY <2>1, SlotsOf
    <3> QED BY <2>3, <3>1 DEF Slot
  <2>6. ASSUME NEW j \in Slots(vector), slots[vector][j] = [active |-> TRUE, fn |-> r] PROVE j = i
    <3>1. j <= i /\ i <= j BY <2>1, <2>3, <2>6 DEF Ordered
    <3> QED BY <2>4, <3>1
  <2>7. {k \in Slots(vector) : slots[vector][k] = [active |-> TRUE, fn |-> r]} = {i} BY <2>5, <2>6
  <2> QED BY <2>7, FS_Singleton
<1> QED BY <1>1, SlotInvHolds, PTL

\* Once unregister has returned no array in use, current or still read, has the registration
\* active: gc_left gets to every array that the removed slot was ever copied to or from.
THEOREM RemovesEverywhere == Spec => []RemovedEverywhere
<1>1. SlotInv => RemovedEverywhere
  <2> SUFFICES ASSUME SlotInv, NEW r \in Reg, wpc[r] = "out", NEW v \in (1..vector) \ freed,
                      NEW i \in Slots(v), slots[v][i].active
               PROVE  slots[v][i].fn # r
    BY DEF RemovedEverywhere
  <2>1. ~MayHold(wpc[r], vector, scan \cup doomed, v) BY DEF MayHold, Held
  <2>2. ~ActiveIn(slots, v, r) BY <2>1, SlotInvIs DEF Absent
  <2> QED BY <2>2 DEF ActiveIn, Slots
<1> QED BY <1>1, SlotInvHolds, PTL

--------------------------------------------------------------------------------
(* The contract *)

\* The registrations in force, of the arrays a whose current one is v, the threads being at w.
InForce(a, v, w) == {s \in Reg : ActiveIn(a, v, s) \/ w[s] = "w_active"}

\* Registered is what they are.
LEMMA RegisteredIs ==
  ASSUME SlotInv
  PROVE  Registered = InForce(slots, vector, wpc)
<1>1. Named /\ vector \in Vec BY SlotInvIs
<1>2. ASSUME NEW s PROVE s \in Registered <=> s \in InForce(slots, vector, wpc)
  <2>1. s \in Registered => s \in Reg BY <1>1, RegisteredAre, SlotInvIs
  <2>2. s \in Registered <=>
          \/ \E i \in Slots(vector) : slots[vector][i].active /\ slots[vector][i].fn = s
          \/ s \in Reg /\ wpc[s] = "w_active"
    BY DEF Registered, FreeSlots
  <2> QED BY <2>1, <2>2 DEF InForce, ActiveIn, Slots
<1> QED BY <1>2

\* So it is after a step.
LEMMA RegisteredThen ==
  ASSUME SlotInv'
  PROVE  Registered' = InForce(slots', vector', wpc')
<1>1. Named' /\ vector' \in Vec BY DEF SlotInv, ArrayInv, TypeOK
<1>2. ASSUME NEW s PROVE s \in Registered' <=> s \in InForce(slots', vector', wpc')
  <2>2. s \in Registered' <=>
          \/ \E i \in DOMAIN slots'[vector'] : slots'[vector'][i].active /\ slots'[vector'][i].fn = s
          \/ s \in Reg /\ wpc'[s] = "w_active"
    BY DEF Registered, FreeSlots, Slots
  <2>1. s \in Registered' => s \in Reg BY <1>1, <2>2 DEF Named, Slots
  <2> QED BY <2>1, <2>2 DEF InForce, ActiveIn
<1> QED BY <1>2

\* A write registers its callback when it stores it.
LEMMA WriteAdds ==
  ASSUME SlotInv, SlotInv', NEW r \in Reg, WriteSlot(r) \/ WriteGrow(r)
  PROVE  Registered' = Registered \cup {r}
<1>1. /\ vector \in Vec /\ wpc \in [Reg -> {"out", "w_lock", "in", "r_lock"} \cup Writing]
  BY SlotInvIs
<1>2. Registered = InForce(slots, vector, wpc) /\ Registered' = InForce(slots', vector', wpc')
  BY RegisteredIs, RegisteredThen
<1>3. ASSUME NEW s \in Reg
      PROVE  ActiveIn(slots', vector', s) \/ wpc'[s] = "w_active"
               <=> ActiveIn(slots, vector, s) \/ wpc[s] = "w_active" \/ s = r
  <2>1. CASE WriteSlot(r)
    <3>1. vector' = vector /\ wpc' = [wpc EXCEPT ![r] = "w_active"] BY <2>1 DEF WriteSlot, Goto
    <3>2. ActiveIn(slots', vector, s) <=> ActiveIn(slots, vector, s) BY <1>1, <2>1, SlotEffect
    <3>3. wpc'[s] = IF s = r THEN "w_active" ELSE wpc[s] BY <1>1, <3>1
    <3> QED BY <3>1, <3>2, <3>3
  <2>2. CASE WriteGrow(r)
    <3>1. vector' = vector + 1 /\ wpc' = [wpc EXCEPT ![r] = "w_disown"] /\ wpc[r] = "w_slot"
      BY <2>2 DEF WriteGrow, Goto
    <3>2. ActiveIn(slots', vector + 1, s) <=> ActiveIn(slots, vector, s) \/ s = r BY <2>2, GrowActive
    <3>3. wpc'[s] = IF s = r THEN "w_disown" ELSE wpc[s] BY <1>1, <3>1
    <3> QED BY <3>1, <3>2, <3>3
  <2> QED BY <2>1, <2>2
<1> QED BY <1>2, <1>3 DEF InForce

\* A removal ends a registration when it clears the current array.
LEMMA RemoveTakes ==
  ASSUME SlotInv, SlotInv', NEW r \in Reg, RemoveCurrent(r)
  PROVE  Registered' = Registered \ {r}
<1>1. /\ TypeOK /\ vector \in Vec /\ wpc \in [Reg -> {"out", "w_lock", "in", "r_lock"} \cup Writing]
  BY SlotInvIs
<1>2. Registered = InForce(slots, vector, wpc) /\ Registered' = InForce(slots', vector', wpc')
  BY RegisteredIs, RegisteredThen
<1>3. vector' = vector /\ wpc' = [wpc EXCEPT ![r] = "r_gc"] /\ wpc[r] = "r_current"
  BY DEF RemoveCurrent, Goto
<1>4. RemovedFrom(slots', vector, r) BY <1>1, CurrentSets
<1>5. ASSUME NEW s \in Reg
      PROVE  ActiveIn(slots', vector', s) \/ wpc'[s] = "w_active"
               <=> (ActiveIn(slots, vector, s) \/ wpc[s] = "w_active") /\ s # r
  <2>1. ActiveIn(slots', vector, s) <=> ActiveIn(slots, vector, s) /\ s # r BY <1>1, <1>4, RemoveActive
  <2>2. wpc'[s] = IF s = r THEN "r_gc" ELSE wpc[s] BY <1>1, <1>3
  <2> QED BY <1>3, <2>1, <2>2
<1> QED BY <1>2, <1>5 DEF InForce

\* Other steps register nothing and end no registration.
LEMMA OthersKeep ==
  ASSUME SlotInv, SlotInv',
         \/ SetsNone
         \/ \E r \in Reg : WriteActivate(r) \/ \E v \in Vec : GcLeftRemove(r, v)
  PROVE  Registered' = Registered
<1>1. /\ TypeOK /\ vector \in Vec /\ wpc \in [Reg -> {"out", "w_lock", "in", "r_lock"} \cup Writing]
      /\ vector \notin scan \cup doomed
  BY SlotInvIs
<1>2. Registered = InForce(slots, vector, wpc) /\ Registered' = InForce(slots', vector', wpc')
  BY RegisteredIs, RegisteredThen
<1>3. ASSUME NEW s \in Reg
      PROVE  ActiveIn(slots', vector', s) \/ wpc'[s] = "w_active"
               <=> ActiveIn(slots, vector, s) \/ wpc[s] = "w_active"
  <2>1. CASE SetsNone
    <3>1. wpc'[s] = "w_active" <=> wpc[s] = "w_active" BY <1>1, <2>1 DEF SetsNone
    <3> QED BY <2>1, <3>1 DEF SetsNone
  <2>2. ASSUME NEW r \in Reg, WriteActivate(r)
        PROVE  ActiveIn(slots', vector', s) \/ wpc'[s] = "w_active"
                 <=> ActiveIn(slots, vector, s) \/ wpc[s] = "w_active"
    <3>1. vector' = vector /\ wpc' = [wpc EXCEPT ![r] = "w_unlock"] /\ wpc[r] = "w_active"
      BY <2>2 DEF WriteActivate, Goto
    <3>2. ActiveIn(slots', vector, s) <=> ActiveIn(slots, vector, s) \/ s = r
      BY <1>1, <2>2, ActivateActive
    <3>3. wpc'[s] = IF s = r THEN "w_unlock" ELSE wpc[s] BY <1>1, <3>1
    <3> QED BY <3>1, <3>2, <3>3
  <2>3. ASSUME NEW r \in Reg, NEW v \in Vec, GcLeftRemove(r, v)
        PROVE  ActiveIn(slots', vector', s) \/ wpc'[s] = "w_active"
                 <=> ActiveIn(slots, vector, s) \/ wpc[s] = "w_active"
    <3>1. vector' = vector /\ wpc' = wpc /\ v # vector BY <1>1, <2>3 DEF GcLeftRemove
    <3>2. RemovedFrom(slots', v, r) BY <1>1, <2>3, QueuedSets
    <3>3. ActiveIn(slots', vector, s) <=> ActiveIn(slots, vector, s) BY <1>1, <3>1, <3>2, RemoveActive
    <3> QED BY <3>1, <3>3
  <2> QED BY <2>1, <2>2, <2>3
<1> QED BY <1>2, <1>3 DEF InForce

\* The reader takes a step.
ReaderMoves ==
  /\ UNCHANGED <<vector, slots, wpc>>
  /\ ReadLoad \/ ReadOwn \/ ReadEnd \/ ReadDrop \/ \E i \in DOMAIN job : Job(i)

\* Nothing that the contract speaks of changes.
ContractSleeps ==
  /\ UNCHANGED <<rvec, job, callable>>
  /\ rpc' = rpc \/ (rpc \in {"after", "gc"} /\ rpc' \in {"after", "gc"})
  /\ \/ SetsNone
     \/ \E r \in Reg : WriteActivate(r) \/ \E v \in Vec : GcLeftRemove(r, v)

\* The steps that the contract sees.
LEMMA ContractKinds ==
  ASSUME [Next]_vars
  PROVE  \/ ContractSleeps
         \/ ReaderMoves
         \/ \E r \in Reg : WriteSlot(r) \/ WriteGrow(r) \/ RemoveCurrent(r)
<1> DEFINE Quiet == UNCHANGED <<rpc, rvec, job, callable>>
           Adds == \E r \in Reg : WriteSlot(r) \/ WriteGrow(r)
<1>1. CASE Read
  BY <1>1 DEF Read, ReadLoad, ReadOwn, ReadEnd, ReadDrop, ReadFreed, Job, ReadFilter, ReadCallback,
              CallbackReturns, writers, reader, vars, ReaderMoves, ContractSleeps, SetsNone
<1>2. CASE TryGc \/ TryGcStep
  BY <1>2, TryGcMoves DEF GcMoves, ContractSleeps, SetsNone
<1>3. ASSUME NEW r \in Reg, Register(r) \/ Unregister(r) \/ Write(r) \/ Remove(r)
      PROVE  Quiet \/ Adds
  BY <1>3 DEF Register, Unregister, Write, WriteLock, WriteActivate, WriteDisown, WritePush, WriteUnlock,
              Remove, RemoveLock, RemoveCurrent, GcLeftLock, GcLeftFree, GcLeftUnlock, RemoveUnlock,
              GcLeftOrphan, GcLeftRemove, reader
<1>4. CASE UNCHANGED vars
  BY <1>4 DEF vars, writers, reader, ContractSleeps, SetsNone
<1> HIDE DEF Quiet
<1>5. CASE \E r \in Reg : Register(r) \/ Unregister(r) \/ Write(r) \/ Remove(r)
  <2>1. Quiet \/ Adds BY <1>3, <1>5, Zenon
  <2>2. CASE Quiet BY <2>2, SlotKinds, Zenon DEF Quiet, ContractSleeps
  <2> QED BY <2>1, <2>2
<1> QED BY <1>1, <1>2, <1>4, <1>5, Zenon DEF Next

\* What the reader finds active, or has found active and not called yet, it may call.
Callable ==
  rpc # "idle" =>
    /\ Registered \subseteq callable
    /\ \A i \in Slots(rvec) :
         slots[rvec][i].active \/ (rpc = "pass" /\ job[i] = "passed") => slots[rvec][i].fn \in callable

\* The inductive invariant of a pass.
PassInv == SlotInv /\ Callable

\* A writer cannot bring a callback before the reader without registering it.
LEMMA CallableStep ==
  ASSUME PassInv, [Next]_vars
  PROVE  Callable'
<1> DEFINE Goal == Callable'
<1>1. /\ SlotInv /\ TypeOK /\ Callable /\ JobsMatch /\ Named
      /\ vector \in Vec /\ vector \in Nat /\ rvec \in 1..vector /\ rvec \in Vec
      /\ {"todo", "passed", "done"} \cap Reg = {}
  BY SlotInvIs, RegistrationsAssumption DEF PassInv, SlotInv, ArrayInv, TypeOK
<1>2. SlotInv' BY <1>1, SlotInvStep
<1>3. DOMAIN slots'[rvec] = Slots(rvec) BY <1>1, LengthsStep
<1>a. Slots(rvec) = 1..Len(slots[rvec]) BY <1>1, SlotsOf
<1>4. ASSUME UNCHANGED <<rvec, job>>, callable \subseteq callable',
             rpc' = rpc \/ (rpc \in {"after", "gc"} /\ rpc' \in {"after", "gc"}),
             rpc # "idle" => Registered' \subseteq callable',
             \A i \in Slots(rvec) :
               \/ /\ slots'[rvec][i].active => slots[rvec][i].active
                  /\ slots'[rvec][i].fn = slots[rvec][i].fn
               \/ rpc # "idle" => slots'[rvec][i].fn \in callable'
      PROVE  Goal
  BY <1>1, <1>3, <1>4 DEF Callable, Slots
<1>5. ASSUME NEW r \in Reg, WriteSlot(r) PROVE Goal
  <2> DEFINE f == First(FreeSlots)
  <2>1. f \in FreeSlots /\ SlotIs(slots', vector, f, [active |-> FALSE, fn |-> r])
    BY <1>1, <1>5, WriteSlotSets
  <2>2. /\ UNCHANGED <<rpc, rvec, job>>
        /\ callable' = IF rpc = "idle" THEN callable ELSE callable \cup {r}
    BY <1>5 DEF WriteSlot, NoteRegistered, reader
  <2>3. Registered' = Registered \cup {r} BY <1>1, <1>2, <1>5, WriteAdds
  <2> HIDE DEF f
  <2>4. \A i \in Slots(rvec) : slots'[rvec][i] = slots[rvec][i] \/ slots'[rvec][i].fn = r
    BY <1>1, <2>1 DEF SlotIs
  <2>5. \A i \in Slots(rvec) :
          \/ /\ slots'[rvec][i].active => slots[rvec][i].active
             /\ slots'[rvec][i].fn = slots[rvec][i].fn
          \/ rpc # "idle" => slots'[rvec][i].fn \in callable'
    <3> SUFFICES ASSUME NEW i \in Slots(rvec), slots'[rvec][i] # slots[rvec][i], rpc # "idle"
                 PROVE  slots'[rvec][i].fn \in callable'
      OBVIOUS
    <3>1. slots'[rvec][i].fn = r BY <2>4
    <3> QED BY <2>2, <3>1
  <2>6. rpc # "idle" => Registered' \subseteq callable' BY <1>1, <2>2, <2>3 DEF Callable
  <2> HIDE DEF Goal
  <2> QED BY <1>4, <2>2, <2>5, <2>6
<1>6. ASSUME NEW r \in Reg, WriteGrow(r) PROVE Goal
  <2>1. GrownBy(slots', r) BY <1>1, <1>6, GrowSets
  <2>2. /\ UNCHANGED <<rpc, rvec, job>>
        /\ callable' = IF rpc = "idle" THEN callable ELSE callable \cup {r}
    BY <1>6 DEF WriteGrow, NoteRegistered, reader
  <2>3. Registered' = Registered \cup {r} BY <1>1, <1>2, <1>6, WriteAdds
  <2>4. slots'[rvec] = slots[rvec]
    <3>1. rvec # vector + 1 BY <1>1
    <3> QED BY <1>1, <2>1, <3>1 DEF GrownBy
  <2>6. rpc # "idle" => Registered' \subseteq callable' BY <1>1, <2>2, <2>3 DEF Callable
  <2>7. callable \subseteq callable' BY <2>2
  <2> HIDE DEF Goal
  <2> QED BY <1>4, <2>2, <2>4, <2>6, <2>7
<1>7. ASSUME NEW r \in Reg, RemoveCurrent(r) PROVE Goal
  <2>1. RemovedFrom(slots', vector, r) BY <1>1, <1>7, CurrentSets
  <2>2. UNCHANGED <<rpc, rvec, job, callable>> BY <1>7 DEF RemoveCurrent, reader
  <2>3. Registered' \subseteq Registered BY <1>1, <1>2, <1>7, RemoveTakes
  <2>4. \A i \in Slots(rvec) :
          (slots'[rvec][i].active => slots[rvec][i].active) /\ slots'[rvec][i].fn = slots[rvec][i].fn
    BY <1>1, <2>1, RemovedKeeps
  <2>5. rpc # "idle" => Registered' \subseteq callable' BY <1>1, <2>2, <2>3 DEF Callable
  <2> HIDE DEF Goal
  <2> QED BY <1>4, <2>2, <2>4, <2>5
<1>8. ASSUME ContractSleeps PROVE Goal
  <2>1. /\ UNCHANGED <<rvec, job, callable>>
        /\ rpc' = rpc \/ (rpc \in {"after", "gc"} /\ rpc' \in {"after", "gc"})
    BY <1>8 DEF ContractSleeps
  <2>2. Registered' = Registered BY <1>1, <1>2, <1>8, OthersKeep, Zenon DEF ContractSleeps
  <2>3. rpc # "idle" => Registered' \subseteq callable' BY <1>1, <2>1, <2>2 DEF Callable
  <2>4. CASE SetsNone
    <3>1. slots' = slots BY <2>4 DEF SetsNone
    <3> HIDE DEF Goal
    <3> QED BY <1>4, <2>1, <2>3, <3>1
  <2>5. ASSUME NEW r \in Reg, WriteActivate(r) PROVE Goal
    <3> DEFINE f == First(FreeSlots)
    <3>1. /\ f \in FreeSlots /\ slots[vector][f].fn = r
          /\ SlotIs(slots', vector, f, [active |-> TRUE, fn |-> r])
      BY <1>1, <2>5, ActivateEffect
    <3> HIDE DEF f
    <3>2. wpc[r] = "w_active" BY <2>5 DEF WriteActivate
    <3>3. r \in Registered BY <3>2 DEF Registered
    <3>4. \A i \in Slots(rvec) : slots'[rvec][i] = slots[rvec][i] \/ slots'[rvec][i].fn = r
      BY <1>1, <3>1 DEF SlotIs
    <3>5. \A i \in Slots(rvec) :
            \/ /\ slots'[rvec][i].active => slots[rvec][i].active
               /\ slots'[rvec][i].fn = slots[rvec][i].fn
            \/ rpc # "idle" => slots'[rvec][i].fn \in callable'
      <4> SUFFICES ASSUME NEW i \in Slots(rvec), slots'[rvec][i] # slots[rvec][i], rpc # "idle"
                   PROVE  slots'[rvec][i].fn \in callable'
        OBVIOUS
      <4>1. slots'[rvec][i].fn = r BY <3>4
      <4> QED BY <2>2, <2>3, <3>3, <4>1
    <3> HIDE DEF Goal
    <3> QED BY <1>4, <2>1, <2>3, <3>5
  <2>6. ASSUME NEW r \in Reg, NEW v \in Vec, GcLeftRemove(r, v) PROVE Goal
    <3>1. RemovedFrom(slots', v, r) BY <1>1, <2>6, QueuedSets
    <3>2. \A i \in Slots(rvec) :
            (slots'[rvec][i].active => slots[rvec][i].active) /\ slots'[rvec][i].fn = slots[rvec][i].fn
      BY <1>1, <3>1, RemovedKeeps
    <3> HIDE DEF Goal
    <3> QED BY <1>4, <2>1, <2>3, <3>2
  <2> HIDE DEF Goal
  <2> QED BY <1>8, <2>4, <2>5, <2>6 DEF ContractSleeps
<1>9. ASSUME ReaderMoves PROVE Goal
  <2>1. UNCHANGED <<vector, slots, wpc>> BY <1>9 DEF ReaderMoves
  <2>2. Registered' = Registered BY <2>1 DEF Registered, FreeSlots, Slots
  <2>3. CASE ReadLoad
    <3>1. rvec' = vector /\ rpc' = "loaded" /\ callable' = Registered BY <2>3 DEF ReadLoad
    <3>2. \A i \in Slots(vector) : slots[vector][i].active => slots[vector][i].fn \in Registered
      BY DEF Registered, FreeSlots
    <3> QED BY <2>1, <2>2, <3>1, <3>2 DEF Callable, Slots
  <2>4. CASE ReadOwn
    <3>1. /\ rpc = "loaded" /\ rpc' = "pass" /\ UNCHANGED <<rvec, callable>>
          /\ \A i \in Slots(rvec) : job'[i] = "todo"
      BY <2>4 DEF ReadOwn
    <3> QED BY <1>1, <2>1, <2>2, <3>1 DEF Callable, Slots
  <2>5. CASE ReadEnd BY <1>1, <2>1, <2>2, <2>5 DEF ReadEnd, Callable, Slots
  <2>6. CASE ReadDrop BY <2>6 DEF ReadDrop, Callable
  <2>7. ASSUME NEW i \in DOMAIN job, Job(i) PROVE Goal
    <3>1. /\ rpc = "pass" /\ UNCHANGED <<rpc, rvec, callable>>
          /\ \A k \in DOMAIN job : k # i => job'[k] = job[k]
          /\ job'[i] = "passed" => slots[rvec][i].active
      <4>1. CASE ReadFilter(i) BY <4>1 DEF ReadFilter
      <4>2. CASE CallbackReturns(i) BY <4>2 DEF CallbackReturns
      <4>3. CASE ReadCallback(i)
        <5>1. i \in Slots(rvec) BY <1>1, <4>3, <2>7 DEF ReadCallback, JobsMatch
        <5>2. slots[rvec][i].fn \in Reg \cup {Nobody} BY <1>1, <5>1, SlotsOf
        <5> DEFINE x == IF slots[rvec][i].fn = Nobody THEN "done" ELSE slots[rvec][i].fn
        <5>3. x # "passed" BY <1>1, <5>2
        <5>4. job' = [job EXCEPT ![i] = x] BY <4>3 DEF ReadCallback
        <5> HIDE DEF x
        <5> QED BY <2>7, <4>3, <5>3, <5>4 DEF ReadCallback
      <4> QED BY <2>7, <4>1, <4>2, <4>3 DEF Job
    <3>2. DOMAIN job = Slots(rvec) BY <1>1, <3>1 DEF JobsMatch
    <3> QED BY <1>1, <2>1, <2>2, <3>1, <3>2 DEF Callable, Slots
  <2> HIDE DEF Goal
  <2>8. ReadEnd => Goal BY <2>5 DEF Goal
  <2>9. ReadLoad \/ ReadOwn \/ ReadDrop => Goal BY <2>3, <2>4, <2>6 DEF Goal
  <2> QED BY <1>9, <2>7, <2>8, <2>9, Zenon DEF ReaderMoves
<1> HIDE DEF Goal
<1>10. Goal BY <1>5, <1>6, <1>7, <1>8, <1>9, ContractKinds, Zenon
<1> QED BY <1>10 DEF Goal

\* Every step keeps the invariant of a pass.
LEMMA PassInvStep ==
  ASSUME PassInv, [Next]_vars
  PROVE  PassInv'
<1>1. SlotInv BY DEF PassInv
<1> QED BY <1>1, SlotInvStep, CallableStep DEF PassInv

\* The callbacks that a pass is about to call or is running.
Calling == {job[i] : i \in DOMAIN job} \cap Reg

\* A reader step is a step of the contract, or none.
LEMMA ReaderStep ==
  ASSUME PassInv, ReaderMoves
  PROVE  [Registry!Next]_(Registry!vars)
<1> DEFINE Goal == [Registry!Next]_(Registry!vars)
<1>1. /\ TypeOK /\ JobsMatch /\ Callable /\ rvec \in Vec
      /\ {"todo", "passed", "done"} \cap Reg = {}
  BY SlotInvIs, RegistrationsAssumption DEF PassInv, SlotInv, ArrayInv, TypeOK
<1>2. UNCHANGED <<vector, slots, wpc>> BY DEF ReaderMoves
<1>3. Registered' = Registered BY <1>2 DEF Registered, FreeSlots, Slots
<1>4. CASE ReadLoad
  <2>1. Registry!BeginPass BY <1>3, <1>4 DEF ReadLoad, Registry!BeginPass
  <2> QED BY <2>1 DEF Registry!Next
<1>5. CASE ReadOwn
  <2>1. rpc = "loaded" /\ rpc' = "pass" /\ callable' = callable /\ job' = [i \in Slots(rvec) |-> "todo"]
    BY <1>5 DEF ReadOwn
  <2>2. Calling = {} BY <1>1, <2>1 DEF JobsMatch, Calling
  <2>3. Calling' = {} BY <1>1, <2>1 DEF Calling
  <2>4. UNCHANGED Registry!vars BY <1>3, <2>1, <2>2, <2>3 DEF Registry!vars, Calling
  <2> QED BY <2>4
<1>6. CASE ReadEnd
  <2>1. rpc = "pass" /\ rpc' = "after" /\ callable' = callable /\ job' = <<>> /\ \A i \in DOMAIN job : job[i] = "done"
    BY <1>6 DEF ReadEnd
  <2>2. Calling = {} BY <1>1, <2>1 DEF Calling
  <2>3. Calling' = {} BY <1>1, <2>1 DEF Calling
  <2>4. UNCHANGED Registry!vars BY <1>3, <2>1, <2>2, <2>3 DEF Registry!vars, Calling
  <2> QED BY <2>4
<1>7. CASE ReadDrop
  <2>1. rpc = "after" /\ rpc' = "idle" /\ callable' = {} /\ job' = job BY <1>7 DEF ReadDrop
  <2>2. Calling = {} BY <1>1, <2>1 DEF JobsMatch, Calling
  <2>3. Registry!EndPass BY <1>3, <2>1, <2>2 DEF Registry!EndPass, Calling
  <2> QED BY <2>3 DEF Registry!Next
<1>8. ASSUME NEW i \in DOMAIN job, Job(i) PROVE Goal
  <2>1. rpc = "pass" /\ UNCHANGED <<rpc, callable>>
    BY <1>8 DEF Job, ReadFilter, ReadCallback, CallbackReturns
  <2>2. i \in Slots(rvec) BY <1>1, <1>8, <2>1 DEF JobsMatch
  <2>3. slots[rvec][i].fn \in Reg \cup {Nobody} BY <1>1, <2>2, SlotsOf
  <2>4. ASSUME NEW x, job' = [job EXCEPT ![i] = x], x \notin Reg, job[i] \notin Reg PROVE Goal
    <3>1. Calling' = Calling BY <1>8, <2>4 DEF Calling
    <3>2. UNCHANGED Registry!vars BY <1>3, <2>1, <3>1 DEF Registry!vars, Calling
    <3> QED BY <3>2
  <2>5. CASE ReadFilter(i)
    <3>1. PICK x \in {"passed", "done"} : job' = [job EXCEPT ![i] = x] BY <2>5 DEF ReadFilter
    <3>2. job[i] \notin Reg BY <1>1, <2>5 DEF ReadFilter
    <3> HIDE DEF Goal
    <3> QED BY <1>1, <2>4, <3>1, <3>2
  <2>6. CASE ReadCallback(i)
    <3>1. job[i] = "passed" /\ job[i] \notin Reg BY <1>1, <2>6 DEF ReadCallback
    <3>2. CASE slots[rvec][i].fn = Nobody
      <4>1. job' = [job EXCEPT ![i] = "done"] BY <2>6, <3>2 DEF ReadCallback
      <4> HIDE DEF Goal
      <4> QED BY <1>1, <2>4, <3>1, <4>1
    <3>3. CASE slots[rvec][i].fn # Nobody
      <4>1. PICK r \in Reg : r = slots[rvec][i].fn BY <2>3, <3>3
      <4>2. job' = [job EXCEPT ![i] = r] BY <2>6, <3>3, <4>1 DEF ReadCallback
      <4>3. r \in callable BY <1>1, <2>1, <2>2, <3>1, <4>1 DEF Callable
      <4>4. Calling' = Calling \cup {r} BY <1>8, <3>1, <4>2 DEF Calling
      <4>5. Registry!Call(r) BY <1>3, <2>1, <4>3, <4>4 DEF Registry!Call, Calling
      <4> QED BY <4>5 DEF Registry!Next
    <3> QED BY <3>2, <3>3
  <2>7. CASE CallbackReturns(i)
    <3>1. PICK r \in Reg : r = job[i] BY <2>7 DEF CallbackReturns
    <3>2. job' = [job EXCEPT ![i] = "done"] BY <2>7 DEF CallbackReturns
    <3>3. Calling' = Calling \/ Calling' = Calling \ {r}
      <4>1. \A k \in DOMAIN job : k # i => job'[k] = job[k] BY <3>2
      <4>2. DOMAIN job' = DOMAIN job /\ job'[i] \notin Reg BY <1>1, <1>8, <3>2
      <4>3. Calling' = {job[k] : k \in DOMAIN job \ {i}} \cap Reg BY <4>1, <4>2 DEF Calling
      <4> QED BY <3>1, <4>3 DEF Calling
    <3>4. CASE Calling' = Calling
      <4>1. UNCHANGED Registry!vars BY <1>3, <2>1, <3>4 DEF Registry!vars, Calling
      <4> QED BY <4>1
    <3>5. CASE Calling' = Calling \ {r}
      <4>1. Registry!Return(r) BY <1>3, <2>1, <3>5 DEF Registry!Return, Calling
      <4> QED BY <4>1 DEF Registry!Next
    <3> QED BY <3>3, <3>4, <3>5
  <2> HIDE DEF Goal
  <2> QED BY <1>8, <2>5, <2>6, <2>7 DEF Job
<1>9. ReadLoad \/ ReadOwn \/ ReadEnd \/ ReadDrop => Goal BY <1>4, <1>5, <1>6, <1>7
<1> HIDE DEF Goal
<1>10. Goal BY <1>8, <1>9, Zenon DEF ReaderMoves
<1> QED BY <1>10 DEF Goal

\* A step of the registry is a step of the contract, or none.
LEMMA RegistryStep ==
  ASSUME PassInv, PassInv', [Next]_vars
  PROVE  [Registry!Next]_(Registry!vars)
<1> DEFINE Goal == [Registry!Next]_(Registry!vars)
<1>1. SlotInv /\ SlotInv' BY DEF PassInv
<1>2. ASSUME NEW r \in Reg, WriteSlot(r) \/ WriteGrow(r) PROVE Goal
  <2>1. Registered' = Registered \cup {r} BY <1>1, <1>2, WriteAdds
  <2>2. /\ UNCHANGED <<rpc, job>>
        /\ callable' = IF rpc = "idle" THEN callable ELSE callable \cup {r}
    BY <1>2 DEF WriteSlot, WriteGrow, NoteRegistered, reader
  <2>3. Registry!Add(r) BY <2>1, <2>2 DEF Registry!Add
  <2> QED BY <2>3 DEF Registry!Next
<1>3. ASSUME NEW r \in Reg, RemoveCurrent(r) PROVE Goal
  <2>1. Registered' = Registered \ {r} BY <1>1, <1>3, RemoveTakes
  <2>2. UNCHANGED <<rpc, job, callable>> BY <1>3 DEF RemoveCurrent, reader
  <2>3. Registry!Remove(r) BY <2>1, <2>2 DEF Registry!Remove
  <2> QED BY <2>3 DEF Registry!Next
<1>4. ASSUME ContractSleeps PROVE Goal
  <2>1. Registered' = Registered BY <1>1, <1>4, OthersKeep, Zenon DEF ContractSleeps
  <2>2. UNCHANGED <<job, callable>> /\ (rpc' # "idle" <=> rpc # "idle") BY <1>4 DEF ContractSleeps
  <2>3. UNCHANGED Registry!vars BY <2>1, <2>2 DEF Registry!vars
  <2> QED BY <2>3
<1>5. ASSUME ReaderMoves PROVE Goal BY <1>5, ReaderStep
<1> HIDE DEF Goal
<1>6. Goal BY <1>2, <1>3, <1>4, <1>5, ContractKinds, Zenon
<1> QED BY <1>6 DEF Goal

\* The registry keeps its contract: register and unregister take effect at one step each,
\* and a pass over an array that may be replaced, cleared or reused meanwhile calls only
\* what was registered at some time since the pass began.
THEOREM RegistryIsAtomic == Spec => KeepsRegistry
<1>1. Init => PassInv BY InitSlot DEF PassInv, Callable, Init
<1>2. Init => Registry!Init
  <2> SUFFICES ASSUME Init PROVE Registry!Init OBVIOUS
  <2>1. SlotInv /\ TypeOK /\ vector \in Vec BY InitSlot, SlotInvIs
  <2>2. Registered = {}
    <3>1. \A r \in Reg : wpc[r] = "out" BY DEF Init
    <3>2. \A i \in Slots(vector) : ~slots[vector][i].active
      BY <2>1, RegistrationsAssumption DEF Init, Slots, EmptySlot, Vec
    <3> QED BY <3>1, <3>2 DEF Registered, FreeSlots
  <2>3. rpc = "idle" /\ job = <<>> /\ callable = {} BY DEF Init
  <2> QED BY <2>2, <2>3 DEF Registry!Init
<1>3. PassInv /\ [Next]_vars => PassInv' BY PassInvStep
<1>4. PassInv /\ PassInv' /\ [Next]_vars => [Registry!Next]_(Registry!vars) BY RegistryStep
<1> QED BY <1>1, <1>2, <1>3, <1>4, PTL DEF Spec, KeepsRegistry, Registry!Spec

================================================================================
