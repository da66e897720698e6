--------------------------- MODULE Containers_proofs ---------------------------
(***************************************************************************)
(* Proof that the vector in Containers is one as Vector describes it, so   *)
(* that what Vector_proofs shows holds of it: the steps of the boxes leave *)
(* it alone, and a panic that drops a box leaves it as it was.  Then, that *)
(* every box and string has one owner, so that the block of a box still    *)
(* has its maker's function when that is called.                           *)
(***************************************************************************)
EXTENDS Containers, FiniteSetTheorems, SequenceTheorems, TLAPS

\* What is proved of a vector.
VP == INSTANCE Vector_proofs

\* The bounded sequences that Containers enumerates are sequences of elements.
LEMMA SeqOfIsSeq == SeqOf(Box, MaxItems) \subseteq Seq(Elem)
<1>1. MaxItems \in Nat BY ContainersAssumption
<1>2. \A n \in Nat : [1..n -> Elem] \subseteq Seq(Elem) OBVIOUS
<1> QED BY <1>1, <1>2 DEF SeqOf, Box

\* One step for each kind of operation: it is a step of Vector, or leaves the vector alone.
LEMMA StepsVector == Next => [V!Next]_(V!vars)
<1> SUFFICES ASSUME Next PROVE [V!Next]_(V!vars) OBVIOUS
<1>1. CASE BoxStep BY <1>1 DEF BoxStep, vector, V!vars, V!local
<1>2. CASE Terminated BY <1>2 DEF Terminated, vars, vector, V!vars, V!local
<1>3. ASSUME NEW b \in Box, Push(b) PROVE V!Next
  BY <1>3 DEF Push, V!Next, Box
<1>4. CASE ExtendNext \/ ExtendEnd BY <1>4 DEF ExtendNext, ExtendEnd, V!Next
<1>5. CASE Pop \/ IntoRaw \/ FromRaw BY <1>5 DEF Pop, IntoRaw, FromRaw, V!Next
<1>6. ASSUME NEW lib \in Lib, ExtendPanics(lib) \/ Drop(lib) PROVE V!Next
  BY <1>6 DEF ExtendPanics, Drop, V!Next
<1>7. ASSUME NEW s \in Seq(Elem), ExtendArray(s) \/ ExtendFromSlice(s) PROVE V!Next
  BY <1>7 DEF ExtendArray, ExtendFromSlice, V!Next
<1>8. ASSUME NEW s \in Seq(Elem), NEW claim \in Claims, NEW hint \in {NoHint, vec.cap},
             ExtendBegin(s, claim, hint)
      PROVE  V!Next
  BY <1>8 DEF ExtendBegin, V!Next, V!NoHint, NoHint, V!Limit, Limit
<1>9. ASSUME NEW s, NEW lib, NEW claim,
             PushSeqFails(s, lib) \/ ExtendBeginFails(s, claim, lib)
      PROVE  UNCHANGED V!vars
  BY <1>9 DEF PushSeqFails, ExtendBeginFails, vector, V!vars, V!local
<1> QED BY <1>1, <1>2, <1>3, <1>4, <1>5, <1>6, <1>7, <1>8, <1>9, SeqOfIsSeq
        DEF Next, VectorStep

\* A vector whose elements are owned boxes behaves as Vector<T> does by itself: whatever
\* becomes of boxes and strings beside it, in whichever library, does not change it.
THEOREM UsesVector == Spec => V!Spec
<1>1. Init => V!Init BY DEF Init
<1>2. [Next]_vars => [V!Next]_(V!vars)
  BY StepsVector DEF vars, vector, V!vars, V!local
<1> QED BY <1>1, <1>2, PTL DEF Spec, V!Spec

--------------------------------------------------------------------------------
(* What is proved of Vector holds here *)

\* The assumption on sizes is the same.
LEMMA SameAssumption == VP!BlockAssumption
BY BlockAssumption DEF VP!BlockAssumption, BlockAssumption, Limit, VP!Limit, DefCap, VP!DefCap

\* So are the vectors.
LEMMA SameInit == V!Init => VP!Init
BY DEF V!Init, VP!Init, V!DefCap, VP!DefCap, V!Calc, VP!Calc, V!Size, VP!Size, V!NoHint,
       VP!NoHint, V!Limit, VP!Limit

\* And the operations on the block.
LEMMA SameActions ==
  /\ \A s : V!PushSeq(s) <=> VP!PushSeq(s)
  /\ \A s, claim, hint : V!ExtendBegin(s, claim, hint) <=> VP!ExtendBegin(s, claim, hint)
  /\ V!ExtendNext <=> VP!ExtendNext
  /\ V!Pop <=> VP!Pop
<1> USE DEF V!Idle, VP!Idle, V!Sound, VP!Sound, V!Fits, VP!Fits, V!Allocated, VP!Allocated,
            V!Written, VP!Written, V!Requested, VP!Requested, V!Granted, VP!Granted, V!Calc,
            VP!Calc, V!NewCap, VP!NewCap, V!Size, VP!Size, V!Room, VP!Room, V!Limit, VP!Limit,
            V!NoHint, VP!NoHint, V!local, VP!local
<1>1. \A s : V!PushSeq(s) <=> VP!PushSeq(s)
  BY Zenon DEF V!PushSeq, VP!PushSeq
<1>2. \A s, claim, hint : V!ExtendBegin(s, claim, hint) <=> VP!ExtendBegin(s, claim, hint)
  BY Zenon DEF V!ExtendBegin, VP!ExtendBegin, V!ExtendLocals, VP!ExtendLocals
<1>3. V!ExtendNext <=> VP!ExtendNext
  BY Zenon DEF V!ExtendNext, VP!ExtendNext, V!KnownCap, VP!KnownCap
<1>4. V!Pop <=> VP!Pop
  BY Zenon DEF V!Pop, VP!Pop
<1> QED BY <1>1, <1>2, <1>3, <1>4

\* One operation is as another in both, so that all are.
LEMMA SameNext == V!Next => VP!Next
BY Zenon, SameActions
   DEF V!Next, VP!Next, V!PushSeq, VP!PushSeq, V!Push, VP!Push, V!ExtendArray,
       VP!ExtendArray, V!ExtendFromSlice, VP!ExtendFromSlice, V!PushSeqFails,
       VP!PushSeqFails, V!ExtendBegin, VP!ExtendBegin, V!ExtendLocals, VP!ExtendLocals,
       V!ExtendBeginFails, VP!ExtendBeginFails, V!ExtendNext, VP!ExtendNext, V!ExtendEnd,
       VP!ExtendEnd, V!ExtendPanics, VP!ExtendPanics, V!ExtendLeave, VP!ExtendLeave,
       V!Pop, VP!Pop, V!IntoRaw, VP!IntoRaw, V!FromRaw, VP!FromRaw, V!Drop, VP!Drop, V!Idle,
       VP!Idle, V!Sound, VP!Sound, V!Fits, VP!Fits, V!Allocated, VP!Allocated, V!Written,
       VP!Written, V!Requested, VP!Requested, V!Granted, VP!Granted, V!Refused, VP!Refused,
       V!Calc, VP!Calc, V!NewCap, VP!NewCap, V!Size, VP!Size, V!Room, VP!Room, V!Limit,
       VP!Limit, V!NoHint, VP!NoHint, V!KnownCap, VP!KnownCap, V!local, VP!local, V!vars,
       VP!vars

\* The behaviours of the vector are those that the proofs are about.
LEMMA SameVector == Spec => VP!Spec
<1>1. Spec => V!Spec BY UsesVector
<1>2. V!Init => VP!Init BY SameInit
<1>3. [V!Next]_(V!vars) => [VP!Next]_(VP!vars)
  BY SameNext DEF V!vars, VP!vars, V!local, VP!local
<1> QED BY <1>1, <1>2, <1>3, PTL DEF V!Spec, VP!Spec

\* The types of the vector and the invariant of its block, and that its block has room for
\* its capacity.
LEMMA VectorInvariant == Spec => [](V!TypeOK /\ VP!BlockInv)
<1>1. VP!BlockAssumption BY SameAssumption
<1>2. Spec => VP!Spec BY SameVector
<1>3. VP!Spec => [](VP!TypeOK /\ VP!BlockInv) BY <1>1, VP!VectorTypeCorrect
<1>4. VP!TypeOK => V!TypeOK
  BY DEF VP!TypeOK, V!TypeOK, VP!Limit, V!Limit, VP!NoHint, V!NoHint
<1> QED BY <1>2, <1>3, <1>4, PTL

\* The block of a vector of boxes has room for exactly the capacity that it records, and the
\* boxes are within it, also after panics that drop boxes.
THEOREM BoxesFitTheBlock == Spec => []BlockHoldsCapacity
<1>1. VP!BlockAssumption BY SameAssumption
<1>2. Spec => VP!Spec BY SameVector
<1>3. VP!Spec => []VP!BlockHoldsCapacity BY <1>1, VP!BlockIsLargeEnough
<1>4. VP!BlockHoldsCapacity => BlockHoldsCapacity
  BY DEF VP!BlockHoldsCapacity, BlockHoldsCapacity, VP!Sound, Sound, VP!Fits, Fits, VP!Size,
         Size, VP!Room, Room, VP!Limit, Limit
<1> QED BY <1>2, <1>3, <1>4, PTL

\* extend reallocates the block once at most for what the iterator has promised, whatever
\* the elements are and whoever owns them.
THEOREM VectorGrowsOnce == Spec => []GrowsOnce
<1>1. VP!BlockAssumption BY SameAssumption
<1>2. Spec => VP!Spec BY SameVector
<1>3. VP!Spec => []VP!GrowsOnce BY <1>1, VP!ExtendGrowsOnce
<1>4. VP!GrowsOnce => GrowsOnce
  BY DEF VP!GrowsOnce, GrowsOnce, V!GrowsOnce, VP!NoHint, V!NoHint, VP!Limit, V!Limit,
         VP!Fits, V!Fits, VP!Size, V!Size
<1> QED BY <1>2, <1>3, <1>4, PTL

--------------------------------------------------------------------------------
(* Types *)

\* What a step may do to boxes and strings.
BoxEffect ==
  \/ \E i \in B!Item : B!New(i) \/ B!Create(i) \/ B!Send(i) \/ B!Take(i)
  \/ \E b \in Box : B!NewFails(b) \/ B!Unbox(b)
  \/ \E b \in Box, lib \in Lib : B!DropRaw(b, lib) \/ B!DropUnboxed(b, lib)
  \/ \E s \in Str : B!StrDrop(s)
  \/ \E S, lib : B!Drop(S, lib) \/ B!DropHeld(S, lib)
  \/ \E S : B!Give(S) \/ B!Receive(S)
  \/ UNCHANGED boxes

\* Every step does one thing to them.
LEMMA BoxEffects == [Next]_vars => BoxEffect
<1> SUFFICES ASSUME [Next]_vars PROVE BoxEffect OBVIOUS
<1>1. CASE BoxStep
  BY <1>1 DEF BoxStep, BoxEffect, B!IntoRaw, B!FromRaw, B!StrIntoRaw, B!StrFromRaw, B!Item
<1>2. ASSUME NEW s, NEW claim, NEW hint, NEW b, NEW lib,
             \/ Push(b) \/ ExtendArray(s) \/ ExtendFromSlice(s)
             \/ ExtendBegin(s, claim, hint)
             \/ PushSeqFails(s, lib) \/ ExtendBeginFails(s, claim, lib)
      PROVE  BoxEffect
  BY <1>2 DEF Push, ExtendArray, ExtendFromSlice, ExtendBegin, PushSeqFails,
              ExtendBeginFails, MoveIn, BoxEffect
<1>3. ASSUME NEW lib, ExtendPanics(lib) \/ Drop(lib) PROVE BoxEffect
  BY <1>3 DEF ExtendPanics, Drop, BoxEffect
<1>4. CASE ExtendNext \/ ExtendEnd \/ Pop \/ IntoRaw \/ FromRaw
  BY <1>4 DEF ExtendNext, ExtendEnd, Pop, IntoRaw, FromRaw, BoxEffect
<1>5. CASE Terminated \/ UNCHANGED vars
  BY <1>5 DEF Terminated, vars, BoxEffect
<1>6. CASE VectorStep
  BY <1>2, <1>3, <1>4, <1>6 DEF VectorStep
<1> QED BY <1>1, <1>5, <1>6 DEF Next

\* Functions on items of which some values change keep their type.
LEMMA BoxTypeStep ==
  ASSUME B!TypeOK, BoxEffect
  PROVE  B!TypeOK'
<1> USE DEF B!TypeOK, B!Hands
<1> DEFINE Item == Box \cup Str
<1>1. Maker \in [Item -> Lib]
  BY ContainersAssumption
<1>2. B!Item = Item
  BY DEF B!Item
<1> HIDE DEF Item
<1>3. ASSUME NEW i \in Item, B!New(i) \/ B!Create(i) \/ B!Send(i) \/ B!Take(i) PROVE B!TypeOK'
  BY <1>1, <1>2, <1>3 DEF B!New, B!Create, B!Make, B!Send, B!Take
<1>4. ASSUME NEW b \in Box, B!NewFails(b) \/ B!Unbox(b) PROVE B!TypeOK'
  BY <1>1, <1>2, <1>4 DEF B!NewFails, B!Unbox, Item
<1>5. ASSUME NEW b \in Box, NEW lib \in Lib, B!DropRaw(b, lib) \/ B!DropUnboxed(b, lib)
      PROVE  B!TypeOK'
  BY <1>1, <1>2, <1>5 DEF B!DropRaw, B!DropUnboxed, B!Free, B!Gone
<1>6. ASSUME NEW s \in Str, B!StrDrop(s) PROVE B!TypeOK'
  BY <1>2, <1>6 DEF B!StrDrop, Item
<1>7. ASSUME NEW S, NEW lib, B!Drop(S, lib) \/ B!DropHeld(S, lib) PROVE B!TypeOK'
  BY <1>1, <1>2, <1>7 DEF B!Drop, B!DropHeld, B!Free, B!Gone
<1>8. ASSUME NEW S, B!Give(S) \/ B!Receive(S) PROVE B!TypeOK'
  BY <1>2, <1>8 DEF B!Give, B!Receive
<1>9. CASE UNCHANGED boxes
  BY <1>9 DEF boxes
<1> QED BY <1>2, <1>3, <1>4, <1>5, <1>6, <1>7, <1>8, <1>9 DEF BoxEffect

\* Vectors, boxes and strings keep their types together.
THEOREM ContainersTypeCorrect == Spec => []TypeOK
<1> DEFINE BoxType == plain \in BOOLEAN /\ B!TypeOK
<1>1. Init => BoxType
  BY DEF Init, B!Init, B!TypeOK
<1>2. BoxType /\ [Next]_vars => BoxType'
  <2> SUFFICES ASSUME BoxType, [Next]_vars PROVE BoxType' OBVIOUS
  <2>1. plain' = plain
    BY DEF Next, BoxStep, VectorStep, Terminated, vars, Push, ExtendArray, ExtendFromSlice,
           PushSeqFails, ExtendBegin, ExtendBeginFails, ExtendNext, ExtendEnd, ExtendPanics,
           Pop, IntoRaw, FromRaw, Drop
  <2> QED BY <2>1, BoxEffects, BoxTypeStep
<1>3. BoxType /\ V!TypeOK => TypeOK
  BY DEF TypeOK
<1> QED BY <1>1, <1>2, <1>3, VectorInvariant, PTL DEF Spec

--------------------------------------------------------------------------------
(* Who owns an item *)

Held == {i \in B!Item : hand[i] = 1}
Stored == {vec.slots[k] : k \in InVector}
Yielding == {items[k] : k \in DOMAIN items}
Owned == Held \cup raw \cup Stored \cup Yielding

\* No item is twice in the vector or twice in the iterator.
Distinct ==
  /\ \A j, k \in InVector : vec.slots[j] = vec.slots[k] => j = k
  /\ \A j, k \in DOMAIN items : items[j] = items[k] => j = k
  /\ Stored \subseteq Box

\* No item is at two places, or twice in variables.
Apart ==
  /\ hand \in [B!Item -> {0, 1}]
  /\ raw \cap (Held \cup Stored \cup Yielding) = {}
  /\ Held \cap (Stored \cup Yielding) = {}
  /\ Stored \cap Yielding = {}

\* What is at some place is allocated once and has its value, and nothing else is.
Alive ==
  /\ \A i \in B!Item : live[i] = IF i \in Owned THEN 1 ELSE 0
  /\ \A i \in B!Item : i \in Owned <=> content[i] = "alive" /\ i \notin unboxed
  /\ \A i \in unboxed : content[i] # "none"

\* The inductive invariant, of elements that are owned and a block that is defined.
OwnInv == ~plain /\ Sound => Distinct /\ Apart /\ Alive

\* At first there is nothing.
LEMMA InitOwn == Init => OwnInv
<1> SUFFICES ASSUME Init PROVE Distinct /\ Apart /\ Alive
  BY DEF OwnInv
<1>1. vec.len = 0 /\ items = <<>>
  BY DEF Init, V!Init
<1>2. InVector = {} /\ DOMAIN items = {}
  BY <1>1 DEF InVector
<1>3. Held = {} /\ raw = {} /\ Stored = {} /\ Yielding = {} /\ hand \in [B!Item -> {0, 1}]
  BY <1>2 DEF Init, B!Init, Held, Stored, Yielding
<1>4. Distinct
  BY <1>2, <1>3 DEF Distinct
<1>5. Apart
  BY <1>3 DEF Apart
<1>6. Owned = {}
  BY <1>3 DEF Owned
<1>7. Alive
  BY <1>6 DEF Alive, Init, B!Init
<1> QED BY <1>4, <1>5, <1>7

\* Items leave variables.
LEMMA HeldLeave ==
  ASSUME Apart, NEW S \in SUBSET B!Item, \A i \in S : hand[i] > 0, B!Hands(S, -1)
  PROVE  /\ S \subseteq Held
         /\ Held' = Held \ S
         /\ hand' \in [B!Item -> {0, 1}]
<1>1. \A i \in B!Item : hand[i] \in {0, 1}
  BY DEF Apart
<1>2. \A i \in S : hand[i] = 1
  BY <1>1
<1>3. \A i \in B!Item : hand'[i] = IF i \in S THEN 0 ELSE hand[i]
  BY <1>2 DEF B!Hands
<1> QED BY <1>1, <1>2, <1>3 DEF B!Hands, Held

\* Items get into variables.
LEMMA HeldEnter ==
  ASSUME Apart, NEW S \in SUBSET B!Item, S \cap Held = {}, B!Hands(S, 1)
  PROVE  /\ Held' = Held \cup S
         /\ hand' \in [B!Item -> {0, 1}]
<1>1. \A i \in B!Item : hand[i] \in {0, 1}
  BY DEF Apart
<1>2. \A i \in S : hand[i] = 0
  BY <1>1 DEF Held
<1>3. \A i \in B!Item : hand'[i] = IF i \in S THEN 1 ELSE hand[i]
  BY <1>2 DEF B!Hands
<1> QED BY <1>1, <1>2, <1>3 DEF B!Hands, Held

\* Boxes that have an owner are freed, and lose it.
LEMMA FreeOwned ==
  ASSUME Alive, NEW S \in SUBSET B!Item, S \subseteq Owned, NEW lib, B!Free(S, lib),
         unboxed' = unboxed, unboxed \subseteq B!Item, Owned' = Owned \ S
  PROVE  Alive'
<1>1. \A i \in B!Item : /\ content'[i] = IF i \in S THEN "dropped" ELSE content[i]
                        /\ live'[i] = IF i \in S THEN live[i] - 1 ELSE live[i]
  BY DEF B!Free, B!Gone
<1>2. \A i \in B!Item : live'[i] = IF i \in Owned' THEN 1 ELSE 0
  BY <1>1 DEF Alive
<1>3. \A i \in B!Item : i \in Owned' <=> content'[i] = "alive" /\ i \notin unboxed'
  BY <1>1 DEF Alive
<1>4. \A i \in unboxed' : content'[i] # "none"
  BY <1>1 DEF Alive
<1> QED BY <1>2, <1>3, <1>4 DEF Alive

\* Items change their owners and nothing else.
LEMMA MoveOwned ==
  ASSUME Alive, UNCHANGED <<content, live, unboxed>>, Owned' = Owned
  PROVE  Alive'
BY DEF Alive

\* The boxes and strings by themselves: the vector stays, and one item moves, is made or
\* goes.
LEMMA BoxStepOwn ==
  ASSUME B!TypeOK, Distinct, Apart, Alive, BoxStep
  PROVE  Distinct' /\ Apart' /\ Alive'
<1> USE DEF B!Item
<1>1. Stored' = Stored /\ Yielding' = Yielding /\ Distinct'
  BY DEF BoxStep, vector, Stored, Yielding, InVector, Distinct
<1>2. /\ raw \subseteq B!Item /\ unboxed \subseteq Box
      /\ content \in [B!Item -> {"none", "alive", "dropped"}] /\ live \in [B!Item -> Int]
  BY DEF B!TypeOK
<1>3. ASSUME NEW i \in B!Item, B!Make(i) PROVE Apart' /\ Alive'
  <2>1. i \notin Owned /\ i \notin unboxed /\ live[i] = 0
    BY <1>3 DEF B!Make, Alive
  <2>2. raw' = raw /\ unboxed' = unboxed
    BY <1>3 DEF B!Make
  <2>3. Held' = Held \cup {i} /\ hand' \in [B!Item -> {0, 1}]
    BY <1>3, <2>1, HeldEnter DEF B!Make, Owned
  <2>4. Apart'
    BY <1>1, <2>1, <2>2, <2>3 DEF Apart, Owned
  <2>5. Owned' = Owned \cup {i}
    BY <1>1, <2>2, <2>3 DEF Owned
  <2>6. \A j \in B!Item : /\ content'[j] = IF j = i THEN "alive" ELSE content[j]
                          /\ live'[j] = IF j = i THEN 1 ELSE live[j]
    BY <1>2, <1>3, <2>1 DEF B!Make
  <2>7. Alive'
    BY <1>2, <2>1, <2>2, <2>5, <2>6 DEF Alive
  <2> QED BY <2>4, <2>7
<1>4. ASSUME NEW i \in B!Item, B!Send(i) PROVE Apart' /\ Alive'
  <2>1. i \in Held /\ Held' = Held \ {i} /\ hand' \in [B!Item -> {0, 1}]
    BY <1>4, HeldLeave DEF B!Send
  <2>2. raw' = raw \cup {i}
    BY <1>4 DEF B!Send
  <2>3. Apart' /\ Owned' = Owned
    BY <1>1, <2>1, <2>2 DEF Apart, Owned
  <2> QED BY <1>4, <2>3, MoveOwned DEF B!Send
<1>5. ASSUME NEW i \in B!Item, B!Take(i) PROVE Apart' /\ Alive'
  <2>1. i \in raw /\ i \notin Held /\ raw' = raw \ {i}
    BY <1>5 DEF B!Take, Apart
  <2>2. Held' = Held \cup {i} /\ hand' \in [B!Item -> {0, 1}]
    BY <1>5, <2>1, HeldEnter DEF B!Take
  <2>3. Apart' /\ Owned' = Owned
    BY <1>1, <2>1, <2>2 DEF Apart, Owned
  <2> QED BY <1>5, <2>3, MoveOwned DEF B!Take
<1>6. ASSUME NEW S \in SUBSET B!Item, \A i \in S : hand[i] > 0, B!Hands(S, -1), raw' = raw
      PROVE  Apart' /\ S \subseteq Owned /\ Owned' = Owned \ S
  <2>1. S \subseteq Held /\ Held' = Held \ S /\ hand' \in [B!Item -> {0, 1}]
    BY <1>6, HeldLeave
  <2> QED BY <1>1, <1>6, <2>1 DEF Apart, Owned
<1>7. ASSUME NEW s \in Str, B!StrDrop(s) PROVE Apart' /\ Alive'
  <2>1. Apart' /\ s \in Owned /\ Owned' = Owned \ {s}
    BY <1>6, <1>7 DEF B!StrDrop
  <2>2. \A j \in B!Item : /\ content'[j] = IF j = s THEN "dropped" ELSE content[j]
                          /\ live'[j] = IF j = s THEN live[j] - 1 ELSE live[j]
    BY <1>2, <1>7 DEF B!StrDrop
  <2>3. unboxed' = unboxed
    BY <1>7 DEF B!StrDrop
  <2>4. Alive'
    BY <1>2, <2>1, <2>2, <2>3 DEF Alive
  <2> QED BY <2>1, <2>4
<1>8. ASSUME NEW b \in Box, B!NewFails(b) PROVE Apart' /\ Alive'
  <2>1. content[b] = "none" /\ UNCHANGED <<live, hand, raw, unboxed>>
    BY <1>8 DEF B!NewFails
  <2>2. \A j \in B!Item : content'[j] = IF j = b THEN "dropped" ELSE content[j]
    BY <1>2, <1>8 DEF B!NewFails
  <2>3. Held' = Held /\ Owned' = Owned
    BY <1>1, <2>1 DEF Held, Owned
  <2>4. Apart'
    BY <1>1, <2>1, <2>3 DEF Apart
  <2>5. Alive'
    BY <1>2, <2>1, <2>2, <2>3 DEF Alive
  <2> QED BY <2>4, <2>5
<1>9. ASSUME NEW b \in Box, B!Unbox(b) PROVE Apart' /\ Alive'
  <2>1. Apart' /\ b \in Owned /\ Owned' = Owned \ {b}
    BY <1>6, <1>9 DEF B!Unbox
  <2>2. content' = content /\ unboxed' = unboxed \cup {b}
    BY <1>9 DEF B!Unbox
  <2>3. \A j \in B!Item : live'[j] = IF j = b THEN live[j] - 1 ELSE live[j]
    BY <1>2, <1>9 DEF B!Unbox
  <2>4. Alive'
    BY <1>2, <2>1, <2>2, <2>3 DEF Alive
  <2> QED BY <2>1, <2>4
<1>10. ASSUME NEW b \in Box, NEW lib, B!Drop({b}, lib) PROVE Apart' /\ Alive'
  <2>1. Apart' /\ {b} \subseteq Owned /\ Owned' = Owned \ {b}
    BY <1>6, <1>10 DEF B!Drop
  <2> QED BY <1>2, <1>10, <2>1, FreeOwned DEF B!Drop
<1>11. ASSUME NEW b \in Box, NEW lib, B!DropRaw(b, lib) PROVE Apart' /\ Alive'
  <2>1. b \in raw /\ raw' = raw \ {b} /\ UNCHANGED <<hand, unboxed>>
    BY <1>11 DEF B!DropRaw
  <2>2. Held' = Held
    BY <2>1 DEF Held
  <2>3. Apart' /\ {b} \subseteq Owned /\ Owned' = Owned \ {b}
    BY <1>1, <2>1, <2>2 DEF Apart, Owned
  <2> QED BY <1>2, <1>11, <2>1, <2>3, FreeOwned DEF B!DropRaw
<1>12. ASSUME NEW b \in Box, NEW lib, B!DropUnboxed(b, lib) PROVE Apart' /\ Alive'
  <2>1. b \in unboxed /\ UNCHANGED <<live, hand, raw, unboxed>>
    BY <1>12 DEF B!DropUnboxed
  <2>2. \A j \in B!Item : content'[j] = IF j = b THEN "dropped" ELSE content[j]
    BY <1>2, <1>12 DEF B!DropUnboxed
  <2>3. Held' = Held /\ Owned' = Owned
    BY <1>1, <2>1 DEF Held, Owned
  <2>4. Apart'
    BY <1>1, <2>1, <2>3 DEF Apart
  <2>5. Alive'
    BY <1>2, <2>1, <2>2, <2>3 DEF Alive
  <2> QED BY <2>4, <2>5
<1>13. Apart' /\ Alive'
  BY <1>3, <1>4, <1>5, <1>7, <1>8, <1>9, <1>10, <1>11, <1>12
     DEF BoxStep, B!New, B!IntoRaw, B!FromRaw, B!Create, B!StrIntoRaw, B!StrFromRaw
<1> QED BY <1>1, <1>13

\* What is appended to the elements is stored, and nothing else.
LEMMA StoredAppended ==
  ASSUME VP!BlockInv, life # "dropped", life' = life, NEW s \in Seq(Elem), VP!Appended(s)
  PROVE  /\ Stored' = Stored \cup ToSet(s)
         /\ (/\ \A j, k \in InVector : vec.slots[j] = vec.slots[k] => j = k
             /\ IsInjective(s) /\ ToSet(s) \cap Stored = {})
              => \A j, k \in InVector' : vec'.slots[j] = vec'.slots[k] => j = k
<1> DEFINE l == vec.len
           n == Len(s)
           old == vec.slots
           new == vec'.slots
<1>1. l \in Nat /\ n \in Nat /\ DOMAIN s = 1..n
  BY DEF VP!BlockInv, VP!Block
<1>2. /\ \A k \in 1..l : new[k] = old[k]
      /\ \A j \in 1..n : new[l + j] = s[j]
      /\ InVector = 1..l /\ InVector' = 1..(l + n)
  BY DEF VP!Appended, InVector
<1>3. Stored = {old[k] : k \in 1..l} /\ Stored' = {new[k] : k \in 1..(l + n)}
  BY <1>2 DEF Stored
<1>4. ToSet(s) = {s[j] : j \in 1..n}
  BY <1>1 DEF ToSet
<1> HIDE DEF l, n, old, new
<1>5. \A k \in 1..(l + n) : k \in 1..l \/ (k - l \in 1..n /\ k = l + (k - l))
  BY <1>1
<1>6. \A k \in 1..l : k \in 1..(l + n)
  BY <1>1
<1>7. \A j \in 1..n : l + j \in 1..(l + n)
  BY <1>1
<1>8. Stored' = Stored \cup ToSet(s)
  <2>1. ASSUME NEW x \in Stored' PROVE x \in Stored \cup ToSet(s)
    <3>1. PICK k \in 1..(l + n) : x = new[k]
      BY <1>3
    <3>2. CASE k \in 1..l
      BY <1>2, <1>3, <3>1, <3>2 DEF l, old, new
    <3>3. CASE k - l \in 1..n /\ k = l + (k - l)
      <4>1. new[l + (k - l)] = s[k - l]
        BY <1>2, <3>3 DEF l, n, new
      <4> QED BY <1>4, <3>1, <3>3, <4>1
    <3> QED BY <1>5, <3>2, <3>3
  <2>2. ASSUME NEW x \in Stored PROVE x \in Stored'
    <3>1. PICK k \in 1..l : x = old[k]
      BY <1>3
    <3> QED BY <1>2, <1>3, <1>6, <3>1 DEF l, old, new
  <2>3. ASSUME NEW x \in ToSet(s) PROVE x \in Stored'
    <3>1. PICK j \in 1..n : x = s[j]
      BY <1>4
    <3> QED BY <1>2, <1>3, <1>7, <3>1 DEF l, n, new
  <2> QED BY <2>1, <2>2, <2>3
<1>9. ASSUME \A j, k \in 1..l : old[j] = old[k] => j = k,
             IsInjective(s), ToSet(s) \cap Stored = {},
             NEW j \in 1..(l + n), NEW k \in 1..(l + n), new[j] = new[k]
      PROVE  j = k
  <2>1. CASE j \in 1..l /\ k \in 1..l
    BY <1>2, <1>9, <2>1 DEF l, old, new
  <2>2. ASSUME NEW a \in 1..l, NEW b \in 1..(l + n), b - l \in 1..n, b = l + (b - l)
        PROVE  new[a] # new[b]
    <3>1. new[a] \in Stored
      BY <1>2, <1>3 DEF l, old, new
    <3>2. new[b] = s[b - l]
      BY <1>2, <2>2 DEF l, n, new
    <3>3. s[b - l] \in ToSet(s)
      BY <1>4, <2>2
    <3> QED BY <1>9, <3>1, <3>2, <3>3
  <2>3. CASE j - l \in 1..n /\ j = l + (j - l) /\ k - l \in 1..n /\ k = l + (k - l)
    <3>1. new[j] = s[j - l] /\ new[k] = s[k - l]
      BY <1>2, <2>3 DEF l, n, new
    <3>2. j - l = k - l
      BY <1>1, <1>9, <2>3, <3>1 DEF IsInjective
    <3> QED BY <1>1, <3>2
  <2> QED BY <1>5, <1>9, <2>1, <2>2, <2>3
<1> QED BY <1>2, <1>8, <1>9 DEF l, n, old, new

\* The elements are owned by their variables before and by the vector afterwards.
LEMMA PushOwn ==
  ASSUME VP!BlockInv, B!TypeOK, ~plain, Distinct, Apart, Alive, Sound',
         NEW s \in Seq(Elem), Supply(s), V!PushSeq(s), MoveIn(s)
  PROVE  /\ Distinct' /\ Apart' /\ Alive'
         /\ ToSet(s) \subseteq Held /\ Held' = Held \ ToSet(s) /\ Yielding' = Yielding
<1>1. /\ life = "owned" /\ life' = life /\ items' = items
      /\ IsInjective(s) /\ (\A b \in ToSet(s) : hand[b] > 0)
      /\ B!Hands(ToSet(s), -1) /\ UNCHANGED <<content, live, raw, unboxed>>
  BY DEF V!PushSeq, V!Idle, V!local, Supply, MoveIn, B!Give
<1>2. ToSet(s) \subseteq Box /\ ToSet(s) \in SUBSET B!Item
  BY DEF ToSet, B!Item, Box
<1>3. VP!Appended(s)
  <2>1. VP!Sound'
    BY DEF Sound, VP!Sound, Fits, VP!Fits, Size, VP!Size, Limit, VP!Limit
  <2> QED BY <2>1, SameAssumption, SameActions, VP!PushAppends
<1>4. /\ ToSet(s) \subseteq Held /\ Held' = Held \ ToSet(s)
      /\ hand' \in [B!Item -> {0, 1}]
  BY <1>1, <1>2, HeldLeave
<1>5. Stored' = Stored \cup ToSet(s) /\ Yielding' = Yielding
  BY <1>1, <1>3, StoredAppended DEF Yielding
<1>6. ToSet(s) \cap Stored = {}
  BY <1>4 DEF Apart
<1>7. Distinct'
  BY <1>1, <1>2, <1>3, <1>5, <1>6, StoredAppended DEF Distinct
<1>8. Apart' /\ Owned' = Owned
  BY <1>1, <1>4, <1>5 DEF Apart, Owned
<1> QED BY <1>1, <1>4, <1>5, <1>7, <1>8, MoveOwned

\* The iterator of extend takes the elements, and the reservation keeps those of the vector.
LEMMA BeginOwn ==
  ASSUME VP!BlockInv, B!TypeOK, ~plain, Distinct, Apart, Alive, Sound',
         NEW s \in Seq(Elem), NEW claim \in Claims, NEW hint,
         Supply(s), V!ExtendBegin(s, claim, hint), MoveIn(s)
  PROVE  /\ Distinct' /\ Apart' /\ Alive'
         /\ ToSet(s) \subseteq Held /\ Held' = Held \ ToSet(s)
         /\ Yielding = {} /\ Yielding' = ToSet(s)
<1>1. /\ life = "owned" /\ life' = life /\ items = <<>> /\ items' = s
      /\ IsInjective(s) /\ (\A b \in ToSet(s) : hand[b] > 0)
      /\ B!Hands(ToSet(s), -1) /\ UNCHANGED <<content, live, raw, unboxed>>
  BY DEF V!ExtendBegin, V!ExtendLocals, V!Idle, VP!BlockInv, Supply, MoveIn, B!Give
<1>2. ToSet(s) \subseteq Box /\ ToSet(s) \in SUBSET B!Item
  BY DEF ToSet, B!Item, Box
<1>3. VP!Appended(<<>>)
  <2>1. VP!Sound'
    BY DEF Sound, VP!Sound, Fits, VP!Fits, Size, VP!Size, Limit, VP!Limit
  <2>2. VP!ExtendBegin(s, claim, hint)
    BY SameActions
  <2> QED BY <2>1, <2>2, SameAssumption, VP!ReserveKeepsElements
<1>4. /\ ToSet(s) \subseteq Held /\ Held' = Held \ ToSet(s)
      /\ hand' \in [B!Item -> {0, 1}]
  BY <1>1, <1>2, HeldLeave
<1>5. ToSet(<<>>) = {} /\ IsInjective(<<>>) /\ <<>> \in Seq(Elem)
  BY DEF ToSet, IsInjective
<1>6. /\ Stored' = Stored
      /\ \A j, k \in InVector' : vec'.slots[j] = vec'.slots[k] => j = k
  <2> DEFINE none == <<>>
  <2>1. /\ ToSet(none) = {} /\ IsInjective(none) /\ none \in Seq(Elem) /\ VP!Appended(none)
    BY <1>3, <1>5
  <2> HIDE DEF none
  <2>2. life # "dropped" /\ \A j, k \in InVector : vec.slots[j] = vec.slots[k] => j = k
    BY <1>1 DEF Distinct
  <2>3. ToSet(none) \cap Stored = {}
    BY <2>1
  <2> QED BY <1>1, <2>1, <2>2, <2>3, StoredAppended
<1>7. Yielding = {} /\ Yielding' = ToSet(s)
  BY <1>1 DEF Yielding, ToSet
<1>8. Distinct'
  BY <1>1, <1>6 DEF Distinct, IsInjective
<1>9. Apart' /\ Owned' = Owned
  BY <1>1, <1>4, <1>6, <1>7 DEF Apart, Owned
<1> QED BY <1>1, <1>4, <1>7, <1>8, <1>9, MoveOwned

\* An element goes from the iterator into the vector.
LEMMA NextOwn ==
  ASSUME VP!BlockInv, extending => life = "owned", Distinct, Apart, Alive, Sound',
         V!ExtendNext, UNCHANGED boxes
  PROVE  /\ Distinct' /\ Apart' /\ Alive'
         /\ Head(items) \in Yielding /\ Held' = Held /\ Yielding' = Yielding \ {Head(items)}
<1> DEFINE e == Head(items)
           n == Len(items)
<1>1. /\ life = "owned" /\ life' = life /\ items' = Tail(items)
      /\ UNCHANGED <<content, live, hand, raw, unboxed>>
      /\ items \in Seq(Elem) /\ items # <<>>
  BY DEF V!ExtendNext, VP!BlockInv, boxes
<1>2. /\ n \in Nat \ {0} /\ DOMAIN items = 1..n /\ e = items[1] /\ e \in Elem
      /\ DOMAIN Tail(items) = 1..(n - 1) /\ \A k \in 1..(n - 1) : Tail(items)[k] = items[k + 1]
  BY <1>1
<1>3. VP!Appended(<<e>>)
  <2>1. VP!Sound'
    BY DEF Sound, VP!Sound, Fits, VP!Fits, Size, VP!Size, Limit, VP!Limit
  <2> QED BY <2>1, SameAssumption, SameActions, VP!ExtendAppends
<1> HIDE DEF e, n
<1>4. ToSet(<<e>>) = {e} /\ IsInjective(<<e>>) /\ <<e>> \in Seq(Elem)
  BY <1>2 DEF ToSet, IsInjective
<1>5. e \in Yielding /\ \A k \in 1..n : items[k] = e => k = 1
  BY <1>2 DEF Yielding, Distinct
<1>6. /\ Stored' = Stored \cup {e}
      /\ \A j, k \in InVector' : vec'.slots[j] = vec'.slots[k] => j = k
  <2>1. ToSet(<<e>>) \cap Stored = {}
    BY <1>4, <1>5 DEF Apart
  <2>2. life # "dropped" /\ \A j, k \in InVector : vec.slots[j] = vec.slots[k] => j = k
    BY <1>1 DEF Distinct
  <2> QED BY <1>1, <1>3, <1>4, <2>1, <2>2, StoredAppended
<1>7. Yielding' = Yielding \ {e}
  <2>1. Yielding = {items[k] : k \in 1..n} /\ Yielding' = {items[k + 1] : k \in 1..(n - 1)}
    BY <1>1, <1>2 DEF Yielding
  <2>2. ASSUME NEW x \in Yielding \ {e} PROVE x \in Yielding'
    <3>1. PICK k \in 1..n : x = items[k]
      BY <2>1
    <3>2. k # 1
      BY <1>2, <2>2, <3>1
    <3>3. k - 1 \in 1..(n - 1) /\ items[(k - 1) + 1] = x
      BY <1>2, <3>1, <3>2
    <3> QED BY <2>1, <3>3
  <2>3. ASSUME NEW x \in Yielding' PROVE x \in Yielding \ {e}
    <3>1. PICK k \in 1..(n - 1) : x = items[k + 1]
      BY <2>1
    <3>2. k + 1 \in 1..n /\ k + 1 # 1
      BY <1>2
    <3> QED BY <1>5, <2>1, <3>1, <3>2
  <2> QED BY <2>2, <2>3
<1>8. Held' = Held
  BY <1>1 DEF Held
<1>9. \A j, k \in DOMAIN items' : items'[j] = items'[k] => j = k
  <2> SUFFICES ASSUME NEW j \in 1..(n - 1), NEW k \in 1..(n - 1), items[j + 1] = items[k + 1]
               PROVE  j = k
    BY <1>1, <1>2
  <2>1. j + 1 \in 1..n /\ k + 1 \in 1..n
    BY <1>2
  <2>2. j + 1 = k + 1
    BY <1>2, <2>1 DEF Distinct
  <2> QED BY <2>2
<1>10. e \in Box
  BY <1>2 DEF Box
<1>11. Distinct'
  BY <1>6, <1>9, <1>10 DEF Distinct
<1>12. Apart' /\ Owned' = Owned
  BY <1>1, <1>5, <1>6, <1>7, <1>8 DEF Apart, Owned
<1>13. Distinct' /\ Apart' /\ Alive'
  BY <1>1, <1>11, <1>12, MoveOwned
<1> QED BY <1>5, <1>7, <1>8, <1>13 DEF e

\* What the iterator has not yielded is dropped with it.
LEMMA LeaveOwn ==
  ASSUME VP!BlockInv, B!TypeOK, Distinct, Apart, Alive,
         V!ExtendLeave, NEW lib, B!DropHeld(ToSet(items), lib)
  PROVE  /\ Distinct' /\ Apart' /\ Alive'
         /\ ToSet(items) = Yielding /\ Held' = Held /\ Yielding' = {}
<1>1. /\ vec' = vec /\ life' = life /\ items' = <<>> /\ items \in Seq(Elem)
      /\ UNCHANGED <<hand, raw, unboxed>> /\ B!Free(ToSet(items), lib)
  BY DEF V!ExtendLeave, B!DropHeld, VP!BlockInv
<1>2. ToSet(items) = Yielding /\ Yielding' = {} /\ Held' = Held /\ Stored' = Stored
  BY <1>1 DEF ToSet, Yielding, Held, Stored, InVector
<1>3. Distinct'
  BY <1>1, <1>2 DEF Distinct, InVector
<1>4. Apart' /\ Owned' = Owned \ ToSet(items) /\ ToSet(items) \subseteq Owned
  BY <1>1, <1>2 DEF Apart, Owned
<1>5. ToSet(items) \in SUBSET B!Item /\ unboxed \subseteq B!Item /\ unboxed' = unboxed
  BY <1>1 DEF ToSet, B!TypeOK, B!Item, Box
<1> QED BY <1>1, <1>2, <1>3, <1>4, <1>5, FreeOwned

\* The last element goes from the vector into a variable.
LEMMA PopOwn ==
  ASSUME VP!BlockInv, B!TypeOK, Distinct, Apart, Alive, V!Pop, B!Receive({V!Last})
  PROVE  /\ Distinct' /\ Apart' /\ Alive'
         /\ V!Last = vec.slots[vec.len] /\ V!Last \in Stored
         /\ Held' = Held \cup {V!Last} /\ Yielding' = Yielding
<1> DEFINE l == vec.len
           e == vec.slots[vec.len]
<1>1. /\ life = "owned" /\ life' = life /\ items' = items
      /\ B!Hands({V!Last}, 1) /\ UNCHANGED <<content, live, raw, unboxed>>
  BY DEF V!Pop, V!Idle, V!local, B!Receive
<1>2. /\ l \in 1..MaxLen /\ vec'.len = l - 1
      /\ \A k \in 1..(l - 1) : vec'.slots[k] = vec.slots[k]
      /\ V!Last = e
  <2>1. V!Last = VP!Last
    BY DEF V!Last, VP!Last, V!Get, VP!Get
  <2> QED BY <2>1, SameAssumption, SameActions, VP!PopRemovesLast
<1>3. l \in Nat \ {0} /\ InVector = 1..l /\ InVector' = 1..(l - 1)
  BY <1>1, <1>2, BlockAssumption DEF InVector
<1> HIDE DEF l
<1>4. \A k \in 1..(l - 1) : k \in 1..l /\ k # l
  BY <1>3
<1>5. l \in 1..l /\ \A k \in 1..l : k = l \/ k \in 1..(l - 1)
  BY <1>3
<1>6. e \in Stored /\ e = vec.slots[l]
  BY <1>3, <1>5 DEF Stored, l
<1> HIDE DEF e
<1>7. Stored' = Stored \ {e}
  <2>1. Stored = {vec.slots[k] : k \in 1..l}
    BY <1>3 DEF Stored
  <2>2. Stored' = {vec.slots[k] : k \in 1..(l - 1)}
    BY <1>2, <1>3 DEF Stored
  <2>3. \A k \in 1..l : vec.slots[k] = e => k = l
    BY <1>3, <1>5, <1>6 DEF Distinct
  <2> QED BY <1>4, <1>5, <1>6, <2>1, <2>2, <2>3
<1>8. e \in B!Item /\ e \notin Held
  BY <1>6 DEF Distinct, Apart, B!Item
<1>9. Held' = Held \cup {e} /\ hand' \in [B!Item -> {0, 1}]
  BY <1>1, <1>2, <1>8, HeldEnter
<1>10. Yielding' = Yielding
  BY <1>1 DEF Yielding
<1>11. Distinct'
  BY <1>1, <1>2, <1>3, <1>4, <1>7 DEF Distinct
<1>12. Apart' /\ Owned' = Owned
  BY <1>1, <1>6, <1>7, <1>9, <1>10 DEF Apart, Owned
<1>13. Distinct' /\ Apart' /\ Alive'
  BY <1>1, <1>11, <1>12, MoveOwned
<1> QED BY <1>2, <1>6, <1>9, <1>10, <1>13 DEF e

\* The elements are dropped with the vector.
LEMMA DropOwn ==
  ASSUME VP!BlockInv, B!TypeOK, Distinct, Apart, Alive, V!Drop, NEW lib,
         B!DropHeld(ToSet(V!Elements), lib)
  PROVE  /\ Distinct' /\ Apart' /\ Alive'
         /\ ToSet(V!Elements) = Stored /\ Held' = Held /\ Yielding' = Yielding
<1>1. /\ life = "owned" /\ life' = "dropped" /\ items' = items
      /\ UNCHANGED <<hand, raw, unboxed>> /\ B!Free(ToSet(V!Elements), lib)
  BY DEF V!Drop, V!Idle, V!local, B!DropHeld
<1>2. InVector = 1..vec.len /\ InVector' = {} /\ vec.len \in Nat
  BY <1>1 DEF InVector, VP!BlockInv, VP!Block
<1>3. ToSet(V!Elements) = Stored
  <2>1. \A k \in 1..vec.len : V!Get(k - 1) = vec.slots[k]
    BY <1>2 DEF V!Get
  <2> QED BY <1>2, <2>1 DEF ToSet, V!Elements, Stored
<1>4. Stored' = {} /\ Held' = Held /\ Yielding' = Yielding
  BY <1>1, <1>2 DEF Stored, Held, Yielding
<1>5. Distinct'
  BY <1>1, <1>2, <1>4 DEF Distinct
<1>6. Apart' /\ Owned' = Owned \ Stored /\ Stored \subseteq Owned
  BY <1>1, <1>4 DEF Apart, Owned
<1>7. Stored \in SUBSET B!Item /\ unboxed \subseteq B!Item /\ unboxed' = unboxed
  BY <1>1 DEF Distinct, B!TypeOK, B!Item
<1> QED BY <1>1, <1>3, <1>4, <1>5, <1>6, <1>7, FreeOwned

\* A reservation that panics drops the argument, and the vector is as before.
LEMMA FailOwn ==
  ASSUME B!TypeOK, Distinct, Apart, Alive, UNCHANGED vector,
         NEW s \in Seq(Elem), NEW lib, B!Drop(ToSet(s), lib)
  PROVE  /\ Distinct' /\ Apart' /\ Alive'
         /\ ToSet(s) \subseteq Held /\ Held' = Held \ ToSet(s) /\ Yielding' = Yielding
<1>1. Stored' = Stored /\ Yielding' = Yielding /\ Distinct'
  BY DEF vector, Stored, Yielding, InVector, Distinct
<1>2. /\ ToSet(s) \in SUBSET B!Item /\ \A b \in ToSet(s) : hand[b] > 0
      /\ B!Hands(ToSet(s), -1) /\ UNCHANGED <<raw, unboxed>> /\ B!Free(ToSet(s), lib)
  BY DEF ToSet, B!Item, Box, B!Drop
<1>3. /\ ToSet(s) \subseteq Held /\ Held' = Held \ ToSet(s)
      /\ hand' \in [B!Item -> {0, 1}]
  BY <1>2, HeldLeave
<1>4. Apart' /\ Owned' = Owned \ ToSet(s) /\ ToSet(s) \subseteq Owned
  BY <1>1, <1>2, <1>3 DEF Apart, Owned
<1>5. unboxed \subseteq B!Item
  BY DEF B!TypeOK, B!Item
<1> QED BY <1>1, <1>2, <1>3, <1>4, <1>5, FreeOwned

\* Steps that leave owners and elements alone.
LEMMA StutterOwn ==
  ASSUME Distinct, Apart, Alive, UNCHANGED <<vec, items, boxes>>,
         life' = life \/ (life # "dropped" /\ life' # "dropped")
  PROVE  Distinct' /\ Apart' /\ Alive'
<1>1. InVector' = InVector
  BY DEF InVector
<1>2. Stored' = Stored /\ Yielding' = Yielding /\ Held' = Held /\ raw' = raw
  BY <1>1 DEF Stored, Yielding, Held, boxes
<1>3. Distinct'
  BY <1>1, <1>2 DEF Distinct
<1>4. Apart' /\ Owned' = Owned
  BY <1>2 DEF Apart, Owned, boxes
<1> QED BY <1>3, <1>4, MoveOwned DEF boxes

\* Only a vector that is owned is in a call of extend, and one that is dropped is empty.
LifeInv ==
  /\ extending => life = "owned"
  /\ life = "dropped" => vec.len = 0

\* Every operation but from_raw starts from a vector that is owned.
LEMMA LifeStep == VP!BlockInv /\ LifeInv /\ [V!Next]_(V!vars) => LifeInv'
<1> SUFFICES ASSUME VP!BlockInv, LifeInv, [V!Next]_(V!vars) PROVE LifeInv' OBVIOUS
<1> USE DEF LifeInv
<1>1. CASE UNCHANGED <<extending, life, vec>>
  BY <1>1
<1>2. ASSUME NEW s, NEW e,
             V!Push(e) \/ V!ExtendArray(s) \/ V!ExtendFromSlice(s) \/ V!Pop
      PROVE  LifeInv'
  BY <1>2 DEF V!Push, V!ExtendArray, V!ExtendFromSlice, V!PushSeq, V!Pop, V!Idle, V!local
<1>3. ASSUME NEW s, NEW claim, NEW hint, V!ExtendBegin(s, claim, hint)
      PROVE  LifeInv'
  BY <1>3 DEF V!ExtendBegin, V!Idle
<1>4. ASSUME NEW s, NEW claim, V!PushSeqFails(s) \/ V!ExtendBeginFails(claim)
      PROVE  UNCHANGED <<extending, life, vec>>
  BY <1>4 DEF V!PushSeqFails, V!ExtendBeginFails, V!vars, V!local
<1>5. CASE V!ExtendNext
  BY <1>5 DEF V!ExtendNext
<1>6. CASE V!ExtendEnd \/ V!ExtendPanics
  BY <1>6 DEF V!ExtendEnd, V!ExtendPanics, V!ExtendLeave
<1>7. CASE V!IntoRaw
  BY <1>7 DEF V!IntoRaw, V!Idle, V!local
<1>8. CASE V!FromRaw
  BY <1>8 DEF V!FromRaw
<1>9. CASE V!Drop
  BY <1>9 DEF V!Drop, V!Idle, V!local, VP!BlockInv, VP!Block
<1>10. CASE UNCHANGED V!vars
  BY <1>10 DEF V!vars, V!local
<1> QED BY <1>1, <1>2, <1>3, <1>4, <1>5, <1>6, <1>7, <1>8, <1>9, <1>10 DEF V!Next

\* A block that is no longer defined does not become so again.
LEMMA SoundBefore == [Next]_vars /\ Sound' => Sound
<1> SUFFICES ASSUME [Next]_vars, Sound' PROVE Sound OBVIOUS
<1>1. vec' = vec \/ V!Sound
  BY DEF Next, BoxStep, VectorStep, Terminated, vars, vector, Push, ExtendArray,
         ExtendFromSlice, PushSeqFails, ExtendBegin, ExtendBeginFails, ExtendNext, ExtendEnd,
         ExtendPanics, Pop, IntoRaw, FromRaw, Drop, V!Push, V!ExtendArray, V!ExtendFromSlice,
         V!PushSeq, V!ExtendBegin, V!ExtendNext, V!ExtendEnd, V!ExtendPanics, V!Pop,
         V!IntoRaw, V!FromRaw, V!Drop, V!Idle
<1>2. V!Sound <=> Sound
  BY DEF V!Sound, Sound, V!Fits, Fits, V!Size, Size, V!Limit, Limit
<1>3. CASE vec' = vec
  BY <1>3 DEF Sound, Fits, Size, Limit
<1> QED BY <1>1, <1>2, <1>3

\* One case for each operation.
LEMMA OwnStep ==
  ASSUME TypeOK, VP!BlockInv, LifeInv, OwnInv, [Next]_vars
  PROVE  OwnInv'
<1>1. plain' = plain
  BY DEF Next, BoxStep, VectorStep, Terminated, vars, Push, ExtendArray, ExtendFromSlice,
         PushSeqFails, ExtendBegin, ExtendBeginFails, ExtendNext, ExtendEnd, ExtendPanics,
         Pop, IntoRaw, FromRaw, Drop
<1> SUFFICES ASSUME ~plain, Sound' PROVE Distinct' /\ Apart' /\ Alive'
  BY <1>1 DEF OwnInv
<1>2. Distinct /\ Apart /\ Alive /\ B!TypeOK
  BY SoundBefore DEF OwnInv, TypeOK
<1> DEFINE Goal == Distinct' /\ Apart' /\ Alive'
<1>3. ASSUME BoxStep PROVE Goal
  BY <1>2, <1>3, BoxStepOwn
<1>4. ASSUME NEW b \in Box, Push(b) PROVE Goal
  <2>1. <<b>> \in Seq(Elem) /\ V!PushSeq(<<b>>)
    BY <1>4 DEF Push, V!Push, Box
  <2> QED BY <1>2, <1>4, <2>1, PushOwn DEF Push
<1>5. ASSUME NEW s \in Seq(Elem), ExtendArray(s) PROVE Goal
  BY <1>2, <1>5, PushOwn DEF ExtendArray, V!ExtendArray
<1>6. ASSUME NEW s, NEW lib, ExtendFromSlice(s) PROVE FALSE
  BY <1>6 DEF ExtendFromSlice
<1>7. ASSUME NEW s \in Seq(Elem), NEW claim \in Claims, NEW hint, ExtendBegin(s, claim, hint)
      PROVE  Goal
  BY <1>2, <1>7, BeginOwn DEF ExtendBegin
<1>8. ASSUME NEW s \in Seq(Elem), NEW claim, NEW lib,
             PushSeqFails(s, lib) \/ ExtendBeginFails(s, claim, lib)
      PROVE  Goal
  BY <1>2, <1>8, FailOwn DEF PushSeqFails, ExtendBeginFails
<1>9. ASSUME ExtendNext PROVE Goal
  BY <1>2, <1>9, NextOwn DEF ExtendNext, LifeInv
<1>10. ASSUME NEW lib, ExtendPanics(lib) PROVE Goal
  BY <1>2, <1>10, LeaveOwn DEF ExtendPanics, V!ExtendPanics
<1>11. ASSUME ExtendEnd PROVE Goal
  BY <1>2, <1>11, StutterOwn DEF ExtendEnd, V!ExtendEnd, V!ExtendLeave
<1>12. ASSUME Pop PROVE Goal
  BY <1>2, <1>12, PopOwn DEF Pop
<1>13. ASSUME NEW lib, Drop(lib) PROVE Goal
  BY <1>2, <1>13, DropOwn DEF Drop
<1>14. ASSUME IntoRaw \/ FromRaw PROVE Goal
  BY <1>2, <1>14, StutterOwn DEF IntoRaw, FromRaw, V!IntoRaw, V!FromRaw, V!Idle, V!local
<1>15. ASSUME Terminated \/ UNCHANGED vars PROVE Goal
  BY <1>2, <1>15, StutterOwn DEF Terminated, vars, vector
<1> HIDE DEF Goal
<1>16. Goal
  BY <1>3, <1>4, <1>5, <1>6, <1>7, <1>8, <1>9, <1>10, <1>11, <1>12, <1>13, <1>14, <1>15,
     SeqOfIsSeq DEF Next, VectorStep
<1> QED BY <1>16 DEF Goal

\* A place that holds an item once counts as one.
LEMMA OneOrNone ==
  ASSUME NEW S, NEW f, NEW i, \A j, k \in S : f[j] = f[k] => j = k
  PROVE  Cardinality({k \in S : f[k] = i}) = IF i \in {f[k] : k \in S} THEN 1 ELSE 0
<1>1. CASE i \notin {f[k] : k \in S}
  <2>1. {k \in S : f[k] = i} = {}
    BY <1>1
  <2> QED BY <1>1, <2>1, FS_EmptySet
<1>2. CASE i \in {f[k] : k \in S}
  <2>1. PICK j \in S : f[j] = i
    BY <1>2
  <2>2. {k \in S : f[k] = i} = {j}
    BY <2>1
  <2> QED BY <1>2, <2>2, FS_Singleton
<1> QED BY <1>1, <1>2

\* Places that are apart count as one together.
LEMMA OwnInvSuffices == OwnInv => OwnedOnce
<1> SUFFICES ASSUME Distinct, Apart, Alive, NEW i \in B!Item
             PROVE  /\ Owners(i) = live[i]
                    /\ live[i] = IF content[i] = "alive" /\ i \notin unboxed THEN 1 ELSE 0
  BY DEF OwnInv, OwnedOnce
<1>1. Cardinality({k \in InVector : vec.slots[k] = i}) = IF i \in Stored THEN 1 ELSE 0
  <2>1. \A j, k \in InVector : vec.slots[j] = vec.slots[k] => j = k
    BY DEF Distinct
  <2> QED BY <2>1, OneOrNone, Zenon DEF Stored
<1>2. Cardinality({k \in DOMAIN items : items[k] = i}) = IF i \in Yielding THEN 1 ELSE 0
  <2>1. \A j, k \in DOMAIN items : items[j] = items[k] => j = k
    BY DEF Distinct
  <2> QED BY <2>1, OneOrNone, Zenon DEF Yielding
<1>3. hand[i] = IF i \in Held THEN 1 ELSE 0
  BY DEF Apart, Held
<1>4. Owners(i) = IF i \in Owned THEN 1 ELSE 0
  BY <1>1, <1>2, <1>3 DEF Owners, Apart, Owned
<1> QED BY <1>4 DEF Alive

\* The invariant holds throughout.
LEMMA OwnAlways == Spec => [](LifeInv /\ OwnInv)
<1>1. Init => OwnInv /\ LifeInv
  BY InitOwn DEF Init, V!Init, LifeInv
<1>2. TypeOK /\ VP!BlockInv /\ LifeInv /\ OwnInv /\ [Next]_vars => OwnInv'
  BY OwnStep
<1>3. [Next]_vars => [V!Next]_(V!vars)
  BY StepsVector DEF vars, vector, V!vars, V!local
<1> QED BY <1>1, <1>2, <1>3, LifeStep, VectorInvariant, ContainersTypeCorrect, PTL DEF Spec

\* Every block of a box or a string has one owner as long as its value lives in it, and none
\* afterwards, through every failed allocation, panic in an iterator, reallocation, removal
\* and passage between libraries: none is freed twice or under an owner, and none leaks.
THEOREM BlocksAreOwnedOnce == Spec => []OwnedOnce
<1>1. OwnInv => OwnedOnce
  BY OwnInvSuffices
<1> QED BY <1>1, OwnAlways, PTL

--------------------------------------------------------------------------------
(* Who drops a box *)

\* The block of a box that is alive has the function of its maker, and one that is gone was
\* given back to it.
Made ==
  \A b \in Box \ unboxed :
    /\ content[b] = "alive" => mfree[b] = Maker[b]
    /\ content[b] = "dropped" => dropper[b] = Maker[b]

\* Of elements that are owned and a block that is defined.
MadeInv == ~plain /\ Sound => Made

\* The function of a box that has an owner is still in its block when it is called.
LEMMA FreeMade ==
  ASSUME B!TypeOK, Alive, Made, NEW S, S \subseteq Owned, NEW lib, B!Free(S, lib),
         unboxed' = unboxed
  PROVE  Made'
<1>1. \A b \in Box :
        /\ content'[b] = IF b \in S THEN "dropped" ELSE content[b]
        /\ mfree'[b] = IF b \in S THEN Nobody ELSE mfree[b]
        /\ dropper'[b] = IF b \in S THEN mfree[b] ELSE dropper[b]
  BY DEF B!Free, B!Gone, B!Item
<1>2. \A b \in Box : b \in S => content[b] = "alive"
  BY DEF Alive, B!Item
<1> QED BY <1>1, <1>2 DEF Made

\* One item: boxes are made with the function of their maker, and move with it.
LEMMA BoxStepMade ==
  ASSUME B!TypeOK, Apart, Alive, Made, BoxStep
  PROVE  Made'
<1> USE DEF B!Item, B!TypeOK
<1>1. ASSUME NEW b \in Box, B!New(b) \/ B!NewFails(b) PROVE Made'
  BY <1>1 DEF B!New, B!Make, B!NewFails, Made
<1>2. ASSUME NEW s \in Str, B!Create(s) \/ B!StrDrop(s) PROVE Made'
  <2>1. s \notin Box
    BY ContainersAssumption
  <2> QED BY <1>2, <2>1 DEF B!Create, B!Make, B!StrDrop, Made
<1>3. ASSUME NEW i \in B!Item, B!Send(i) \/ B!Take(i) PROVE Made'
  BY <1>3 DEF B!Send, B!Take, Made
<1>4. ASSUME NEW b \in Box, B!Unbox(b) PROVE Made'
  BY <1>4 DEF B!Unbox, Made
<1>5. ASSUME NEW b \in Box, NEW lib, B!Drop({b}, lib) PROVE Made'
  <2>1. b \in Owned
    BY <1>5 DEF B!Drop, Apart, Owned, Held
  <2> QED BY <1>5, <2>1, FreeMade DEF B!Drop
<1>6. ASSUME NEW b \in Box, NEW lib, B!DropRaw(b, lib) PROVE Made'
  BY <1>6, FreeMade DEF B!DropRaw, Owned
<1>7. ASSUME NEW b \in Box, NEW lib, B!DropUnboxed(b, lib) PROVE Made'
  BY <1>7 DEF B!DropUnboxed, Made
<1> QED BY <1>1, <1>2, <1>3, <1>4, <1>5, <1>6, <1>7
        DEF BoxStep, B!IntoRaw, B!FromRaw, B!StrIntoRaw, B!StrFromRaw

\* Elsewhere boxes move, or those are dropped that the vector, the iterator or the call owns.
LEMMA MadeStep ==
  ASSUME TypeOK, VP!BlockInv, LifeInv, OwnInv, MadeInv, [Next]_vars
  PROVE  MadeInv'
<1>1. plain' = plain
  BY DEF Next, BoxStep, VectorStep, Terminated, vars, Push, ExtendArray, ExtendFromSlice,
         PushSeqFails, ExtendBegin, ExtendBeginFails, ExtendNext, ExtendEnd, ExtendPanics,
         Pop, IntoRaw, FromRaw, Drop
<1> SUFFICES ASSUME ~plain, Sound' PROVE Made'
  BY <1>1 DEF MadeInv
<1>2. Distinct /\ Apart /\ Alive /\ Made /\ B!TypeOK
  BY SoundBefore DEF OwnInv, MadeInv, TypeOK
<1>3. CASE UNCHANGED <<content, unboxed, mfree, dropper>>
  BY <1>2, <1>3 DEF Made
<1>4. CASE BoxStep
  BY <1>2, <1>4, BoxStepMade
<1>5. ASSUME NEW s, NEW claim, NEW hint, NEW b,
             \/ Push(b) \/ ExtendArray(s) \/ ExtendFromSlice(s)
             \/ ExtendBegin(s, claim, hint) \/ ExtendNext \/ ExtendEnd
             \/ Pop \/ IntoRaw \/ FromRaw \/ Terminated \/ UNCHANGED vars
      PROVE  UNCHANGED <<content, unboxed, mfree, dropper>>
  BY <1>5 DEF Push, ExtendArray, ExtendFromSlice, ExtendBegin, ExtendNext, ExtendEnd, Pop,
              IntoRaw, FromRaw, Terminated, MoveIn, B!Give, B!Receive, boxes, vars
<1>6. ASSUME NEW s \in Seq(Elem), NEW claim, NEW lib,
             PushSeqFails(s, lib) \/ ExtendBeginFails(s, claim, lib)
      PROVE  Made'
  <2>1. ToSet(s) \subseteq Held
    BY <1>2, <1>6, FailOwn DEF PushSeqFails, ExtendBeginFails
  <2> QED BY <1>2, <1>6, <2>1, FreeMade DEF PushSeqFails, ExtendBeginFails, B!Drop, Owned
<1>7. ASSUME NEW lib, ExtendPanics(lib) PROVE Made'
  <2>1. ToSet(items) = Yielding
    BY <1>2, <1>7, LeaveOwn DEF ExtendPanics, V!ExtendPanics
  <2> QED BY <1>2, <1>7, <2>1, FreeMade DEF ExtendPanics, B!DropHeld, Owned
<1>8. ASSUME NEW lib, Drop(lib) PROVE Made'
  <2>1. ToSet(V!Elements) = Stored
    BY <1>2, <1>8, DropOwn DEF Drop
  <2> QED BY <1>2, <1>8, <2>1, FreeMade DEF Drop, B!DropHeld, Owned
<1>9. CASE VectorStep
  BY <1>3, <1>5, <1>6, <1>7, <1>8, <1>9, SeqOfIsSeq DEF VectorStep
<1> QED BY <1>3, <1>4, <1>5, <1>9 DEF Next

\* A box that has not been unboxed is dropped by the function of the library that made it,
\* which its block still holds, whichever library drops the vector, the iterator, the raw
\* pointer or the variable that has it: this needs its block to have one owner.
THEOREM MakerDropsBox == Spec => []DroppedByMaker
<1>1. Init => MadeInv
  BY DEF Init, B!Init, MadeInv, Made, B!Item
<1>2. MadeInv => DroppedByMaker
  BY DEF MadeInv, Made, DroppedByMaker, B!DroppedByMaker
<1> QED BY <1>1, <1>2, MadeStep, OwnAlways, VectorInvariant, ContainersTypeCorrect, PTL
        DEF Spec

--------------------------------------------------------------------------------
(* The vector is a list *)

\* What ElementList sees of the containers.
Listed == V!Elements
Client == IF plain THEN Box
          ELSE {b \in Box : hand[b] > 0 \/ b \in raw \/ b \in ToSet(items)
                              \/ (b \in unboxed /\ content[b] = "alive")}
Gone == {b \in Box : content[b] = "dropped"}

\* At first the list is empty.
LEMMA MapsInit == Init => List!Init
<1> SUFFICES ASSUME Init PROVE List!Init OBVIOUS
<1>1. vec.len = 0 /\ items = <<>>
  BY DEF Init, V!Init
<1>2. V!Elements = <<>>
  BY <1>1 DEF V!Elements
<1>3. ToSet(items) = {}
  BY <1>1 DEF ToSet
<1>4. \A b \in Box : content[b] = "none" /\ hand[b] = 0
  BY DEF Init, B!Init, B!Item
<1>5. raw = {} /\ unboxed = {}
  BY DEF Init, B!Init
<1>6. {b \in Box : content[b] = "dropped"} = {}
  BY <1>4
<1>7. {b \in Box : hand[b] > 0 \/ b \in raw \/ b \in ToSet(items)
                     \/ (b \in unboxed /\ content[b] = "alive")} = {}
  BY <1>3, <1>4, <1>5
<1>8. plain \in BOOLEAN
  BY DEF Init
<1> QED BY <1>2, <1>6, <1>7, <1>8, Zenon DEF List!Init, Box

\* A step that ElementList does not see.
LEMMA MapsStutter ==
  plain' = plain /\ Listed' = Listed /\ Client' = Client /\ Gone' = Gone => UNCHANGED List!vars
BY DEF List!vars, Client, Gone, Listed, ToSet

\* AppendAll
LEMMA MapsAppend ==
  ASSUME NEW s \in SeqOf(Client, MaxItems), plain' = plain, Gone' = Gone,
         Listed' = Listed \o s, Client' = IF plain THEN Client ELSE Client \ ToSet(s)
  PROVE  List!Next
<1>1. ToSet(s) \subseteq Client
  BY DEF SeqOf, ToSet
<1>2. List!AppendAll(s)
  BY <1>1 DEF List!AppendAll, Client, Gone, Listed, ToSet, List!ToSet
<1>3. s \in List!SeqOf(Client, MaxItems)
  BY DEF SeqOf, List!SeqOf
<1> QED BY <1>2, <1>3 DEF List!Next, Client

\* RemoveLast
LEMMA MapsRemove ==
  ASSUME plain' = plain, Gone' = Gone,
         Listed # <<>>, Listed' = Front(Listed), Client' = Client \cup {Last(Listed)}
  PROVE  List!Next
<1>1. List!RemoveLast
  BY DEF List!RemoveLast, Client, Gone, Listed, List!Front, Front, List!Last, Last
<1> QED BY <1>1 DEF List!Next

\* Discard
LEMMA MapsDiscard ==
  ASSUME plain' = plain, ~plain, NEW S \in SUBSET (Box \ ToSet(Listed)), Listed' = Listed,
         Client' = Client \ S, Gone' = Gone \cup S
  PROVE  List!Next
<1>1. List!Discard(S)
  BY DEF List!Discard, Client, Gone, Listed
<1> QED BY <1>1 DEF List!Next, Box, Listed, ToSet, List!ToSet

\* Clear
LEMMA MapsClear ==
  ASSUME plain' = plain, Listed' = <<>>, Client' = Client,
         Gone' = IF plain THEN Gone ELSE Gone \cup ToSet(Listed)
  PROVE  List!Next
<1>1. List!Clear
  BY DEF List!Clear, Client, Gone, Listed, ToSet, List!ToSet
<1> QED BY <1>1 DEF List!Next

\* Make
LEMMA MapsMake ==
  ASSUME plain' = plain, ~plain, NEW b \in Box, b \notin Client \cup Gone \cup ToSet(Listed),
         Listed' = Listed, Client' = Client \cup {b}, Gone' = Gone
  PROVE  List!Next
<1>1. List!Make(b)
  BY DEF List!Make, Client, Gone, Listed, ToSet, List!ToSet
<1> QED BY <1>1 DEF List!Next, Box

\* The elements, as a sequence.
AllWritten == Sound => \A k \in 1..vec.len : vec.slots[k] \in Elem

\* They are the slots below the length, all of them elements.
LEMMA ListedIs ==
  ASSUME VP!BlockInv, AllWritten, Sound
  PROVE  /\ vec.len \in Nat
         /\ Listed = [k \in 1..vec.len |-> vec.slots[k]]
         /\ Listed \in Seq(Elem) /\ Len(Listed) = vec.len
<1>1. vec.len \in Nat
  BY DEF VP!BlockInv, VP!Block
<1>2. \A k \in 1..vec.len : V!Get(k - 1) = vec.slots[k]
  BY <1>1 DEF V!Get
<1>3. Listed = [k \in 1..vec.len |-> vec.slots[k]]
  BY <1>2 DEF Listed, V!Elements
<1>4. Listed \in [1..vec.len -> Elem]
  BY <1>3 DEF AllWritten
<1> QED BY <1>1, <1>3, <1>4

\* What is appended to the slots is appended to the list.
LEMMA ListedAppended ==
  ASSUME VP!BlockInv, AllWritten, Sound, NEW s \in Seq(Elem), VP!Appended(s)
  PROVE  Listed' = Listed \o s
<1> DEFINE l == vec.len
           n == Len(s)
<1>1. /\ l \in Nat /\ n \in Nat /\ DOMAIN s = 1..n
      /\ Listed \in Seq(Elem) /\ Len(Listed) = l /\ \A k \in 1..l : Listed[k] = vec.slots[k]
  BY ListedIs
<1>2. /\ vec'.len = l + n
      /\ \A k \in 1..l : vec'.slots[k] = vec.slots[k]
      /\ \A j \in 1..n : vec'.slots[l + j] = s[j]
  BY DEF VP!Appended
<1> HIDE DEF l, n
<1>3. \A k \in 1..(l + n) : (V!Get(k - 1))' = vec'.slots[k]
  BY <1>1, <1>2 DEF V!Get
<1>4. Listed' = [k \in 1..(l + n) |-> vec'.slots[k]]
  BY <1>2, <1>3 DEF Listed, V!Elements
<1>5. Listed \o s = [k \in 1..(l + n) |-> IF k <= l THEN Listed[k] ELSE s[k - l]]
  <2> DEFINE c == Listed \o s
  <2>1. /\ c \in Seq(Elem) /\ Len(c) = l + n
        /\ \A k \in 1..(l + n) : c[k] = IF k <= l THEN Listed[k] ELSE s[k - l]
    BY <1>1, ConcatProperties DEF n
  <2> HIDE DEF c
  <2>2. c = [k \in 1..(l + n) |-> c[k]]
    BY <2>1
  <2>3. c = [k \in 1..(l + n) |-> IF k <= l THEN Listed[k] ELSE s[k - l]]
    BY <2>1, <2>2
  <2> QED BY <2>3 DEF c
<1>6. ASSUME NEW k \in 1..(l + n)
      PROVE  vec'.slots[k] = IF k <= l THEN Listed[k] ELSE s[k - l]
  <2>1. CASE k <= l
    BY <1>1, <1>2, <2>1
  <2>2. CASE ~(k <= l)
    <3>1. k - l \in 1..n /\ k = l + (k - l)
      BY <1>1, <2>2
    <3>2. vec'.slots[l + (k - l)] = s[k - l]
      BY <1>2, <3>1
    <3> QED BY <2>2, <3>1, <3>2
  <2> QED BY <2>1, <2>2
<1> QED BY <1>4, <1>5, <1>6

\* The operations on the vector, as operations on the list.
LEMMA ListedPush ==
  ASSUME VP!BlockInv, AllWritten, Sound, Sound', NEW s \in Seq(Elem), V!PushSeq(s)
  PROVE  Listed' = Listed \o s
<1>1. VP!Sound'
  BY DEF Sound, VP!Sound, Fits, VP!Fits, Size, VP!Size, Limit, VP!Limit
<1>2. VP!Appended(s)
  BY <1>1, SameAssumption, SameActions, VP!PushAppends
<1> QED BY <1>2, ListedAppended

\* extend, as it begins, moves the block and leaves the list as it is.
LEMMA ListedBegin ==
  ASSUME VP!BlockInv, AllWritten, Sound, Sound', NEW s, NEW claim \in Claims, NEW hint,
         V!ExtendBegin(s, claim, hint)
  PROVE  Listed' = Listed
<1> DEFINE none == <<>>
<1>1. VP!Sound'
  BY DEF Sound, VP!Sound, Fits, VP!Fits, Size, VP!Size, Limit, VP!Limit
<1>2. VP!ExtendBegin(s, claim, hint)
  BY SameActions
<1>3. VP!Appended(none)
  BY <1>1, <1>2, SameAssumption, VP!ReserveKeepsElements
<1>4. none \in Seq(Elem)
  OBVIOUS
<1>5. Listed \o none = Listed
  BY ListedIs, ConcatEmptySeq
<1> HIDE DEF none
<1>6. Listed' = Listed \o none
  BY <1>3, <1>4, ListedAppended
<1> QED BY <1>5, <1>6

\* An item of the iterator goes to the end of the list.
LEMMA ListedNext ==
  ASSUME VP!BlockInv, AllWritten, Sound, Sound', V!ExtendNext
  PROVE  Listed' = Listed \o <<Head(items)>> /\ Head(items) \in Elem
<1> DEFINE s == <<Head(items)>>
<1>1. VP!Sound'
  BY DEF Sound, VP!Sound, Fits, VP!Fits, Size, VP!Size, Limit, VP!Limit
<1>2. VP!Appended(s)
  BY <1>1, SameAssumption, SameActions, VP!ExtendAppends
<1>3. s \in Seq(Elem) /\ Head(items) \in Elem
  BY DEF VP!BlockInv, V!ExtendNext
<1> HIDE DEF s
<1>4. Listed' = Listed \o s
  BY <1>2, <1>3, ListedAppended
<1> QED BY <1>3, <1>4 DEF s

\* pop takes the last element and leaves the rest in place.
LEMMA ListedPop ==
  ASSUME VP!BlockInv, AllWritten, Sound, V!Pop
  PROVE  /\ Listed # <<>> /\ Listed' = Front(Listed)
         /\ Last(Listed) = V!Last /\ V!Last \in Elem
<1> DEFINE l == vec.len
<1>1. /\ l \in 1..MaxLen /\ vec'.len = l - 1
      /\ \A k \in 1..(l - 1) : vec'.slots[k] = vec.slots[k]
      /\ V!Last = vec.slots[l]
  <2>1. V!Last = VP!Last
    BY DEF V!Last, VP!Last, V!Get, VP!Get
  <2> QED BY <2>1, SameAssumption, SameActions, VP!PopRemovesLast
<1>2. /\ l \in Nat \ {0} /\ Listed \in Seq(Elem) /\ Len(Listed) = l
      /\ \A k \in 1..l : Listed[k] = vec.slots[k]
  BY <1>1, ListedIs, BlockAssumption
<1> HIDE DEF l
<1>3. \A k \in 1..(l - 1) : (V!Get(k - 1))' = vec'.slots[k]
  BY <1>1, <1>2 DEF V!Get
<1>4. Listed' = [k \in 1..(l - 1) |-> Listed[k]]
  <2>1. Listed' = [k \in 1..(l - 1) |-> vec'.slots[k]]
    BY <1>1, <1>3 DEF Listed, V!Elements
  <2>2. \A k \in 1..(l - 1) : vec'.slots[k] = Listed[k]
    BY <1>1, <1>2
  <2> QED BY <2>1, <2>2
<1>5. Front(Listed) = [k \in 1..(l - 1) |-> Listed[k]]
  BY <1>2 DEF Front
<1>6. Last(Listed) = V!Last /\ V!Last \in Elem
  BY <1>1, <1>2 DEF Last
<1> QED BY <1>2, <1>4, <1>5, <1>6

\* Nothing is in the list once the vector is dropped.
LEMMA ListedDrop ==
  ASSUME VP!BlockInv, V!Drop
  PROVE  Listed' = <<>>
<1>1. vec'.len = 0
  BY DEF V!Drop, VP!BlockInv, VP!Block
<1> QED BY <1>1 DEF Listed, V!Elements

\* A step that leaves the block alone leaves the list alone.
LEMMA ListedKept == vec' = vec => Listed' = Listed
BY DEF Listed, V!Elements, V!Get

\* A call of the elements that may be used is one that the list allows.
LEMMA CallsAreAllowed ==
  /\ \A s \in SeqOf(Box, MaxItems) : ToSet(s) \subseteq Client => s \in SeqOf(Client, MaxItems)
  /\ \A b \in Client : <<b>> \in SeqOf(Client, MaxItems) /\ ToSet(<<b>>) = {b}
<1>1. MaxItems \in Nat \ {0}
  BY ContainersAssumption
<1>2. ASSUME NEW s \in SeqOf(Box, MaxItems), ToSet(s) \subseteq Client
      PROVE  s \in SeqOf(Client, MaxItems)
  <2>1. PICK m \in 0..MaxItems : s \in [1..m -> Box]
    BY DEF SeqOf
  <2>2. s \in [1..m -> Client]
    BY <1>2, <2>1 DEF ToSet
  <2> QED BY <2>2 DEF SeqOf
<1>3. ASSUME NEW b \in Client
      PROVE  <<b>> \in SeqOf(Client, MaxItems) /\ ToSet(<<b>>) = {b}
  <2>1. <<b>> \in [1..1 -> Client] /\ 1 \in 0..MaxItems
    BY <1>1
  <2> QED BY <2>1 DEF SeqOf, ToSet
<1> QED BY <1>2, <1>3

\* Plain elements: the client may use all of them at any time.
LEMMA PlainStep ==
  ASSUME VP!BlockInv, AllWritten, Sound, Sound', plain, [Next]_vars
  PROVE  [List!Next]_(List!vars)
<1>1. /\ UNCHANGED <<plain, boxes>>
  BY DEF Next, BoxStep, VectorStep, Terminated, vars, Push, ExtendArray, ExtendFromSlice,
         PushSeqFails, ExtendBegin, ExtendBeginFails, ExtendNext, ExtendEnd, ExtendPanics,
         Pop, IntoRaw, FromRaw, Drop, MoveIn
<1>2. Client = Box /\ Client' = Box /\ Gone' = Gone
  BY <1>1 DEF Client, Gone, boxes
<1>3. ASSUME vec' = vec PROVE UNCHANGED List!vars
  BY <1>1, <1>2, <1>3, ListedKept, MapsStutter
<1>4. ASSUME NEW s \in SeqOf(Client, MaxItems), Listed' = Listed \o s PROVE List!Next
  BY <1>1, <1>2, <1>4, MapsAppend
<1>5. ASSUME NEW b \in Box, Push(b) PROVE List!Next
  <2>1. <<b>> \in Seq(Elem) /\ V!PushSeq(<<b>>)
    BY <1>5 DEF Push, V!Push, Box
  <2>2. Listed' = Listed \o <<b>>
    BY <2>1, ListedPush
  <2> QED BY <1>2, <1>4, <2>2, CallsAreAllowed
<1>6. ASSUME NEW s \in SeqOf(Box, MaxItems), ExtendArray(s) \/ ExtendFromSlice(s)
      PROVE  List!Next
  <2>1. V!PushSeq(s) /\ s \in Seq(Elem)
    BY <1>6, SeqOfIsSeq DEF ExtendArray, ExtendFromSlice, V!ExtendArray, V!ExtendFromSlice
  <2> QED BY <1>2, <1>4, <2>1, ListedPush
<1>7. ASSUME NEW s, NEW claim \in Claims, NEW hint, ExtendBegin(s, claim, hint)
      PROVE  UNCHANGED List!vars
  BY <1>1, <1>2, <1>7, ListedBegin, MapsStutter DEF ExtendBegin
<1>8. CASE ExtendNext
  BY <1>2, <1>4, <1>8, ListedNext, CallsAreAllowed DEF ExtendNext, Box
<1>9. CASE Pop
  BY <1>1, <1>2, <1>9, ListedPop, MapsRemove DEF Pop, Box
<1>10. ASSUME NEW lib, Drop(lib) PROVE List!Next
  BY <1>1, <1>2, <1>10, ListedDrop, MapsClear DEF Drop
<1>11. ASSUME NEW lib,
              ExtendPanics(lib) \/ ExtendEnd \/ IntoRaw \/ FromRaw \/ Terminated \/ UNCHANGED vars
       PROVE  vec' = vec
  BY <1>11 DEF ExtendPanics, ExtendEnd, IntoRaw, FromRaw, Terminated, vars, vector,
               V!ExtendPanics, V!ExtendEnd, V!ExtendLeave, V!IntoRaw, V!FromRaw
<1>12. ASSUME NEW s, NEW claim, NEW lib,
              BoxStep \/ PushSeqFails(s, lib) \/ ExtendBeginFails(s, claim, lib)
       PROVE  FALSE
  BY <1>12 DEF BoxStep, PushSeqFails, ExtendBeginFails
<1> DEFINE Goal == [List!Next]_(List!vars)
<1>13. List!Next => Goal
  OBVIOUS
<1>14. UNCHANGED List!vars => Goal
  OBVIOUS
<1> HIDE DEF Goal
<1>15. Goal
  BY <1>3, <1>5, <1>6, <1>7, <1>8, <1>9, <1>10, <1>11, <1>12, <1>13, <1>14
     DEF Next, VectorStep
<1> QED BY <1>15 DEF Goal

\* Values that were moved out of their boxes and not dropped yet.
Loose == {b \in unboxed : content[b] = "alive"}
Usable == (Box \cap (Held \cup raw \cup Yielding)) \cup Loose

\* The client may use what it holds.
LEMMA ClientIs == ~plain /\ Apart /\ B!TypeOK => Client = Usable
<1> SUFFICES ASSUME ~plain, Apart, B!TypeOK PROVE Client = Usable OBVIOUS
<1>1. ToSet(items) = Yielding
  BY DEF ToSet, Yielding
<1>2. \A b \in Box : hand[b] > 0 <=> b \in Held
  BY DEF Apart, Held, B!Item
<1>3. Loose \subseteq Box
  BY DEF Loose, B!TypeOK
<1> QED BY <1>1, <1>2, <1>3 DEF Client, Usable, Loose

\* After a step, too.
LEMMA ClientWillBe == ~plain' /\ Apart' /\ B!TypeOK' => Client' = Usable'
<1> SUFFICES ASSUME ~plain', Apart', B!TypeOK' PROVE Client' = Usable' OBVIOUS
<1>1. ToSet(items') = Yielding'
  BY DEF ToSet, Yielding
<1>2. \A b \in Box : hand'[b] > 0 <=> b \in Held'
  BY DEF Apart, Held, B!Item
<1>3. Loose' \subseteq Box
  BY DEF Loose, B!TypeOK
<1> QED BY <1>1, <1>2, <1>3 DEF Client, Usable, Loose

\* The elements of the list are those that the vector owns.
LEMMA StoredIsListed ==
  ASSUME VP!BlockInv, AllWritten, Sound, LifeInv
  PROVE  ToSet(Listed) = Stored
<1>1. /\ vec.len \in Nat /\ Listed = [k \in 1..vec.len |-> vec.slots[k]]
      /\ Listed \in Seq(Elem) /\ Len(Listed) = vec.len
  BY ListedIs
<1>2. ToSet(Listed) = {vec.slots[k] : k \in 1..vec.len}
  BY <1>1 DEF ToSet
<1>3. InVector = 1..vec.len
  BY <1>1 DEF InVector, LifeInv
<1> QED BY <1>2, <1>3 DEF Stored

\* Freed boxes are gone, and were not loose.
LEMMA FreeSeen ==
  ASSUME Alive, B!TypeOK, NEW S \in SUBSET Box, S \subseteq Owned, NEW lib, B!Free(S, lib),
         unboxed' = unboxed
  PROVE  Loose' = Loose /\ Loose \cap S = {} /\ Gone' = Gone \cup S
<1>1. \A b \in Box : content'[b] = IF b \in S THEN "dropped" ELSE content[b]
  BY DEF B!Free, B!Gone, B!Item
<1>2. unboxed \subseteq Box /\ \A b \in S : b \in B!Item
  BY DEF B!TypeOK, B!Item
<1>3. \A b \in S : b \notin unboxed
  BY <1>2 DEF Alive
<1>4. Loose' = Loose /\ Loose \cap S = {}
  BY <1>1, <1>2, <1>3 DEF Loose
<1>5. Gone' = Gone \cup S
  BY <1>1 DEF Gone
<1> QED BY <1>4, <1>5

\* Items change hands.
LEMMA MoveSeen == UNCHANGED <<content, unboxed>> => Loose' = Loose /\ Gone' = Gone
BY DEF Loose, Gone

\* Boxes by themselves: what becomes of one is what ElementList says, and it does not see
\* strings, nor which of the client's places a box is at.
LEMMA BoxStepSeen ==
  ASSUME VP!BlockInv, AllWritten, Sound, LifeInv, B!TypeOK, Apart, Alive, ~plain, BoxStep,
         Client = Usable, Client' = Usable'
  PROVE  List!Next \/ UNCHANGED List!vars
<1> USE DEF B!Item
<1>1. plain' = plain /\ Stored' = Stored /\ Yielding' = Yielding /\ Listed' = Listed
  BY ListedKept DEF BoxStep, vector, Stored, Yielding, InVector
<1>2. /\ raw \subseteq B!Item /\ unboxed \subseteq Box
      /\ content \in [B!Item -> {"none", "alive", "dropped"}]
  BY DEF B!TypeOK
<1>3. \A s \in Str : s \notin Box
  BY ContainersAssumption
<1>4. ToSet(Listed) = Stored
  BY StoredIsListed
<1>5. ASSUME Usable' = Usable, Gone' = Gone PROVE UNCHANGED List!vars
  BY <1>1, <1>5, MapsStutter
<1>6. ASSUME NEW b \in Box, b \notin Stored, Usable' = Usable \ {b}, Gone' = Gone \cup {b}
      PROVE  List!Next
  BY <1>1, <1>4, <1>6, MapsDiscard
<1>7. ASSUME NEW b \in Box, B!Make(b) PROVE List!Next
  <2>1. b \notin Owned /\ b \notin unboxed
    BY <1>7 DEF B!Make, Alive
  <2>2. /\ raw' = raw /\ unboxed' = unboxed
        /\ \A c \in Box : content'[c] = IF c = b THEN "alive" ELSE content[c]
    BY <1>2, <1>7 DEF B!Make
  <2>3. Held' = Held \cup {b}
    BY <1>7, <2>1, HeldEnter DEF B!Make, Owned
  <2>4. Loose' = Loose /\ Gone' = Gone /\ b \notin Gone /\ b \notin Loose
    BY <1>2, <1>7, <2>1, <2>2 DEF Loose, Gone, B!Make
  <2>5. Usable' = Usable \cup {b} /\ b \notin Usable /\ b \notin Stored
    BY <1>1, <2>1, <2>2, <2>3, <2>4 DEF Usable, Owned
  <2> QED BY <1>1, <1>4, <2>4, <2>5, MapsMake
<1>8. ASSUME NEW s \in Str, B!Make(s) PROVE UNCHANGED List!vars
  <2>1. s \notin Owned
    BY <1>8 DEF B!Make, Alive
  <2>2. /\ raw' = raw /\ unboxed' = unboxed
        /\ \A c \in Box : content'[c] = content[c]
    BY <1>2, <1>3, <1>8 DEF B!Make
  <2>3. Held' = Held \cup {s}
    BY <1>8, <2>1, HeldEnter DEF B!Make, Owned
  <2>4. Loose' = Loose /\ Gone' = Gone
    BY <1>2, <2>2 DEF Loose, Gone
  <2>5. Usable' = Usable
    BY <1>1, <1>3, <2>2, <2>3, <2>4 DEF Usable
  <2> QED BY <1>5, <2>4, <2>5
<1>9. ASSUME NEW i \in B!Item, B!Send(i) PROVE UNCHANGED List!vars
  <2>1. i \in Held /\ Held' = Held \ {i} /\ raw' = raw \cup {i}
    BY <1>9, HeldLeave DEF B!Send
  <2>2. Loose' = Loose /\ Gone' = Gone
    BY <1>9, MoveSeen DEF B!Send
  <2> QED BY <1>1, <1>5, <2>1, <2>2 DEF Usable
<1>10. ASSUME NEW i \in B!Item, B!Take(i) PROVE UNCHANGED List!vars
  <2>1. i \in raw /\ i \notin Held /\ raw' = raw \ {i}
    BY <1>10 DEF B!Take, Apart
  <2>2. Held' = Held \cup {i}
    BY <1>10, <2>1, HeldEnter DEF B!Take
  <2>3. Loose' = Loose /\ Gone' = Gone
    BY <1>10, MoveSeen DEF B!Take
  <2> QED BY <1>1, <1>5, <2>1, <2>2, <2>3 DEF Usable
<1>11. ASSUME NEW s \in Str, B!StrDrop(s) PROVE UNCHANGED List!vars
  <2>1. Held' = Held \ {s} /\ raw' = raw /\ unboxed' = unboxed
    BY <1>11, HeldLeave DEF B!StrDrop
  <2>2. \A c \in Box : content'[c] = content[c]
    BY <1>2, <1>3, <1>11 DEF B!StrDrop
  <2>3. Loose' = Loose /\ Gone' = Gone
    BY <1>2, <2>1, <2>2 DEF Loose, Gone
  <2>4. Usable' = Usable
    BY <1>1, <1>3, <2>1, <2>3 DEF Usable
  <2> QED BY <1>5, <2>3, <2>4
<1>12. ASSUME NEW b \in Box, B!NewFails(b) PROVE List!Next
  <2>1. content[b] = "none" /\ UNCHANGED <<hand, raw, unboxed>>
    BY <1>12 DEF B!NewFails
  <2>2. \A c \in Box : content'[c] = IF c = b THEN "dropped" ELSE content[c]
    BY <1>2, <1>12 DEF B!NewFails
  <2>3. b \notin Owned /\ b \notin unboxed
    BY <2>1 DEF Alive
  <2>4. Held' = Held /\ Loose' = Loose /\ Gone' = Gone \cup {b} /\ b \notin Loose
    BY <1>2, <2>1, <2>2, <2>3 DEF Held, Loose, Gone
  <2>5. Usable' = Usable \ {b} /\ b \notin Stored
    BY <1>1, <2>1, <2>3, <2>4 DEF Usable, Owned
  <2> QED BY <1>6, <2>4, <2>5
<1>13. ASSUME NEW b \in Box, B!Unbox(b) PROVE UNCHANGED List!vars
  <2>1. b \in Held /\ Held' = Held \ {b} /\ raw' = raw
    BY <1>13, HeldLeave DEF B!Unbox
  <2>2. content' = content /\ unboxed' = unboxed \cup {b} /\ content[b] = "alive"
    BY <1>13, <2>1 DEF B!Unbox, Alive, Owned
  <2>3. Loose' = Loose \cup {b} /\ Gone' = Gone
    BY <2>2 DEF Loose, Gone
  <2> QED BY <1>1, <1>5, <2>1, <2>3 DEF Usable
<1>14. ASSUME NEW b \in Box, NEW lib, B!Drop({b}, lib) PROVE List!Next
  <2>1. /\ b \in Held /\ Held' = Held \ {b} /\ raw' = raw /\ unboxed' = unboxed
        /\ B!Free({b}, lib)
    BY <1>14, HeldLeave DEF B!Drop
  <2>2. Loose' = Loose /\ Loose \cap {b} = {} /\ Gone' = Gone \cup {b}
    BY <2>1, FreeSeen DEF Owned
  <2>3. b \notin raw /\ b \notin Yielding /\ b \notin Stored
    BY <2>1 DEF Apart
  <2>4. Usable' = Usable \ {b}
    BY <1>1, <2>1, <2>2, <2>3 DEF Usable
  <2> QED BY <1>6, <2>2, <2>3, <2>4
<1>15. ASSUME NEW b \in Box, NEW lib, B!DropRaw(b, lib) PROVE List!Next
  <2>1. /\ b \in raw /\ raw' = raw \ {b} /\ hand' = hand /\ unboxed' = unboxed
        /\ B!Free({b}, lib)
    BY <1>15 DEF B!DropRaw
  <2>2. Loose' = Loose /\ Loose \cap {b} = {} /\ Gone' = Gone \cup {b}
    BY <2>1, FreeSeen DEF Owned
  <2>3. b \notin Held /\ b \notin Yielding /\ b \notin Stored /\ Held' = Held
    BY <2>1 DEF Apart, Held
  <2>4. Usable' = Usable \ {b}
    BY <1>1, <2>1, <2>2, <2>3 DEF Usable
  <2> QED BY <1>6, <2>2, <2>3, <2>4
<1>16. ASSUME NEW b \in Box, NEW lib, B!DropUnboxed(b, lib) PROVE List!Next
  <2>1. b \in unboxed /\ UNCHANGED <<hand, raw, unboxed>>
    BY <1>16 DEF B!DropUnboxed
  <2>2. \A c \in Box : content'[c] = IF c = b THEN "dropped" ELSE content[c]
    BY <1>2, <1>16 DEF B!DropUnboxed
  <2>3. b \notin Owned
    BY <2>1 DEF Alive
  <2>4. Held' = Held /\ Loose' = Loose \ {b} /\ Gone' = Gone \cup {b}
    BY <1>2, <2>1, <2>2 DEF Held, Loose, Gone
  <2>5. Usable' = Usable \ {b} /\ b \notin Stored
    BY <1>1, <2>1, <2>3, <2>4 DEF Usable, Owned
  <2> QED BY <1>6, <2>4, <2>5
<1> DEFINE Goal == List!Next \/ UNCHANGED List!vars
<1>17. (List!Next => Goal) /\ (UNCHANGED List!vars => Goal)
  OBVIOUS
<1> HIDE DEF Goal
<1>18. Goal
  BY <1>7, <1>8, <1>9, <1>10, <1>11, <1>12, <1>13, <1>14, <1>15, <1>16, <1>17
     DEF BoxStep, B!New, B!IntoRaw, B!FromRaw, B!Create, B!StrIntoRaw, B!StrFromRaw
<1> QED BY <1>18 DEF Goal

\* Boxes: what the client uses, what the list holds and what is gone are apart.
LEMMA OwnedStep ==
  ASSUME TypeOK, VP!BlockInv, AllWritten, LifeInv, OwnInv, Sound, Sound', ~plain, [Next]_vars
  PROVE  [List!Next]_(List!vars)
<1>1. plain' = plain
  BY DEF Next, BoxStep, VectorStep, Terminated, vars, Push, ExtendArray, ExtendFromSlice,
         PushSeqFails, ExtendBegin, ExtendBeginFails, ExtendNext, ExtendEnd, ExtendPanics,
         Pop, IntoRaw, FromRaw, Drop
<1>2. Distinct /\ Apart /\ Alive /\ B!TypeOK
  BY DEF OwnInv, TypeOK
<1>3. Apart' /\ B!TypeOK'
  BY <1>1, <1>2, OwnStep, BoxEffects, BoxTypeStep DEF OwnInv
<1>4. Client = Usable /\ Client' = Usable'
  BY <1>1, <1>2, <1>3, ClientIs, ClientWillBe
<1>5. ToSet(Listed) = Stored
  BY StoredIsListed
<1>6. ASSUME vec' = vec, Usable' = Usable, Gone' = Gone PROVE UNCHANGED List!vars
  BY <1>1, <1>4, <1>6, ListedKept, MapsStutter
<1>7. ASSUME NEW S \in SUBSET Box, S \cap Stored = {}, vec' = vec,
             Usable' = Usable \ S, Gone' = Gone \cup S
      PROVE  List!Next
  BY <1>1, <1>4, <1>5, <1>7, ListedKept, MapsDiscard
<1>8. ASSUME NEW s \in SeqOf(Client, MaxItems), Listed' = Listed \o s,
             Usable' = Usable \ ToSet(s), Gone' = Gone
      PROVE  List!Next
  BY <1>1, <1>4, <1>8, MapsAppend
<1>9. ASSUME NEW s \in Seq(Elem), Supply(s), V!PushSeq(s), MoveIn(s)
      PROVE  /\ ToSet(s) \subseteq Client /\ Listed' = Listed \o s
             /\ Usable' = Usable \ ToSet(s) /\ Gone' = Gone
  <2>1. /\ ToSet(s) \subseteq Held /\ Held' = Held \ ToSet(s) /\ Yielding' = Yielding
    BY <1>2, <1>9, PushOwn
  <2>2. ToSet(s) \subseteq Box
    BY DEF ToSet, Box
  <2>3. raw' = raw /\ Loose' = Loose /\ Gone' = Gone
    BY <1>9, MoveSeen DEF MoveIn, B!Give
  <2>4. ToSet(s) \cap Loose = {}
    BY <1>2, <2>1, <2>2 DEF Loose, Alive, Owned, B!Item
  <2>5. Usable' = Usable \ ToSet(s) /\ ToSet(s) \subseteq Client
    BY <1>2, <1>4, <2>1, <2>2, <2>3, <2>4 DEF Usable, Apart
  <2> QED BY <1>9, <2>3, <2>5, ListedPush
<1>10. ASSUME NEW b \in Box, Push(b) PROVE List!Next
  <2>1. <<b>> \in Seq(Elem) /\ V!PushSeq(<<b>>) /\ Supply(<<b>>) /\ MoveIn(<<b>>)
    BY <1>10 DEF Push, V!Push, Box
  <2>2. b \in ToSet(<<b>>)
    BY DEF ToSet
  <2>3. b \in Client
    BY <1>9, <2>1, <2>2
  <2> QED BY <1>8, <1>9, <2>1, <2>3, CallsAreAllowed
<1>11. ASSUME NEW s \in SeqOf(Box, MaxItems), ExtendArray(s) PROVE List!Next
  <2>1. s \in Seq(Elem) /\ V!PushSeq(s) /\ Supply(s) /\ MoveIn(s)
    BY <1>11, SeqOfIsSeq DEF ExtendArray, V!ExtendArray
  <2> QED BY <1>8, <1>9, <2>1, CallsAreAllowed
<1>12. ASSUME NEW s \in SeqOf(Box, MaxItems), NEW claim \in Claims, NEW hint,
              ExtendBegin(s, claim, hint)
       PROVE  List!Next \/ UNCHANGED List!vars
  <2>1. s \in Seq(Elem)
    BY SeqOfIsSeq
  <2>2. /\ ToSet(s) \subseteq Held /\ Held' = Held \ ToSet(s)
        /\ Yielding = {} /\ Yielding' = ToSet(s)
    BY <1>2, <1>12, <2>1, BeginOwn DEF ExtendBegin
  <2>3. raw' = raw /\ Loose' = Loose /\ Gone' = Gone
    BY <1>12, MoveSeen DEF ExtendBegin, MoveIn, B!Give
  <2>4. Usable' = Usable
    BY <2>2, <2>3 DEF Usable
  <2>5. Listed' = Listed
    BY <1>12, ListedBegin DEF ExtendBegin
  <2> QED BY <1>1, <1>4, <2>3, <2>4, <2>5, MapsStutter
<1>13. ASSUME NEW s \in SeqOf(Box, MaxItems), NEW claim, NEW lib,
              PushSeqFails(s, lib) \/ ExtendBeginFails(s, claim, lib)
       PROVE  List!Next
  <2>1. s \in Seq(Elem) /\ UNCHANGED vector /\ B!Drop(ToSet(s), lib)
    BY <1>13, SeqOfIsSeq DEF PushSeqFails, ExtendBeginFails
  <2>2. /\ ToSet(s) \subseteq Held /\ Held' = Held \ ToSet(s) /\ Yielding' = Yielding
    BY <1>2, <2>1, FailOwn
  <2>3. ToSet(s) \in SUBSET Box
    BY <2>1 DEF ToSet, Box
  <2>4. Loose' = Loose /\ Loose \cap ToSet(s) = {} /\ Gone' = Gone \cup ToSet(s)
    BY <1>2, <2>1, <2>2, <2>3, FreeSeen DEF B!Drop, Owned
  <2>5. raw' = raw /\ vec' = vec
    BY <2>1 DEF B!Drop, vector
  <2>6. Usable' = Usable \ ToSet(s) /\ ToSet(s) \cap Stored = {}
    BY <1>2, <2>2, <2>4, <2>5 DEF Usable, Apart
  <2> QED BY <1>7, <2>3, <2>4, <2>5, <2>6
<1>14. CASE ExtendNext
  <2> DEFINE e == Head(items)
  <2>1. e \in Yielding /\ Held' = Held /\ Yielding' = Yielding \ {e}
    BY <1>2, <1>14, NextOwn DEF ExtendNext, LifeInv
  <2>2. Listed' = Listed \o <<e>> /\ e \in Box
    BY <1>14, ListedNext DEF ExtendNext, Box
  <2>3. raw' = raw /\ Loose' = Loose /\ Gone' = Gone
    BY <1>14, MoveSeen DEF ExtendNext, boxes
  <2> HIDE DEF e
  <2>4. e \notin Loose
    BY <1>2, <2>1, <2>2 DEF Loose, Alive, Owned, B!Item
  <2>5. Usable' = Usable \ {e} /\ e \in Client
    BY <1>2, <1>4, <2>1, <2>2, <2>3, <2>4 DEF Usable, Apart
  <2> QED BY <1>8, <2>2, <2>3, <2>5, CallsAreAllowed
<1>15. ASSUME NEW lib, ExtendPanics(lib) PROVE List!Next
  <2>1. /\ ToSet(items) = Yielding /\ Held' = Held /\ Yielding' = {}
    BY <1>2, <1>15, LeaveOwn DEF ExtendPanics, V!ExtendPanics
  <2>2. Yielding \in SUBSET Box
    BY <2>1 DEF VP!BlockInv, ToSet, Box
  <2>3. /\ vec' = vec /\ raw' = raw /\ unboxed' = unboxed /\ B!Free(ToSet(items), lib)
    BY <1>15 DEF ExtendPanics, V!ExtendPanics, V!ExtendLeave, B!DropHeld
  <2>4. Loose' = Loose /\ Loose \cap Yielding = {} /\ Gone' = Gone \cup Yielding
    BY <1>2, <2>1, <2>2, <2>3, FreeSeen DEF Owned
  <2>5. Usable' = Usable \ Yielding /\ Yielding \cap Stored = {}
    BY <1>2, <2>1, <2>3, <2>4 DEF Usable, Apart
  <2> QED BY <1>7, <2>2, <2>3, <2>4, <2>5
<1>16. CASE Pop
  <2>1. /\ V!Last \in Stored /\ Held' = Held \cup {V!Last} /\ Yielding' = Yielding
    BY <1>2, <1>16, PopOwn DEF Pop
  <2>2. /\ Listed # <<>> /\ Listed' = Front(Listed) /\ Last(Listed) = V!Last /\ V!Last \in Box
    BY <1>16, ListedPop DEF Pop, Box
  <2>3. raw' = raw /\ Loose' = Loose /\ Gone' = Gone
    BY <1>16, MoveSeen DEF Pop, B!Receive
  <2>4. Usable' = Usable \cup {V!Last}
    BY <2>1, <2>2, <2>3 DEF Usable
  <2> QED BY <1>1, <1>4, <2>2, <2>3, <2>4, MapsRemove
<1>17. ASSUME NEW lib, Drop(lib) PROVE List!Next
  <2>1. /\ ToSet(Listed) = Stored /\ Held' = Held /\ Yielding' = Yielding
    BY <1>2, <1>5, <1>17, DropOwn DEF Drop
  <2>2. raw' = raw /\ unboxed' = unboxed /\ B!Free(ToSet(Listed), lib)
    BY <1>17 DEF Drop, B!DropHeld, Listed
  <2>3. Loose' = Loose /\ Gone' = Gone \cup ToSet(Listed)
    BY <1>2, <2>1, <2>2, FreeSeen DEF Owned, Distinct
  <2>4. Usable' = Usable
    BY <2>1, <2>2, <2>3 DEF Usable
  <2>5. Listed' = <<>>
    BY <1>17, ListedDrop DEF Drop
  <2> QED BY <1>1, <1>4, <2>3, <2>4, <2>5, MapsClear
<1>18. ASSUME ExtendEnd \/ IntoRaw \/ FromRaw \/ Terminated \/ UNCHANGED vars
       PROVE  UNCHANGED List!vars
  <2>1. vec' = vec /\ UNCHANGED boxes /\ Yielding' = Yielding
    BY <1>18 DEF ExtendEnd, IntoRaw, FromRaw, Terminated, vars, vector, V!ExtendEnd,
                 V!ExtendLeave, V!IntoRaw, V!FromRaw, V!local, Yielding
  <2>2. Held' = Held /\ raw' = raw /\ Loose' = Loose /\ Gone' = Gone
    BY <2>1, MoveSeen DEF Held, boxes
  <2>3. Usable' = Usable
    BY <2>1, <2>2 DEF Usable
  <2> QED BY <1>6, <2>1, <2>2, <2>3
<1>19. ASSUME BoxStep PROVE List!Next \/ UNCHANGED List!vars
  BY <1>2, <1>4, <1>19, BoxStepSeen
<1>20. ASSUME NEW s, ExtendFromSlice(s) PROVE FALSE
  BY <1>20 DEF ExtendFromSlice
<1> DEFINE Goal == [List!Next]_(List!vars)
<1>21. (List!Next => Goal) /\ (UNCHANGED List!vars => Goal)
  OBVIOUS
<1> HIDE DEF Goal
<1>22. Goal
  BY <1>10, <1>11, <1>12, <1>13, <1>14, <1>15, <1>16, <1>17, <1>18, <1>19, <1>20, <1>21
     DEF Next, VectorStep
<1> QED BY <1>22 DEF Goal

\* The vector is a list and its elements are with the client, in the list or dropped, once
\* and for all: every operation does what its counterpart does to a list, and elements keep
\* their places in every reallocation, while capacities are sizes that a usize can hold.
THEOREM VectorIsList == Spec => KeepsList
<1> DEFINE Inv == /\ TypeOK /\ VP!BlockInv /\ AllWritten
                  /\ LifeInv /\ OwnInv
<1>1. Spec => []AllWritten
  <2>1. VP!BlockAssumption
    BY SameAssumption
  <2>2. Spec => VP!Spec
    BY SameVector
  <2>3. VP!Spec => [](VP!Sound => \A k \in 1..vec.len : vec.slots[k] \in Elem)
    BY <2>1, VP!ElementsAreWritten
  <2>4. (VP!Sound => \A k \in 1..vec.len : vec.slots[k] \in Elem) => AllWritten
    BY DEF AllWritten, Sound, VP!Sound, Fits, VP!Fits, Size, VP!Size, Limit, VP!Limit
  <2> QED BY <2>2, <2>3, <2>4, PTL
<1>2. Init => List!Init
  BY MapsInit
<1>3. Inv /\ [Next]_vars => [Sound' => List!Next]_(List!vars)
  <2> SUFFICES ASSUME Inv, [Next]_vars, Sound' PROVE [List!Next]_(List!vars)
    OBVIOUS
  <2>1. Sound
    BY SoundBefore
  <2>2. CASE plain
    BY <2>1, <2>2, PlainStep
  <2>3. CASE ~plain
    BY <2>1, <2>3, OwnedStep
  <2> QED BY <2>2, <2>3
<1> QED BY <1>1, <1>2, <1>3, OwnAlways, VectorInvariant, ContainersTypeCorrect, PTL
        DEF Spec, KeepsList

================================================================================
