------------------------------- MODULE Containers -------------------------------
(***************************************************************************)
(* The containers of ffi/src together: a Vector<RTBox<T>> whose boxes come *)
(* from two libraries, are pushed, popped, passed on as raw pointers and   *)
(* dropped with the vector, and strings beside them.  Vector moves bits,   *)
(* FFIBoxes frees blocks: what is said here is who owns an element.        *)
(*                                                                         *)
(* When `plain` holds the elements are Copy and own nothing.               *)
(***************************************************************************)
EXTENDS VectorBlock, Integers, FiniteSets, SequencesExt

CONSTANTS
  Str, Lib, Nobody, Maker,  \* as in FFIBoxes, whose boxes are the elements
  MaxItems     \* elements of one call of extend, extend_array or extend_from_slice

Box == Elem

ASSUME ContainersAssumption ==
  /\ IsFiniteSet(Box)
  /\ Box \cap Str = {}
  /\ Nobody \notin Lib
  /\ Maker \in [Box \cup Str -> Lib]
  /\ MaxItems \in Nat \ {0}

VARIABLES
  plain,       \* T: Copy, else T is RTBox
  life, items, extending, known, lower, start, reallocs,   \* of the vector
  content, live, hand, raw, unboxed, mfree, dropper             \* of the boxes

vector == <<vec, life, items, extending, known, lower, start, reallocs>>
boxes == <<content, live, hand, raw, unboxed, mfree, dropper>>
vars == <<plain, vector, boxes>>

V == INSTANCE Vector
B == INSTANCE FFIBoxes

TypeOK == plain \in BOOLEAN /\ V!TypeOK /\ B!TypeOK

Init == plain \in BOOLEAN /\ V!Init /\ B!Init

--------------------------------------------------------------------------------
(* Boxes and strings by themselves *)

BoxStep ==
  /\ ~plain
  /\ \/ \E b \in Box : B!New(b) \/ B!NewFails(b) \/ B!IntoRaw(b) \/ B!FromRaw(b) \/ B!Unbox(b)
     \/ \E b \in Box, lib \in Lib : B!Drop({b}, lib) \/ B!DropRaw(b, lib) \/ B!DropUnboxed(b, lib)
     \/ \E s \in Str : B!Create(s) \/ B!StrIntoRaw(s) \/ B!StrFromRaw(s) \/ B!StrDrop(s)
  /\ UNCHANGED <<plain, vector>>

--------------------------------------------------------------------------------
(* Elements and the vector *)

\* Values to put into the vector: any, or boxes that are at hand.
Supply(s) == plain \/ (IsInjective(s) /\ \A b \in ToSet(s) : hand[b] > 0)

\* Slip: the array is not forgotten, so that its elements are dropped as well.
MoveInAndDrop(s) == IF plain THEN UNCHANGED boxes ELSE \E lib \in Lib : B!Drop(ToSet(s), lib)

\* The callee takes the ownership of its argument (forget, ptr::write).
MoveIn(s) == IF plain THEN UNCHANGED boxes ELSE B!Give(ToSet(s))

Push(b) == Supply(<<b>>) /\ V!Push(b) /\ MoveIn(<<b>>) /\ UNCHANGED plain

ExtendArray(s) == Supply(s) /\ V!ExtendArray(s) /\ MoveIn(s) /\ UNCHANGED plain

\* T: Copy
ExtendFromSlice(s) == plain /\ V!ExtendFromSlice(s) /\ UNCHANGED <<plain, boxes>>

\* The panic drops the elements, which are still the callee's argument.
PushSeqFails(s, lib) ==
  /\ ~plain /\ Supply(s)
  /\ V!PushSeqFails(s)
  /\ B!Drop(ToSet(s), lib)
  /\ UNCHANGED <<plain, vector>>

ExtendBegin(s, claim, hint) ==
  /\ Supply(s)
  /\ V!ExtendBegin(s, claim, hint)
  /\ MoveIn(s)
  /\ UNCHANGED plain

ExtendBeginFails(s, claim, lib) ==
  /\ ~plain /\ Supply(s)
  /\ V!ExtendBeginFails(claim)
  /\ B!Drop(ToSet(s), lib)
  /\ UNCHANGED <<plain, vector>>

ExtendNext == V!ExtendNext /\ UNCHANGED <<plain, boxes>>

ExtendEnd == V!ExtendEnd /\ UNCHANGED <<plain, boxes>>

\* The unwinding drops the iterator with what it has not yielded.
ExtendPanics(lib) ==
  /\ V!ExtendPanics
  /\ IF plain THEN UNCHANGED boxes ELSE B!DropHeld(ToSet(items), lib)
  /\ UNCHANGED plain

Pop ==
  /\ V!Pop
  /\ IF plain THEN UNCHANGED boxes ELSE B!Receive({V!Last})
  /\ UNCHANGED plain

IntoRaw == V!IntoRaw /\ UNCHANGED <<plain, boxes>>
FromRaw == V!FromRaw /\ UNCHANGED <<plain, boxes>>

\* The vector is dropped by library lib: its elements, if they need it, and its block.
Drop(lib) ==
  /\ V!Drop
  /\ IF plain THEN UNCHANGED boxes ELSE B!DropHeld(ToSet(V!Elements), lib)
  /\ UNCHANGED plain

VectorStep ==
  \/ \E b \in Box : Push(b)
  \/ \E s \in SeqOf(Box, MaxItems) :
       \/ ExtendArray(s) \/ ExtendFromSlice(s)
       \/ \E claim \in Claims, hint \in {NoHint, vec.cap} : ExtendBegin(s, claim, hint)
       \/ \E lib \in Lib : PushSeqFails(s, lib)
       \/ \E claim \in Claims, lib \in Lib : ExtendBeginFails(s, claim, lib)
  \/ ExtendNext \/ ExtendEnd \/ Pop \/ IntoRaw \/ FromRaw
  \/ \E lib \in Lib : ExtendPanics(lib) \/ Drop(lib)

\* The vector is dropped, or its block is too small, and the program need not go on.
Terminated == (life = "dropped" \/ ~Sound) /\ UNCHANGED vars

Next == BoxStep \/ VectorStep \/ Terminated

Spec == Init /\ [][Next]_vars

--------------------------------------------------------------------------------

InVector == IF life = "dropped" THEN {} ELSE 1..vec.len

\* How many owners an item has: variables, a raw pointer under way, slots of the vector,
\* an iterator that extend has not exhausted.
Owners(i) ==
  hand[i] + (IF i \in raw THEN 1 ELSE 0)
          + Cardinality({k \in InVector : vec.slots[k] = i})
          + Cardinality({k \in DOMAIN items : items[k] = i})

\* Every block of a box or a string has one owner, as long as its value lives in it: none
\* is freed twice or under an owner, and none is left behind, through every failed
\* allocation, panic in an iterator, removal, unboxing and passage between libraries.
OwnedOnce ==
  (~plain /\ Sound) =>
    \A i \in B!Item :
      /\ Owners(i) = live[i]
      /\ live[i] = IF content[i] = "alive" /\ i \notin unboxed THEN 1 ELSE 0

\* The vector is a list, whatever becomes of its block.
List == INSTANCE ElementList WITH
  MaxAppend <- MaxItems,
  list <- V!Elements,
  client <- IF plain THEN Box
            ELSE {b \in Box : hand[b] > 0 \/ b \in raw \/ b \in ToSet(items)
                                \/ (b \in unboxed /\ content[b] = "alive")},
  dropped <- {b \in Box : content[b] = "dropped"}

\* Every operation does to the elements what its counterpart does to a list, and elements
\* keep their places when the block is reallocated, also to a smaller one.
KeepsList == List!Init /\ [][Sound' => List!Next]_(List!vars)

\* extend reallocates once for what the iterator has promised.
GrowsOnce == V!GrowsOnce

\* The function that drops a box's value is that of the library that made it, found in a
\* block that nobody has freed, in whatever vector the box was and whoever drops it.
DroppedByMaker == (~plain /\ Sound) => B!DroppedByMaker

================================================================================
