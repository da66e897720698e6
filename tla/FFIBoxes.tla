-------------------------------- MODULE FFIBoxes --------------------------------
(***************************************************************************)
(* RTBox of ffi/src/boxed/mod.rs and SharableStr of ffi/src/string/str.rs: *)
(* one block each, that travels between libraries as a raw pointer.  The   *)
(* block of a box begins with the address of the function that drops the   *)
(* value and frees the block; it is lost with the block.  All libraries    *)
(* share salloc's allocator.                                               *)
(***************************************************************************)
EXTENDS Integers

CONSTANTS
  Box,      \* values that are boxed
  Str,      \* strings
  Lib,      \* libraries
  Nobody,
  Maker     \* the library that makes a value or a string, [Item -> Lib]

Item == Box \cup Str

VARIABLES
  content,  \* the value does not exist yet ("none"), is "alive", or "dropped"
  live,     \* blocks allocated for it, less the times one was freed
  hand,     \* how many variables own it
  raw,      \* items that are on their way as raw pointers
  unboxed,  \* values that were moved out of their boxes
  mfree,    \* RTBoxWrapper::_free: the library whose function the block has; Nobody's,
            \* and undefined when called, unless the block of a box is allocated
  dropper   \* whose code dropped the value

vars == <<content, live, hand, raw, unboxed, mfree, dropper>>

TypeOK ==
  /\ content \in [Item -> {"none", "alive", "dropped"}]
  /\ live \in [Item -> Int]
  /\ hand \in [Item -> Int]
  /\ raw \subseteq Item
  /\ unboxed \subseteq Box
  /\ mfree \in [Item -> Lib \cup {Nobody}]
  /\ dropper \in [Item -> Lib \cup {Nobody}]

Init ==
  /\ content = [i \in Item |-> "none"]
  /\ live = [i \in Item |-> 0]
  /\ hand = [i \in Item |-> 0]
  /\ raw = {}
  /\ unboxed = {}
  /\ mfree = [i \in Item |-> Nobody]
  /\ dropper = [i \in Item |-> Nobody]

\* n is added to the owning variables of each item of S.
Hands(S, n) == hand' = [i \in Item |-> IF i \in S THEN hand[i] + n ELSE hand[i]]

--------------------------------------------------------------------------------
(* Both kinds: a block that is made, sent as a raw pointer and received *)

Make(i) ==
  /\ content[i] = "none"
  /\ content' = [content EXCEPT ![i] = "alive"]
  /\ live' = [live EXCEPT ![i] = @ + 1]
  /\ Hands({i}, 1)
  /\ UNCHANGED <<raw, unboxed, dropper>>

Send(i) ==
  /\ hand[i] > 0
  /\ raw' = raw \cup {i}
  /\ Hands({i}, -1)
  /\ UNCHANGED <<content, live, unboxed, mfree, dropper>>

Take(i) ==
  /\ i \in raw
  /\ raw' = raw \ {i}
  /\ Hands({i}, 1)
  /\ UNCHANGED <<content, live, unboxed, mfree, dropper>>

--------------------------------------------------------------------------------
(* SharableStr *)

\* create does not look at what it gets from malloc: nothing is defined after a failure.
Create(s) == s \in Str /\ Make(s) /\ UNCHANGED mfree

\* into_raw only borrows the string: a caller who gives the pointer away forgets it.
StrIntoRaw(s) == s \in Str /\ Send(s)

StrFromRaw(s) == s \in Str /\ Take(s)

\* There is nothing to drop in it.
StrDrop(s) ==
  /\ s \in Str /\ hand[s] > 0
  /\ content' = [content EXCEPT ![s] = "dropped"]
  /\ live' = [live EXCEPT ![s] = @ - 1]
  /\ Hands({s}, -1)
  /\ UNCHANGED <<raw, unboxed, mfree, dropper>>

--------------------------------------------------------------------------------
(* RTBox *)

\* The block gets the mfree of the library that makes the box, and the value.
New(b) == b \in Box /\ Make(b) /\ mfree' = [mfree EXCEPT ![b] = Maker[b]]

\* new returns None, and drops the value.
NewFails(b) ==
  /\ b \in Box
  /\ content[b] = "none"
  /\ content' = [content EXCEPT ![b] = "dropped"]
  /\ dropper' = [dropper EXCEPT ![b] = Maker[b]]
  /\ UNCHANGED <<live, hand, raw, unboxed, mfree>>

IntoRaw(b) == b \in Box /\ Send(b)

FromRaw(b) == b \in Box /\ Take(b)

\* The blocks of the boxes S are freed, and what they began with is lost.
Gone(S) ==
  /\ content' = [i \in Item |-> IF i \in S THEN "dropped" ELSE content[i]]
  /\ live' = [i \in Item |-> IF i \in S THEN live[i] - 1 ELSE live[i]]
  /\ mfree' = [i \in Item |-> IF i \in S THEN Nobody ELSE mfree[i]]

\* Slip: the library that drops a box uses its own mfree.
FreeLocally(S, lib) == Gone(S) /\ dropper' = [i \in Item |-> IF i \in S THEN lib ELSE dropper[i]]

\* Library lib drops the boxes S: the function found in the block of each drops the value
\* and frees the block.
Free(S, lib) == Gone(S) /\ dropper' = [i \in Item |-> IF i \in S THEN mfree[i] ELSE dropper[i]]

\* The owning variables go out of scope.
Drop(S, lib) ==
  /\ S \subseteq Box /\ \A b \in S : hand[b] > 0
  /\ Free(S, lib)
  /\ Hands(S, -1)
  /\ UNCHANGED <<raw, unboxed>>

\* drop_rtbox, on a raw pointer.
DropRaw(b, lib) ==
  /\ b \in raw \cap Box
  /\ Free({b}, lib)
  /\ raw' = raw \ {b}
  /\ UNCHANGED <<hand, unboxed>>

\* Boxes are dropped by whatever holds them.
DropHeld(S, lib) == Free(S, lib) /\ UNCHANGED <<hand, raw, unboxed>>

\* unbox: the value is moved out, the block freed, and the box forgotten.
Unbox(b) ==
  /\ b \in Box /\ hand[b] > 0
  /\ live' = [live EXCEPT ![b] = @ - 1]
  /\ mfree' = [mfree EXCEPT ![b] = Nobody]
  /\ unboxed' = unboxed \cup {b}
  /\ Hands({b}, -1)
  /\ UNCHANGED <<content, raw, dropper>>

\* The library that unboxed a value drops it, with its own code.
DropUnboxed(b, lib) ==
  /\ b \in unboxed
  /\ content[b] = "alive"
  /\ content' = [content EXCEPT ![b] = "dropped"]
  /\ dropper' = [dropper EXCEPT ![b] = lib]
  /\ UNCHANGED <<live, hand, raw, unboxed, mfree>>

--------------------------------------------------------------------------------
(* Boxes move from variables into a container, and back *)

Give(S) ==
  /\ \A i \in S : hand[i] > 0
  /\ Hands(S, -1)
  /\ UNCHANGED <<content, live, raw, unboxed, mfree, dropper>>

Receive(S) == Hands(S, 1) /\ UNCHANGED <<content, live, raw, unboxed, mfree, dropper>>

--------------------------------------------------------------------------------

\* Wherever a box has travelled, the function that dropped its value was that of the
\* library that made it (boxed/mod.rs:138, "Internal machinery to maintain owner"), unless
\* the value was unboxed. In particular it was found in a block that was still allocated.
DroppedByMaker == \A b \in Box \ unboxed : content[b] = "dropped" => dropper[b] = Maker[b]

================================================================================
