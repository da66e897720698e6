------------------------------ MODULE VectorBlock ------------------------------
(***************************************************************************)
(* The block behind Vector<T> of ffi/src/vector/mod.rs: a header with the  *)
(* length and the capacity, and the elements behind it. How large a block  *)
(* is, how it grows and how elements get into it, as functions of what the *)
(* block was before.  Sizes are computed modulo 2^Width, as release builds *)
(* do.                                                                     *)
(***************************************************************************)
EXTENDS Naturals, Sequences

CONSTANTS
  Elem,        \* values of the elements
  Junk,        \* what a slot holds that was never written
  Width,       \* bits of a usize
  ElemSize,    \* size_of::<T>(), not zero
  HeaderSize,  \* size_of::<VectorHeaderVTable<T>>(), which includes one T
  Memory,      \* the largest block that salloc can give
  Claims,      \* lower bounds that iterators report, right or wrong
  MaxLen       \* elements in the vector, at most

VARIABLE
  vec   \* the block: the header's len and cap, its size in bytes, the elements

DefCap == 2
Limit == 2^Width
NoHint == Limit   \* None, for an Option<usize>

ASSUME BlockAssumption ==
  /\ Width \in Nat /\ ElemSize \in Nat \ {0} /\ HeaderSize \in Nat /\ Memory \in Nat
  /\ ElemSize < HeaderSize
  /\ Claims \subseteq 0..(Limit - 1)
  /\ Limit \in Nat /\ DefCap < Limit
  /\ MaxLen \in Nat /\ MaxLen < Limit
  /\ (DefCap - 1) * ElemSize + HeaderSize < Limit

--------------------------------------------------------------------------------
(* The size of a block *)

\* The bytes that `count` elements take, and whether that is a usize.
Size(count) == (count - 1) * ElemSize + HeaderSize
Fits(count) == Size(count) < Limit

Calc(count) == Size(count) % Limit

\* How many elements there is room for.
Room(bytes) == IF bytes < HeaderSize THEN 0 ELSE 1 + (bytes - HeaderSize) \div ElemSize

NewCap(cap, capacity) ==
  LET doubled == (2 * cap) % Limit
  IN  IF doubled > capacity THEN doubled ELSE capacity

--------------------------------------------------------------------------------
(* What the operations make of a block *)

\* Slip: the size is that of the capacity asked for, not of the one recorded.
AllocatedShort(v, cap, capacity) ==
  IF cap >= capacity THEN v
  ELSE LET bytes == Calc(capacity)
       IN  [v EXCEPT
             !.cap = NewCap(cap, capacity),
             !.bytes = bytes,
             !.slots = [i \in DOMAIN @ |-> IF i <= Room(bytes) THEN @[i] ELSE Junk]]

\* allocate: what does not fit into the new block is lost, as it may be a smaller one.
Allocated(v, cap, capacity) ==
  IF cap >= capacity THEN v
  ELSE LET bytes == Calc(NewCap(cap, capacity))
       IN  [v EXCEPT
             !.cap = NewCap(cap, capacity),
             !.bytes = bytes,
             !.slots = [i \in DOMAIN @ |-> IF i <= Room(bytes) THEN @[i] ELSE Junk]]

\* The new block can be had, and that it cannot.
Granted(cap, capacity) == cap >= capacity \/ Calc(NewCap(cap, capacity)) <= Memory
Refused(cap, capacity) == cap < capacity

\* The elements of s are written from index l on, and the length set behind them.
Written(v, l, s) ==
  [v EXCEPT !.slots = [i \in DOMAIN @ |-> IF i - l \in DOMAIN s THEN s[i - l] ELSE @[i]],
            !.len = l + Len(s)]

\* Slip: lengths are added in a wider type.
RequestedWide(l, n) == l + n

\* The length that is reserved. It wraps like any other sum.
Requested(l, n) == (l + n) % Limit

--------------------------------------------------------------------------------

\* The capacity is one that its block has. Beyond that nothing is defined.
Sound == Fits(vec.cap)

\* The block has room for exactly the capacity that its header records, and the elements
\* are within it: whatever iterators promise, whatever is refused, and though extend
\* goes on reallocating by a capacity that is out of date. A capacity whose size is no
\* usize is the one exception.
BlockHoldsCapacity ==
  Sound => /\ vec.bytes = Size(vec.cap)
           /\ Room(vec.bytes) = vec.cap
           /\ vec.len <= vec.cap

================================================================================
