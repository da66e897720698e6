--------------------------------- MODULE Vector ---------------------------------
(***************************************************************************)
(* The operations of Vector<T> of ffi/src/vector/mod.rs.  A caller may     *)
(* pass the length and the capacity that it knows: a hint that is right    *)
(* makes no difference but in extend, which goes on using the capacity     *)
(* that was right when it was called.                                      *)
(*                                                                         *)
(* Who owns the elements is said in Containers.                            *)
(***************************************************************************)
EXTENDS VectorBlock

VARIABLES
  life,      \* the vector is "owned", a "raw" pointer, or "dropped"
  items,     \* in extend: what the iterator is going to yield
  extending,
  known,     \* in extend: known_cap
  lower,     \* in extend: the lower bound of the iterator
  start,     \* in extend: the length at its call
  reallocs   \* in extend: how often the block was reallocated

local == <<items, extending, known, lower, start, reallocs>>
vars == <<vec, life, local>>

TypeOK ==
  /\ vec \in [len : Nat, cap : 0..(Limit - 1), bytes : 0..(Limit - 1),
              slots : [1..MaxLen -> Elem \cup {Junk}]]
  /\ life \in {"owned", "raw", "dropped"}
  /\ items \in Seq(Elem)
  /\ extending \in BOOLEAN
  /\ known \in 0..NoHint
  /\ lower \in Claims \cup {0}
  /\ start \in 0..MaxLen
  /\ reallocs \in Nat

\* get_aided, Index, Deref
Get(index) == IF index >= vec.len THEN Junk ELSE vec.slots[index + 1]

--------------------------------------------------------------------------------
(* The operations *)

\* new, with a block that was granted.
Init ==
  /\ vec = [len |-> 0, cap |-> DefCap, bytes |-> Calc(DefCap),
            slots |-> [i \in 1..MaxLen |-> Junk]]
  /\ life = "owned"
  /\ items = <<>>
  /\ extending = FALSE
  /\ known = NoHint
  /\ lower = 0
  /\ start = 0
  /\ reallocs = 0

Idle == life = "owned" /\ Sound /\ ~extending

\* Slip: an element is written over the last one.
PushSeqOver(s) ==
  /\ Idle
  /\ vec.len + Len(s) <= MaxLen
  /\ LET n == Requested(vec.len, Len(s))
     IN  /\ Granted(vec.cap, n)
         /\ vec' = Written(Allocated(vec, vec.cap, n), IF vec.len > 0 THEN vec.len - 1 ELSE 0, s)
  /\ UNCHANGED <<life, local>>

\* What push, extend_array and extend_from_slice have in common: they reserve once, write,
\* and set the length.
PushSeq(s) ==
  /\ Idle
  /\ vec.len + Len(s) <= MaxLen
  /\ LET n == Requested(vec.len, Len(s))
     IN  /\ Granted(vec.cap, n)
         /\ vec' = Written(Allocated(vec, vec.cap, n), vec.len, s)
  /\ UNCHANGED <<life, local>>

Push(e) == PushSeq(<<e>>)

\* extend_array returns at once for an array of length 0.
ExtendArray(s) == s # <<>> /\ PushSeq(s)

\* extend_from_slice reserves for the old elements also when the slice is empty, which
\* they have already, and returns early when there are none at all.
ExtendFromSlice(s) == vec.len + Len(s) > 0 /\ PushSeq(s)

\* They panic when the block cannot be had, and nothing has changed by then.
PushSeqFails(s) ==
  /\ Idle
  /\ Refused(vec.cap, Requested(vec.len, Len(s)))
  /\ UNCHANGED vars

\* The locals of extend at its call.
ExtendLocals(s, claim, hint) ==
  /\ items' = s
  /\ lower' = claim
  /\ known' = hint
  /\ start' = vec.len

\* extend_aided reserves what the iterator promises at least, and calls the iterator.
ExtendBegin(s, claim, hint) ==
  /\ Idle
  /\ vec.len + Len(s) <= MaxLen
  /\ hint \in {NoHint, vec.cap}
  /\ ExtendLocals(s, claim, hint)
  /\ extending' = TRUE
  /\ LET n == Requested(vec.len, claim)
     IN  IF claim > 0
         THEN /\ Granted(vec.cap, n)
              /\ vec' = Allocated(vec, vec.cap, n)
              /\ reallocs' = IF vec.cap < n THEN 1 ELSE 0
         ELSE vec' = vec /\ reallocs' = 0
  /\ UNCHANGED life

\* The reservation panics.
ExtendBeginFails(claim) ==
  /\ Idle
  /\ claim > 0
  /\ Refused(vec.cap, Requested(vec.len, claim))
  /\ UNCHANGED vars

\* Slip: the length known at the call is taken for the capacity.
KnownCapLen == IF known = NoHint THEN start ELSE known

\* The capacity that push_aided is told, or reads.
KnownCap == IF known = NoHint THEN vec.cap ELSE known

\* extend's own count of the elements, which it passes to push_aided, is the length.
ExtendNext ==
  /\ extending /\ Sound
  /\ items # <<>>
  /\ LET n == Requested(vec.len, 1)
     IN  /\ Granted(KnownCap, n)
         /\ vec' = Written(Allocated(vec, KnownCap, n), vec.len, <<Head(items)>>)
         /\ reallocs' = IF KnownCap < n THEN reallocs + 1 ELSE reallocs
  /\ items' = Tail(items)
  /\ UNCHANGED <<life, extending, known, lower, start>>

\* extend is over: the locals are gone.
ExtendLeave ==
  /\ items' = <<>>
  /\ extending' = FALSE
  /\ known' = NoHint
  /\ lower' = 0
  /\ start' = 0
  /\ reallocs' = 0
  /\ UNCHANGED <<vec, life>>

ExtendEnd == extending /\ Sound /\ items = <<>> /\ ExtendLeave

\* The iterator panics, or the block for its next item cannot be had. What was pushed
\* before stays in the vector.
ExtendPanics == extending /\ Sound /\ ExtendLeave

\* pop: the length is decremented before the element is read, and moved out.
Pop ==
  /\ Idle
  /\ vec.len > 0
  /\ vec' = [vec EXCEPT !.len = @ - 1, !.slots[vec.len] = Junk]
  /\ UNCHANGED <<life, local>>

Last == Get(vec.len - 1)

IntoRaw ==
  /\ Idle
  /\ life' = "raw"
  /\ UNCHANGED <<vec, local>>

FromRaw ==
  /\ life = "raw"
  /\ life' = "owned"
  /\ UNCHANGED <<vec, local>>

\* drop: the block is freed, with what it holds.
Drop ==
  /\ Idle
  /\ life' = "dropped"
  /\ vec' = [vec EXCEPT !.len = 0, !.slots = [i \in DOMAIN @ |-> Junk]]
  /\ UNCHANGED local

\* Any use of a vector. Containers says which of them TLC looks at.
Next ==
  \/ \E e \in Elem : Push(e)
  \/ \E s \in Seq(Elem) :
       \/ ExtendArray(s) \/ ExtendFromSlice(s) \/ PushSeqFails(s)
       \/ \E claim \in Claims, hint \in {NoHint, vec.cap} : ExtendBegin(s, claim, hint)
  \/ \E claim \in Claims : ExtendBeginFails(claim)
  \/ ExtendNext \/ ExtendEnd \/ ExtendPanics
  \/ Pop \/ IntoRaw \/ FromRaw \/ Drop

Spec == Init /\ [][Next]_vars

--------------------------------------------------------------------------------

\* The elements, in order.
Elements == [i \in 1..vec.len |-> Get(i - 1)]

\* extend reallocates once at most for the elements that the iterator has promised
\* (vector/mod.rs:211, "Pre-allocate based on the lower bound to save on reallocs"), unless
\* the caller passes the capacity, or no vector is of the length promised.
GrowsOnce ==
  (extending /\ known = NoHint /\ vec.len - start <= lower /\ Fits(start + lower))
    => reallocs <= 1

================================================================================
