----------------------------- MODULE Vector_proofs -----------------------------
(***************************************************************************)
(* Proof that the block of a vector always has room for its capacity, and  *)
(* the elements are within it, for every size of a word, of an element and *)
(* of the memory, whatever iterators promise and whatever hints are out of *)
(* date.                                                                   *)
(***************************************************************************)
EXTENDS Vector, TLAPS

Block == [len : Nat, cap : 1..(Limit - 1), bytes : 0..(Limit - 1),
          slots : [1..MaxLen -> Elem \cup {Junk}]]

\* What a block is after any reallocation: of the size that its capacity takes.
Exact(v) == Fits(v.cap) => v.bytes = Size(v.cap)

\* The inductive invariant. A hint may be out of date, but never too large: otherwise a
\* push would not reserve what it needs.
BlockInv ==
  /\ vec \in Block
  /\ Exact(vec)
  /\ Sound => vec.len <= vec.cap
  /\ items \in Seq(Elem)
  /\ ~extending => items = <<>>
  /\ vec.len + Len(items) <= MaxLen
  /\ known \in 0..NoHint
  /\ known # NoHint => known <= vec.cap

--------------------------------------------------------------------------------
(* Sizes *)

\* A size is a natural number.
LEMMA SizeType == \A c \in Nat \ {0} : Size(c) \in Nat /\ Size(c) >= HeaderSize
<1> TAKE c \in Nat \ {0}
<1>1. (c - 1) * ElemSize \in Nat
  BY BlockAssumption
<1> QED BY <1>1, BlockAssumption DEF Size

\* The computed size is the exact one unless it wraps.
LEMMA CalcExact == \A c \in Nat \ {0} : Calc(c) \in 0..(Limit - 1) /\ (Fits(c) => Calc(c) = Size(c))
<1> TAKE c \in Nat \ {0}
<1> DEFINE s == Size(c)
<1>1. s \in Nat BY SizeType
<1>2. Limit \in Nat /\ Limit > 0 BY BlockAssumption DEF DefCap
<1> HIDE DEF s
<1>3. s % Limit \in 0..(Limit - 1) /\ (s < Limit => s % Limit = s)
  BY <1>1, <1>2
<1> QED BY <1>3 DEF Calc, Fits, s

\* A block of the size of c elements has room for c elements.
LEMMA RoomOfSize == \A c \in Nat \ {0} : Room(Size(c)) = c
<1> TAKE c \in Nat \ {0}
<1> DEFINE k == c - 1
<1>1. k \in Nat OBVIOUS
<1>2. ElemSize \in Nat \ {0} /\ HeaderSize \in Nat BY BlockAssumption
<1> HIDE DEF k
<1>3. k * ElemSize \in Nat BY <1>1, <1>2
<1>4. (k * ElemSize) \div ElemSize = k BY <1>1, <1>2
<1>5. Size(c) = k * ElemSize + HeaderSize BY DEF Size, k
<1> DEFINE m == k * ElemSize
<1>6. m \in Nat /\ m \div ElemSize = k /\ Size(c) = m + HeaderSize BY <1>3, <1>4, <1>5
<1> HIDE DEF m
<1>7. (m + HeaderSize) - HeaderSize = m BY <1>2, <1>6
<1>8. Room(Size(c)) = 1 + (((m + HeaderSize) - HeaderSize) \div ElemSize)
  BY <1>2, <1>6 DEF Room
<1>9. 1 + k = c BY DEF k
<1> QED BY <1>6, <1>7, <1>8, <1>9

\* The new capacity is enough, and a usize.
LEMMA NewCapEnough ==
  ASSUME NEW cap \in 0..(Limit - 1), NEW n \in 1..(Limit - 1)
  PROVE  NewCap(cap, n) \in n..(Limit - 1)
<1>1. Limit \in Nat /\ Limit > 0 BY BlockAssumption DEF DefCap
<1>2. (2 * cap) % Limit \in 0..(Limit - 1) BY <1>1
<1> QED BY <1>1, <1>2 DEF NewCap

--------------------------------------------------------------------------------
(* Reserving and writing *)

\* allocate leaves an exact block that is large enough, whatever capacity it was told.
LEMMA AllocatedExact ==
  ASSUME NEW v \in Block, Exact(v),
         NEW cap \in 0..(Limit - 1), cap <= v.cap,
         NEW n \in 0..(Limit - 1)
  PROVE  LET a == Allocated(v, cap, n)
         IN  /\ a \in Block
             /\ Exact(a)
             /\ a.cap >= n /\ a.cap >= cap
             /\ a.len = v.len
<1> USE BlockAssumption
<1>1. CASE cap >= n
  BY <1>1 DEF Allocated, Block
<1>2. CASE cap < n
  <2> DEFINE c == NewCap(cap, n)
             b == Calc(c)
             sl == [i \in DOMAIN v.slots |-> IF i <= Room(b) THEN v.slots[i] ELSE Junk]
  <2>1. n \in 1..(Limit - 1) BY <1>2
  <2>2. c \in n..(Limit - 1) BY <2>1, NewCapEnough
  <2>3. c \in Nat \ {0} BY <2>1, <2>2
  <2>4. b \in 0..(Limit - 1) /\ (Fits(c) => b = Size(c)) BY <2>3, CalcExact
  <2>5. sl \in [1..MaxLen -> Elem \cup {Junk}] BY DEF Block
  <2>6. Allocated(v, cap, n) = [v EXCEPT !.cap = c, !.bytes = b, !.slots = sl]
    BY <1>2 DEF Allocated
  <2> HIDE DEF c, b, sl
  <2> DEFINE a == [v EXCEPT !.cap = c, !.bytes = b, !.slots = sl]
  <2>7. a \in Block /\ a.cap = c /\ a.bytes = b /\ a.len = v.len
    <3>1. c \in 1..(Limit - 1) BY <2>1, <2>2
    <3>2. b \in 0..(Limit - 1) BY <2>4
    <3> QED BY <3>1, <3>2, <2>5 DEF Block
  <2>8. Exact(a) BY <2>4, <2>7 DEF Exact
  <2>9. c >= n /\ c >= cap BY <1>2, <2>1, <2>2
  <2> QED BY <2>6, <2>7, <2>8, <2>9
<1> QED BY <1>1, <1>2

\* Writing changes the length and the elements only.
LEMMA WrittenBlock ==
  ASSUME NEW v \in Block, NEW l \in Nat, NEW s \in Seq(Elem)
  PROVE  LET w == Written(v, l, s)
         IN  /\ w \in Block
             /\ w.cap = v.cap /\ w.bytes = v.bytes
             /\ w.len = l + Len(s)
<1> DEFINE sl == [i \in DOMAIN v.slots |-> IF i - l \in DOMAIN s THEN s[i - l] ELSE v.slots[i]]
<1>1. sl \in [1..MaxLen -> Elem \cup {Junk}]
  <2>1. v.slots \in [1..MaxLen -> Elem \cup {Junk}] BY DEF Block
  <2>2. \A j \in DOMAIN s : s[j] \in Elem OBVIOUS
  <2> QED BY <2>1, <2>2
<1>2. Written(v, l, s) = [v EXCEPT !.slots = sl, !.len = l + Len(s)]
  BY DEF Written
<1> HIDE DEF sl
<1>3. l + Len(s) \in Nat OBVIOUS
<1> QED BY <1>1, <1>2, <1>3 DEF Block

\* Sums below the bound on the length do not wrap.
LEMMA RequestedExact ==
  ASSUME NEW l \in Nat, NEW n \in Nat
  PROVE  /\ Requested(l, n) \in 0..(Limit - 1)
         /\ l + n <= MaxLen => Requested(l, n) = l + n
<1>1. Limit \in Nat /\ Limit > 0 /\ MaxLen \in Nat /\ MaxLen < Limit
  BY BlockAssumption DEF DefCap
<1> DEFINE t == l + n
<1>2. t \in Nat OBVIOUS
<1> HIDE DEF t
<1>3. t % Limit \in 0..(Limit - 1) /\ (t < Limit => t % Limit = t) BY <1>1, <1>2
<1>4. t <= MaxLen => t < Limit BY <1>1, <1>2
<1> QED BY <1>3, <1>4 DEF Requested, t

\* Reserving for s and writing it keep the invariant of the block.
LEMMA ReserveAndWrite ==
  ASSUME NEW v \in Block, Exact(v),
         NEW cap \in 0..(Limit - 1), cap <= v.cap,
         NEW s \in Seq(Elem), v.len + Len(s) <= MaxLen
  PROVE  LET w == Written(Allocated(v, cap, Requested(v.len, Len(s))), v.len, s)
         IN  /\ w \in Block
             /\ Exact(w)
             /\ w.len = v.len + Len(s) /\ w.len <= w.cap
             /\ w.cap >= cap
<1> DEFINE n == Requested(v.len, Len(s))
           a == Allocated(v, cap, n)
           w == Written(a, v.len, s)
<1>1. v.len \in Nat /\ Len(s) \in Nat BY DEF Block
<1>2. n \in 0..(Limit - 1) /\ n = v.len + Len(s) BY <1>1, RequestedExact
<1> HIDE DEF n
<1>3. a \in Block /\ Exact(a) /\ a.cap >= n /\ a.cap >= cap /\ a.len = v.len
  BY <1>2, AllocatedExact
<1> HIDE DEF a
<1>4. w \in Block /\ w.cap = a.cap /\ w.bytes = a.bytes /\ w.len = v.len + Len(s)
  BY <1>1, <1>3, WrittenBlock
<1> HIDE DEF w
<1>5. Exact(w) BY <1>3, <1>4 DEF Exact
<1>6. w.len <= w.cap /\ w.cap >= cap BY <1>1, <1>2, <1>3, <1>4
<1> QED BY <1>4, <1>5, <1>6 DEF w, a, n

\* A block that is reallocated keeps the elements that the new one has room for.
LEMMA AllocatedElements ==
  ASSUME NEW v \in Block,
         NEW cap \in 0..(Limit - 1), NEW n \in 0..(Limit - 1),
         v.len <= n \/ v.len <= cap, v.len <= MaxLen,
         Fits(Allocated(v, cap, n).cap)
  PROVE  \A k \in 1..v.len : Allocated(v, cap, n).slots[k] = v.slots[k]
<1> USE BlockAssumption
<1>1. CASE cap >= n
  BY <1>1 DEF Allocated
<1>2. CASE cap < n
  <2> DEFINE c == NewCap(cap, n)
             b == Calc(c)
             sl == [i \in DOMAIN v.slots |-> IF i <= Room(b) THEN v.slots[i] ELSE Junk]
  <2>1. n \in 1..(Limit - 1) BY <1>2
  <2>2. c \in n..(Limit - 1) BY <2>1, NewCapEnough
  <2>3. c \in Nat \ {0} BY <2>1, <2>2
  <2>4. Allocated(v, cap, n) = [v EXCEPT !.cap = c, !.bytes = b, !.slots = sl]
    BY <1>2 DEF Allocated
  <2>5. DOMAIN v.slots = 1..MaxLen /\ v.len \in Nat BY DEF Block
  <2> HIDE DEF c, b
  <2>6. Allocated(v, cap, n).cap = c /\ Allocated(v, cap, n).slots = sl
    <3> HIDE DEF sl
    <3> QED BY <2>4 DEF Block
  <2>7. Room(b) = c
    <3>1. Fits(c) BY <2>6
    <3>2. b = Size(c) BY <2>3, <3>1, CalcExact DEF b
    <3> QED BY <2>3, <3>2, RoomOfSize
  <2>8. v.len <= c BY <1>2, <2>1, <2>2, <2>5
  <2>9. ASSUME NEW k \in 1..v.len PROVE sl[k] = v.slots[k]
    <3>1. k \in 1..MaxLen /\ k <= c BY <2>3, <2>5, <2>8
    <3> QED BY <2>5, <2>7, <3>1
  <2> HIDE DEF sl
  <2> QED BY <2>6, <2>9
<1> QED BY <1>1, <1>2

\* Elements that are written go behind the old ones.
LEMMA WrittenElements ==
  ASSUME NEW v \in Block, NEW l \in Nat, NEW s \in Seq(Elem), l + Len(s) <= MaxLen
  PROVE  LET w == Written(v, l, s)
         IN  /\ \A k \in 1..l : w.slots[k] = v.slots[k]
             /\ \A j \in 1..Len(s) : w.slots[l + j] = s[j]
<1> DEFINE sl == [i \in DOMAIN v.slots |-> IF i - l \in DOMAIN s THEN s[i - l] ELSE v.slots[i]]
<1>1. DOMAIN v.slots = 1..MaxLen /\ DOMAIN s = 1..Len(s) /\ Len(s) \in Nat /\ MaxLen \in Nat
  BY BlockAssumption DEF Block
<1>2. Written(v, l, s) = [v EXCEPT !.slots = sl, !.len = l + Len(s)]
  BY DEF Written
<1>3. ASSUME NEW k \in 1..l PROVE sl[k] = v.slots[k]
  <2>1. k \in 1..MaxLen /\ k - l \notin 1..Len(s) BY <1>1
  <2> QED BY <1>1, <2>1
<1>4. ASSUME NEW j \in 1..Len(s) PROVE sl[l + j] = s[j]
  <2>1. l + j \in 1..MaxLen /\ (l + j) - l = j BY <1>1
  <2> QED BY <1>1, <2>1
<1> HIDE DEF sl
<1>5. Written(v, l, s).slots = sl BY <1>2 DEF Block
<1> QED BY <1>3, <1>4, <1>5

\* Reserving for s and writing it append it to the elements, if the size was a usize.
LEMMA AppendsElements ==
  ASSUME NEW v \in Block,
         NEW cap \in 0..(Limit - 1), cap <= v.cap, Exact(v),
         NEW s \in Seq(Elem), v.len + Len(s) <= MaxLen,
         Fits(Written(Allocated(v, cap, Requested(v.len, Len(s))), v.len, s).cap)
  PROVE  LET w == Written(Allocated(v, cap, Requested(v.len, Len(s))), v.len, s)
         IN  /\ w.len = v.len + Len(s)
             /\ \A k \in 1..v.len : w.slots[k] = v.slots[k]
             /\ \A j \in 1..Len(s) : w.slots[v.len + j] = s[j]
<1> DEFINE n == Requested(v.len, Len(s))
           a == Allocated(v, cap, n)
           w == Written(a, v.len, s)
<1>1. v.len \in Nat /\ Len(s) \in Nat /\ MaxLen \in Nat BY BlockAssumption DEF Block
<1>2. n \in 0..(Limit - 1) /\ n = v.len + Len(s) BY <1>1, RequestedExact
<1> HIDE DEF n
<1>3. a \in Block /\ a.len = v.len
  BY <1>2, AllocatedExact
<1>4. Fits(w.cap) BY DEF n
<1>5. Fits(a.cap)
  <2> HIDE DEF a
  <2> QED BY <1>1, <1>3, <1>4, WrittenBlock
<1>6. \A k \in 1..v.len : a.slots[k] = v.slots[k]
  <2>1. v.len <= n /\ v.len <= MaxLen BY <1>1, <1>2
  <2> QED BY <1>2, <1>5, <2>1, AllocatedElements
<1> HIDE DEF a
<1>7. /\ w.len = v.len + Len(s)
      /\ \A k \in 1..v.len : w.slots[k] = a.slots[k]
      /\ \A j \in 1..Len(s) : w.slots[v.len + j] = s[j]
  BY <1>1, <1>3, WrittenElements, WrittenBlock
<1> HIDE DEF w
<1>8. /\ w.len = v.len + Len(s)
      /\ \A k \in 1..v.len : w.slots[k] = v.slots[k]
      /\ \A j \in 1..Len(s) : w.slots[v.len + j] = s[j]
  BY <1>6, <1>7
<1> QED BY <1>8 DEF w, a, n

--------------------------------------------------------------------------------
(* The steps *)

\* A new vector has the block of the default capacity.
LEMMA InitBlock == Init => BlockInv
<1> SUFFICES ASSUME Init PROVE BlockInv OBVIOUS
<1> USE BlockAssumption
<1>1. Calc(DefCap) \in 0..(Limit - 1) /\ (Fits(DefCap) => Calc(DefCap) = Size(DefCap))
  BY CalcExact DEF DefCap
<1>2. vec \in Block BY <1>1 DEF Init, Block, DefCap
<1>3. Exact(vec) BY <1>1 DEF Init, Exact
<1>4. vec.len = 0 /\ vec.cap = 2 BY DEF Init, DefCap
<1>5. items = <<>> /\ known = NoHint BY DEF Init
<1> QED BY <1>2, <1>3, <1>4, <1>5 DEF BlockInv, NoHint

\* push, extend_array and extend_from_slice.
LEMMA PushKeepsBlock ==
  ASSUME BlockInv, NEW s \in Seq(Elem), PushSeq(s)
  PROVE  BlockInv'
<1>1. vec \in Block /\ Exact(vec) BY DEF BlockInv
<1>2. vec.cap \in 0..(Limit - 1) /\ vec.cap <= vec.cap /\ vec.len \in Nat
  BY <1>1, BlockAssumption DEF Block
<1>3. vec.len + Len(s) <= MaxLen BY DEF PushSeq
<1>4. vec' = Written(Allocated(vec, vec.cap, Requested(vec.len, Len(s))), vec.len, s)
  BY DEF PushSeq
<1>5. /\ vec' \in Block /\ Exact(vec') /\ vec'.len = vec.len + Len(s)
      /\ vec'.len <= vec'.cap /\ vec'.cap >= vec.cap
  BY <1>1, <1>2, <1>3, <1>4, ReserveAndWrite
<1>6. items = <<>> /\ UNCHANGED <<items, extending, known>>
  BY DEF PushSeq, Idle, BlockInv, local
<1>7. Exact(vec)' BY <1>5 DEF Exact, Fits, Size
<1>8. (known # NoHint => known <= vec.cap)'
  BY <1>2, <1>5, <1>6, BlockAssumption DEF Block, BlockInv, NoHint
<1>9. vec'.len + Len(items') <= MaxLen
  BY <1>2, <1>3, <1>5, <1>6
<1> QED BY <1>5, <1>6, <1>7, <1>8, <1>9 DEF BlockInv, NoHint

\* The reservation of extend.
LEMMA ExtendBeginKeepsBlock ==
  ASSUME BlockInv, NEW s \in Seq(Elem), NEW claim \in Claims, NEW hint,
         ExtendBegin(s, claim, hint)
  PROVE  BlockInv'
<1>1. vec \in Block /\ Exact(vec) /\ (Sound => vec.len <= vec.cap) BY DEF BlockInv
<1>2. /\ vec.cap \in 0..(Limit - 1) /\ vec.len \in Nat
      /\ claim \in Nat /\ Limit \in Nat /\ MaxLen \in Nat
  BY <1>1, BlockAssumption DEF Block
<1> DEFINE n == Requested(vec.len, claim)
<1>3. n \in 0..(Limit - 1) BY <1>2, RequestedExact
<1>4. vec' = vec \/ vec' = Allocated(vec, vec.cap, n) BY DEF ExtendBegin
<1> HIDE DEF n
<1>5. vec' \in Block /\ Exact(vec') /\ vec'.cap >= vec.cap /\ vec'.len = vec.len
  <2>1. CASE vec' = vec BY <2>1, <1>1, <1>2
  <2>2. CASE vec' = Allocated(vec, vec.cap, n)
    <3>1. vec.cap <= vec.cap BY <1>2
    <3> QED BY <2>2, <1>1, <1>2, <1>3, <3>1, AllocatedExact
  <2> QED BY <1>4, <2>1, <2>2
<1>6. /\ items' = s /\ known' = hint /\ hint \in {NoHint, vec.cap} /\ extending' = TRUE
      /\ vec.len + Len(s) <= MaxLen /\ Sound
  BY DEF ExtendBegin, ExtendLocals, Idle
<1>7. Exact(vec)' BY <1>5 DEF Exact, Fits, Size
<1>8. vec'.len <= vec'.cap /\ vec'.len + Len(items') <= MaxLen
  <2>1. vec'.cap \in Nat BY <1>5, <1>2 DEF Block
  <2> QED BY <1>1, <1>2, <1>5, <1>6, <2>1
<1>9. known' \in 0..NoHint /\ (known # NoHint => known <= vec.cap)'
  BY <1>2, <1>5, <1>6 DEF NoHint
<1> QED BY <1>5, <1>6, <1>7, <1>8, <1>9 DEF BlockInv

\* An element that the iterator yields: the capacity told may be out of date.
LEMMA ExtendNextKeepsBlock ==
  ASSUME BlockInv, ExtendNext
  PROVE  BlockInv'
<1>1. /\ vec \in Block /\ Exact(vec) /\ vec.len + Len(items) <= MaxLen
      /\ items \in Seq(Elem) /\ items # <<>>
      /\ known \in 0..NoHint /\ (known # NoHint => known <= vec.cap)
      /\ extending
  BY DEF BlockInv, ExtendNext
<1>2. /\ vec.cap \in 0..(Limit - 1) /\ vec.len \in Nat
      /\ Limit \in Nat /\ MaxLen \in Nat
  BY <1>1, BlockAssumption DEF Block
<1> DEFINE s == <<Head(items)>>
<1>3. s \in Seq(Elem) /\ Len(s) = 1 /\ Tail(items) \in Seq(Elem)
      /\ Len(Tail(items)) = Len(items) - 1 /\ Len(items) \in Nat \ {0}
  BY <1>1
<1>4. KnownCap \in 0..(Limit - 1) /\ KnownCap <= vec.cap
  BY <1>1, <1>2 DEF KnownCap, NoHint
<1>5. vec' = Written(Allocated(vec, KnownCap, Requested(vec.len, Len(s))), vec.len, s)
  BY <1>3 DEF ExtendNext
<1>6. items' = Tail(items) /\ known' = known /\ extending' = extending BY DEF ExtendNext
<1>7. vec.len + Len(s) <= MaxLen BY <1>1, <1>2, <1>3
<1> HIDE DEF s
<1>8. /\ vec' \in Block /\ Exact(vec') /\ vec'.len = vec.len + Len(s)
      /\ vec'.len <= vec'.cap /\ vec'.cap >= KnownCap
  BY <1>1, <1>2, <1>3, <1>4, <1>5, <1>7, ReserveAndWrite
<1>9. Exact(vec)' BY <1>8 DEF Exact, Fits, Size
<1>10. vec'.len + Len(items') <= MaxLen BY <1>1, <1>2, <1>3, <1>6, <1>8
<1>11. (known # NoHint => known <= vec.cap)'
  <2>1. vec'.cap \in Nat BY <1>8, <1>2 DEF Block
  <2> QED BY <1>1, <1>2, <1>4, <1>6, <1>8, <2>1 DEF KnownCap
<1> QED BY <1>1, <1>3, <1>6, <1>8, <1>9, <1>10, <1>11 DEF BlockInv, NoHint

\* The end of extend, ordinary or by a panic.
LEMMA LeaveKeepsBlock ==
  ASSUME BlockInv, ExtendLeave
  PROVE  BlockInv'
<1>1. vec' = vec /\ items' = <<>> /\ known' = NoHint /\ extending' = FALSE
  BY DEF ExtendLeave
<1>2. vec.len \in Nat /\ Len(items) \in Nat /\ MaxLen \in Nat /\ Limit \in Nat
  BY BlockAssumption DEF BlockInv, Block
<1>3. vec'.len + Len(items') <= MaxLen BY <1>1, <1>2 DEF BlockInv
<1>4. NoHint \in 0..NoHint BY <1>2 DEF NoHint
<1> QED BY <1>1, <1>3, <1>4 DEF BlockInv, Exact, Sound, Fits, Size

\* pop leaves the block as it is.
LEMMA PopKeepsBlock ==
  ASSUME BlockInv, Pop
  PROVE  BlockInv'
<1>1. vec \in Block BY DEF BlockInv
<1>2. /\ vec.len \in Nat /\ vec.len > 0 /\ items = <<>>
      /\ MaxLen \in Nat /\ Limit \in Nat /\ vec.cap \in Nat
  BY <1>1, BlockAssumption DEF Pop, Idle, BlockInv, Block
<1> DEFINE sl == [vec.slots EXCEPT ![vec.len] = Junk]
<1>3. sl \in [1..MaxLen -> Elem \cup {Junk}] BY <1>1 DEF Block
<1>4. vec' = [vec EXCEPT !.len = vec.len - 1, !.slots = sl] BY DEF Pop
<1> HIDE DEF sl
<1>5. /\ vec' \in Block /\ vec'.len = vec.len - 1
      /\ vec'.cap = vec.cap /\ vec'.bytes = vec.bytes
  <2> DEFINE l == vec.len - 1
  <2>1. l \in Nat /\ vec' = [vec EXCEPT !.len = l, !.slots = sl] BY <1>2, <1>4
  <2> HIDE DEF l
  <2>2. vec' \in Block /\ vec'.len = l /\ vec'.cap = vec.cap /\ vec'.bytes = vec.bytes
    BY <1>1, <1>3, <2>1 DEF Block
  <2> QED BY <2>2 DEF l
<1>6. UNCHANGED <<items, extending, known>> BY DEF Pop, local
<1>7. Exact(vec)' BY <1>5 DEF BlockInv, Exact, Fits, Size
<1>8. (Sound => vec.len <= vec.cap)' BY <1>2, <1>5 DEF BlockInv, Sound, Fits, Size
<1>9. vec'.len + Len(items') <= MaxLen BY <1>2, <1>5, <1>6 DEF BlockInv
<1> QED BY <1>5, <1>6, <1>7, <1>8, <1>9 DEF BlockInv

\* drop empties the block.
LEMMA DropKeepsBlock ==
  ASSUME BlockInv, Drop
  PROVE  BlockInv'
<1>1. vec \in Block BY DEF BlockInv
<1>2. /\ vec.len \in Nat /\ items = <<>> /\ vec.cap \in Nat
      /\ MaxLen \in Nat /\ Limit \in Nat
  BY <1>1, BlockAssumption DEF Drop, Idle, BlockInv, Block
<1> DEFINE sl == [i \in DOMAIN vec.slots |-> Junk]
<1>3. sl \in [1..MaxLen -> Elem \cup {Junk}] BY <1>1 DEF Block
<1>4. vec' = [vec EXCEPT !.len = 0, !.slots = sl] BY DEF Drop
<1> HIDE DEF sl
<1>5. vec' \in Block /\ vec'.len = 0 /\ vec'.cap = vec.cap /\ vec'.bytes = vec.bytes
  BY <1>1, <1>3, <1>4 DEF Block
<1>6. UNCHANGED <<items, extending, known>> BY DEF Drop, local
<1>7. Exact(vec)' BY <1>5 DEF BlockInv, Exact, Fits, Size
<1>8. vec'.len <= vec'.cap /\ vec'.len + Len(items') <= MaxLen BY <1>2, <1>5, <1>6
<1> QED BY <1>5, <1>6, <1>7, <1>8 DEF BlockInv

\* Steps that leave the block and extend's locals alone.
LEMMA StutterKeepsBlock ==
  ASSUME BlockInv, UNCHANGED <<vec, items, extending, known>>
  PROVE  BlockInv'
BY DEF BlockInv, Exact, Sound, Fits, Size

\* One case for each operation.
LEMMA NextKeepsBlock == BlockInv /\ [Next]_vars => BlockInv'
<1> SUFFICES ASSUME BlockInv, [Next]_vars PROVE BlockInv' OBVIOUS
<1>1. ASSUME NEW s \in Seq(Elem), ExtendArray(s) \/ ExtendFromSlice(s)
      PROVE  BlockInv'
  BY <1>1, PushKeepsBlock DEF ExtendArray, ExtendFromSlice
<1>11. ASSUME NEW e \in Elem, Push(e) PROVE BlockInv'
  <2>1. <<e>> \in Seq(Elem) OBVIOUS
  <2> QED BY <1>11, <2>1, PushKeepsBlock DEF Push
<1>2. ASSUME NEW s, PushSeqFails(s) PROVE BlockInv'
  BY <1>2, StutterKeepsBlock DEF PushSeqFails, vars, local
<1>3. ASSUME NEW s \in Seq(Elem), NEW claim \in Claims, NEW hint \in {NoHint, vec.cap},
             ExtendBegin(s, claim, hint)
      PROVE  BlockInv'
  BY <1>3, ExtendBeginKeepsBlock
<1>4. ASSUME NEW claim \in Claims, ExtendBeginFails(claim) PROVE BlockInv'
  BY <1>4, StutterKeepsBlock DEF ExtendBeginFails, vars, local
<1>5. CASE ExtendNext BY <1>5, ExtendNextKeepsBlock
<1>6. CASE ExtendEnd \/ ExtendPanics BY <1>6, LeaveKeepsBlock DEF ExtendEnd, ExtendPanics
<1>7. CASE Pop BY <1>7, PopKeepsBlock
<1>8. CASE IntoRaw \/ FromRaw BY <1>8, StutterKeepsBlock DEF IntoRaw, FromRaw, local
<1>9. CASE Drop BY <1>9, DropKeepsBlock
<1>10. CASE UNCHANGED vars BY <1>10, StutterKeepsBlock DEF vars, local
<1> QED BY <1>1, <1>2, <1>3, <1>4, <1>5, <1>6, <1>7, <1>8, <1>9, <1>10, <1>11 DEF Next

\* The invariant implies the property: an exact block has room for its capacity.
LEMMA BlockInvSuffices == BlockInv => BlockHoldsCapacity
<1> SUFFICES ASSUME BlockInv, Sound PROVE BlockHoldsCapacity
  BY DEF BlockHoldsCapacity
<1>1. vec.cap \in Nat \ {0} BY BlockAssumption DEF BlockInv, Block
<1>2. vec.bytes = Size(vec.cap) /\ vec.len <= vec.cap BY DEF BlockInv, Exact, Sound
<1>3. Room(vec.bytes) = vec.cap BY <1>1, <1>2, RoomOfSize
<1> QED BY <1>2, <1>3 DEF BlockHoldsCapacity

\* The block has room for exactly the recorded capacity, and the elements are within it,
\* after any sequence of calls of Vector<T>, for every size of an element, width of a word
\* and amount of memory, every promise of an iterator and every hint gone out of date.
THEOREM BlockIsLargeEnough == Spec => []BlockHoldsCapacity
<1>1. Init => BlockInv BY InitBlock
<1>2. BlockInv /\ [Next]_vars => BlockInv' BY NextKeepsBlock
<1>3. BlockInv => BlockHoldsCapacity BY BlockInvSuffices
<1> QED BY <1>1, <1>2, <1>3, PTL DEF Spec

--------------------------------------------------------------------------------
(* The elements *)

\* What a sequence of elements is appended to: the elements keep their places.
Appended(s) ==
  /\ vec'.len = vec.len + Len(s)
  /\ \A k \in 1..vec.len : vec'.slots[k] = vec.slots[k]
  /\ \A j \in 1..Len(s) : vec'.slots[vec.len + j] = s[j]

\* push, extend_array and extend_from_slice append their argument.
LEMMA PushAppends ==
  ASSUME BlockInv, NEW s \in Seq(Elem), PushSeq(s), Sound'
  PROVE  Appended(s)
<1>1. vec \in Block /\ Exact(vec) BY DEF BlockInv
<1>2. vec.cap \in 0..(Limit - 1) /\ vec.cap <= vec.cap
  BY <1>1, BlockAssumption DEF Block
<1>3. vec.len + Len(s) <= MaxLen BY DEF PushSeq
<1>4. vec' = Written(Allocated(vec, vec.cap, Requested(vec.len, Len(s))), vec.len, s)
  BY DEF PushSeq
<1>5. Fits(vec'.cap) BY DEF Sound, Fits, Size
<1> QED BY <1>1, <1>2, <1>3, <1>4, <1>5, AppendsElements DEF Appended

\* extend appends what the iterator yields, one element at a time.
LEMMA ExtendAppends ==
  ASSUME BlockInv, ExtendNext, Sound'
  PROVE  Appended(<<Head(items)>>)
<1>1. /\ vec \in Block /\ Exact(vec) /\ vec.len + Len(items) <= MaxLen
      /\ items \in Seq(Elem) /\ items # <<>>
      /\ known \in 0..NoHint /\ (known # NoHint => known <= vec.cap)
  BY DEF BlockInv, ExtendNext
<1>2. vec.cap \in 0..(Limit - 1) /\ vec.len \in Nat /\ Limit \in Nat /\ MaxLen \in Nat
  BY <1>1, BlockAssumption DEF Block
<1> DEFINE s == <<Head(items)>>
<1>3. s \in Seq(Elem) /\ Len(s) = 1 /\ Len(items) \in Nat \ {0}
  BY <1>1
<1>4. KnownCap \in 0..(Limit - 1) /\ KnownCap <= vec.cap
  BY <1>1, <1>2 DEF KnownCap, NoHint
<1>5. vec' = Written(Allocated(vec, KnownCap, Requested(vec.len, Len(s))), vec.len, s)
  BY <1>3 DEF ExtendNext
<1>6. vec.len + Len(s) <= MaxLen BY <1>1, <1>2, <1>3
<1>7. Fits(vec'.cap) BY DEF Sound, Fits, Size
<1> HIDE DEF s
<1>8. Appended(s)
  BY <1>1, <1>3, <1>4, <1>5, <1>6, <1>7, AppendsElements DEF Appended
<1> QED BY <1>8 DEF s

\* The reservation of extend keeps the elements.
LEMMA ReserveKeepsElements ==
  ASSUME BlockInv, NEW s, NEW claim \in Claims, NEW hint, ExtendBegin(s, claim, hint), Sound'
  PROVE  Appended(<<>>)
<1>1. vec \in Block /\ Sound /\ vec.len <= vec.cap BY DEF BlockInv, ExtendBegin, Idle
<1>2. /\ vec.cap \in 0..(Limit - 1) /\ vec.len \in Nat /\ vec.len <= MaxLen
      /\ claim \in Nat /\ Len(items) \in Nat
  BY <1>1, BlockAssumption DEF Block, BlockInv
<1> DEFINE n == Requested(vec.len, claim)
<1>3. n \in 0..(Limit - 1) BY <1>2, RequestedExact
<1>4. vec' = vec \/ vec' = Allocated(vec, vec.cap, n) BY DEF ExtendBegin
<1> HIDE DEF n
<1>5. Fits(vec'.cap) BY DEF Sound, Fits, Size
<1>6. vec'.len = vec.len
  <2>1. CASE vec' = vec BY <2>1
  <2>2. CASE vec' = Allocated(vec, vec.cap, n)
    <3>1. Exact(vec) /\ vec.cap <= vec.cap BY <1>2 DEF BlockInv
    <3> QED BY <1>1, <1>2, <1>3, <2>2, <3>1, AllocatedExact
  <2> QED BY <1>4, <2>1, <2>2
<1>7. \A k \in 1..vec.len : vec'.slots[k] = vec.slots[k]
  <2>1. CASE vec' = vec BY <2>1
  <2>2. CASE vec' = Allocated(vec, vec.cap, n)
    BY <1>1, <1>2, <1>3, <1>5, <2>2, AllocatedElements
  <2> QED BY <1>4, <2>1, <2>2
<1>8. Len(<<>>) = 0 OBVIOUS
<1> QED BY <1>2, <1>6, <1>7, <1>8 DEF Appended

\* pop moves the last element out and keeps the others.
LEMMA PopRemovesLast ==
  ASSUME BlockInv, Pop
  PROVE  /\ vec.len \in 1..MaxLen /\ vec'.len = vec.len - 1
         /\ \A k \in 1..(vec.len - 1) : vec'.slots[k] = vec.slots[k]
         /\ Last = vec.slots[vec.len]
<1>1. vec \in Block BY DEF BlockInv
<1>2. vec.len \in 1..MaxLen
  BY <1>1, BlockAssumption DEF Pop, BlockInv, Block
<1> DEFINE sl == [vec.slots EXCEPT ![vec.len] = Junk]
<1>3. vec' = [vec EXCEPT !.len = vec.len - 1, !.slots = sl] BY DEF Pop
<1>4. \A k \in 1..(vec.len - 1) : sl[k] = vec.slots[k]
  BY <1>1, <1>2, BlockAssumption DEF Block
<1> HIDE DEF sl
<1>5. vec'.len = vec.len - 1 /\ vec'.slots = sl BY <1>1, <1>3 DEF Block
<1>6. Last = vec.slots[vec.len] BY <1>2, BlockAssumption DEF Last, Get
<1> QED BY <1>2, <1>4, <1>5, <1>6

\* What an operation reads as an element was written as one.
Filled == Sound => \A k \in 1..vec.len : vec.slots[k] \in Elem

\* Elements are appended to elements.
LEMMA AppendedFilled ==
  ASSUME \A k \in 1..vec.len : vec.slots[k] \in Elem, vec.len \in Nat,
         NEW s \in Seq(Elem), Appended(s)
  PROVE  Filled'
<1> SUFFICES ASSUME NEW k \in 1..vec'.len PROVE vec'.slots[k] \in Elem
  BY DEF Filled
<1>1. Len(s) \in Nat /\ \A j \in 1..Len(s) : s[j] \in Elem
  OBVIOUS
<1>2. CASE k \in 1..vec.len
  BY <1>2 DEF Appended
<1>3. CASE k \notin 1..vec.len
  <2>1. k - vec.len \in 1..Len(s) /\ k = vec.len + (k - vec.len)
    BY <1>1, <1>3 DEF Appended
  <2> QED BY <1>1, <2>1 DEF Appended
<1> QED BY <1>2, <1>3

\* No step leaves a slot below the length unwritten.
LEMMA FilledStep ==
  ASSUME BlockInv, Filled, [Next]_vars
  PROVE  Filled'
<1> SUFFICES ASSUME Sound' PROVE Filled'
  BY DEF Filled
<1>1. vec.len \in Nat
  BY DEF BlockInv, Block
<1>2. ASSUME NEW s \in Seq(Elem), PushSeq(s) PROVE Filled'
  BY <1>1, <1>2, PushAppends, AppendedFilled DEF Filled, PushSeq, Idle
<1>3. ASSUME NEW e \in Elem, Push(e) PROVE Filled'
  <2>1. <<e>> \in Seq(Elem)
    OBVIOUS
  <2> QED BY <1>2, <1>3, <2>1 DEF Push
<1>4. ASSUME NEW s \in Seq(Elem), NEW claim \in Claims, NEW hint, ExtendBegin(s, claim, hint)
      PROVE  Filled'
  <2> DEFINE none == <<>>
  <2>1. none \in Seq(Elem) /\ Appended(none)
    BY <1>4, ReserveKeepsElements
  <2> HIDE DEF none
  <2> QED BY <1>1, <1>4, <2>1, AppendedFilled DEF Filled, ExtendBegin, Idle
<1>5. CASE ExtendNext
  <2> DEFINE s == <<Head(items)>>
  <2>1. s \in Seq(Elem) /\ Appended(s)
    BY <1>5, ExtendAppends DEF BlockInv, ExtendNext
  <2> HIDE DEF s
  <2> QED BY <1>1, <1>5, <2>1, AppendedFilled DEF Filled, ExtendNext
<1>6. CASE Pop
  <2>1. /\ vec'.len = vec.len - 1 /\ vec.len \in Nat /\ Sound
        /\ \A k \in 1..(vec.len - 1) : vec'.slots[k] = vec.slots[k]
    BY <1>1, <1>6, PopRemovesLast DEF Pop, Idle
  <2> QED BY <2>1 DEF Filled
<1>7. CASE Drop
  <2>1. vec'.len = 0
    BY <1>7 DEF Drop, BlockInv, Block
  <2> QED BY <2>1 DEF Filled
<1>8. CASE vec' = vec
  BY <1>8 DEF Filled, Sound, Fits, Size, Limit
<1>9. ASSUME NEW s, NEW claim,
             \/ PushSeqFails(s) \/ ExtendBeginFails(claim) \/ ExtendEnd \/ ExtendPanics
             \/ IntoRaw \/ FromRaw \/ UNCHANGED vars
      PROVE  vec' = vec
  BY <1>9 DEF PushSeqFails, ExtendBeginFails, ExtendEnd, ExtendPanics, ExtendLeave, IntoRaw,
              FromRaw, vars
<1>10. ASSUME NEW s \in Seq(Elem), ExtendArray(s) \/ ExtendFromSlice(s) PROVE Filled'
  BY <1>2, <1>10 DEF ExtendArray, ExtendFromSlice
<1> QED BY <1>3, <1>4, <1>5, <1>6, <1>7, <1>8, <1>9, <1>10 DEF Next

\* Whatever is below the length of a vector was written there: neither get nor pop nor the
\* drop of a vector reads memory that was never an element, however the block has moved.
THEOREM ElementsAreWritten == Spec => [](Sound => \A k \in 1..vec.len : vec.slots[k] \in Elem)
<1>1. Init => BlockInv /\ Filled
  BY InitBlock DEF Init, Filled
<1>2. BlockInv /\ Filled /\ [Next]_vars => BlockInv' /\ Filled'
  BY NextKeepsBlock, FilledStep
<1>3. Filled => (Sound => \A k \in 1..vec.len : vec.slots[k] \in Elem)
  BY DEF Filled
<1> QED BY <1>1, <1>2, <1>3, PTL DEF Spec

--------------------------------------------------------------------------------
(* Types, and how often extend reallocates *)

\* With no hint, an extend under way has reserved what was promised, and has reallocated
\* at most once as long as it has not pushed more.
GrowInv ==
  extending /\ known = NoHint /\ Fits(start + lower) =>
    /\ start <= vec.len
    /\ start + lower <= vec.cap
    /\ vec.len - start <= lower => reallocs <= 1

\* No vector that is not too large is of a length that is no usize.
LEMMA FitsIsUsize == \A c \in Nat : Fits(c) => c < Limit
<1> TAKE c \in Nat
<1> USE BlockAssumption
<1>1. CASE c = 0 BY <1>1 DEF DefCap
<1>2. CASE c > 0
  <2> DEFINE k == c - 1
  <2>1. k \in Nat BY <1>2
  <2> HIDE DEF k
  <2>2. \A m \in Nat : m * ElemSize >= m
    <3> TAKE m \in Nat
    <3>1. ElemSize \in Nat /\ ElemSize >= 1 OBVIOUS
    <3>2. PICK e \in Nat : ElemSize = e + 1
      <4>1. ElemSize - 1 \in Nat /\ ElemSize = (ElemSize - 1) + 1 BY <3>1
      <4> QED BY <4>1
    <3>3. m * ElemSize = m * e + m BY <3>2
    <3>4. m * e \in Nat BY <3>2
    <3> QED BY <3>3, <3>4
  <2>3. k * ElemSize >= k /\ k * ElemSize \in Nat BY <2>1, <2>2
  <2>4. Size(c) = k * ElemSize + HeaderSize BY DEF Size, k
  <2>5. HeaderSize >= 1 /\ HeaderSize \in Nat OBVIOUS
  <2>6. c = k + 1 BY DEF k
  <2> DEFINE m == k * ElemSize
  <2>7. m \in Nat /\ m >= k /\ Size(c) = m + HeaderSize BY <2>3, <2>4
  <2> HIDE DEF m
  <2>8. Size(c) >= c BY <2>1, <2>5, <2>6, <2>7
  <2>9. Size(c) \in Nat BY <2>5, <2>7
  <2> QED BY <2>8, <2>9 DEF Fits
<1> QED BY <1>1, <1>2

\* The types hold in the initial states and after every step.
LEMMA InitVectorType == Init => TypeOK
<1> SUFFICES ASSUME Init PROVE TypeOK OBVIOUS
<1> USE BlockAssumption
<1>1. Calc(DefCap) \in 0..(Limit - 1) BY CalcExact DEF DefCap
<1>2. items \in Seq(Elem) BY DEF Init
<1>3. vec \in [len : Nat, cap : 0..(Limit - 1), bytes : 0..(Limit - 1),
               slots : [1..MaxLen -> Elem \cup {Junk}]]
  BY <1>1 DEF Init, DefCap
<1>4. known \in 0..NoHint /\ start \in 0..MaxLen
  BY DEF Init, NoHint
<1>5. /\ life \in {"owned", "raw", "dropped"} /\ extending \in BOOLEAN
      /\ lower \in Claims \cup {0} /\ reallocs \in Nat
  BY DEF Init
<1> QED BY <1>2, <1>3, <1>4, <1>5 DEF TypeOK

\* A step that is not one of extend leaves extend's locals alone, and the block too while
\* extend is under way.
LEMMA StepKinds ==
  ASSUME [Next]_vars
  PROVE  \/ UNCHANGED <<extending, known, lower, start, reallocs>> /\ (extending => vec' = vec)
         \/ \E s \in Seq(Elem), claim \in Claims, hint \in {NoHint, vec.cap} :
              ExtendBegin(s, claim, hint)
         \/ ExtendNext
         \/ ExtendLeave
<1> DEFINE Others == UNCHANGED <<extending, known, lower, start, reallocs>>
                     /\ (extending => vec' = vec)
<1>1. ASSUME NEW s \in Seq(Elem), ExtendArray(s) \/ ExtendFromSlice(s) PROVE Others
  BY <1>1 DEF ExtendArray, ExtendFromSlice, PushSeq, Idle, local
<1>2. ASSUME NEW e \in Elem, Push(e) PROVE Others
  BY <1>2 DEF Push, PushSeq, Idle, local
<1>3. ASSUME NEW s \in Seq(Elem), PushSeqFails(s) PROVE Others
  BY <1>3 DEF PushSeqFails, vars, local
<1>4. ASSUME NEW claim \in Claims, ExtendBeginFails(claim) PROVE Others
  BY <1>4 DEF ExtendBeginFails, vars, local
<1>5. ASSUME Pop \/ IntoRaw \/ FromRaw \/ Drop PROVE Others
  BY <1>5 DEF Pop, IntoRaw, FromRaw, Drop, Idle, local
<1>6. CASE UNCHANGED vars
  BY <1>6 DEF vars, local
<1>7. ASSUME ExtendEnd \/ ExtendPanics PROVE ExtendLeave
  BY <1>7 DEF ExtendEnd, ExtendPanics
<1> DEFINE Begins == \E s \in Seq(Elem), claim \in Claims, hint \in {NoHint, vec.cap} :
                       ExtendBegin(s, claim, hint)
<1>8. ASSUME NEW s \in Seq(Elem), NEW claim \in Claims, NEW hint \in {NoHint, vec.cap},
             ExtendBegin(s, claim, hint)
      PROVE  Begins
  BY <1>8
<1> HIDE DEF Others, Begins
<1>9. CASE Next
  <2>1. ASSUME NEW s \in Seq(Elem),
               \/ ExtendArray(s) \/ ExtendFromSlice(s) \/ PushSeqFails(s)
               \/ \E claim \in Claims, hint \in {NoHint, vec.cap} : ExtendBegin(s, claim, hint)
        PROVE  Others \/ Begins
    BY <1>1, <1>3, <1>8, <2>1
  <2>2. Others \/ Begins \/ ExtendNext \/ ExtendLeave
    BY <1>2, <1>4, <1>5, <1>7, <1>9, <2>1 DEF Next
  <2> QED BY <2>2 DEF Others, Begins
<1> QED BY <1>6, <1>9 DEF Others

\* Each step keeps the types; BlockInv says those of the block and of the hint.
LEMMA VectorTypeStep ==
  ASSUME TypeOK, BlockInv, BlockInv', [Next]_vars
  PROVE  TypeOK'
<1> USE DEF TypeOK
<1>1. /\ vec' \in [len : Nat, cap : 0..(Limit - 1), bytes : 0..(Limit - 1),
                   slots : [1..MaxLen -> Elem \cup {Junk}]]
      /\ items' \in Seq(Elem) /\ known' \in 0..NoHint
  <2>1. vec' \in Block BY DEF BlockInv, NoHint, Limit, Block
  <2>2. items' \in Seq(Elem) /\ known' \in 0..NoHint BY DEF BlockInv, NoHint, Limit
  <2>3. Limit \in Nat BY BlockAssumption
  <2> QED BY <2>1, <2>2, <2>3 DEF Block
<1>2. vec.len \in 0..MaxLen /\ MaxLen \in Nat
  BY BlockAssumption DEF BlockInv, Block
<1>3. life' \in {"owned", "raw", "dropped"}
  BY DEF Next, Push, ExtendArray, ExtendFromSlice, PushSeq, PushSeqFails, ExtendBegin,
         ExtendBeginFails, ExtendNext, ExtendEnd, ExtendPanics, ExtendLeave, Pop, IntoRaw,
         FromRaw, Drop, vars
<1>4. CASE UNCHANGED <<extending, known, lower, start, reallocs>>
  BY <1>1, <1>3, <1>4 DEF NoHint, Limit
<1>5. ASSUME NEW s \in Seq(Elem), NEW claim \in Claims, NEW hint, ExtendBegin(s, claim, hint)
      PROVE  TypeOK'
  <2>1. extending' = TRUE /\ lower' = claim /\ start' = vec.len
    BY <1>5 DEF ExtendBegin, ExtendLocals
  <2>2. reallocs' \in Nat
    BY <1>5 DEF ExtendBegin
  <2>3. extending' \in BOOLEAN /\ lower' \in Claims \cup {0}
    BY <2>1
  <2>4. start' \in 0..MaxLen
    BY <1>2, <2>1
  <2> QED BY <1>1, <1>3, <2>2, <2>3, <2>4 DEF NoHint, Limit
<1>6. CASE ExtendNext
  <2>1. UNCHANGED <<extending, lower, start>> /\ reallocs' \in Nat
    BY <1>6 DEF ExtendNext
  <2> QED BY <1>1, <1>3, <2>1 DEF NoHint, Limit
<1>7. CASE ExtendLeave
  <2>1. extending' = FALSE /\ lower' = 0 /\ start' = 0 /\ reallocs' = 0
    BY <1>7 DEF ExtendLeave
  <2>2. extending' \in BOOLEAN /\ lower' \in Claims \cup {0} /\ reallocs' \in Nat
    BY <2>1
  <2>3. start' \in 0..MaxLen
    BY <1>2, <2>1
  <2> QED BY <1>1, <1>3, <2>2, <2>3 DEF NoHint, Limit
<1> QED BY <1>4, <1>5, <1>6, <1>7, StepKinds

\* extend starts with the capacity that was promised.
LEMMA BeginGrows ==
  ASSUME BlockInv, NEW s \in Seq(Elem), NEW claim \in Claims, NEW hint,
         ExtendBegin(s, claim, hint)
  PROVE  GrowInv'
<1> SUFFICES ASSUME Fits(vec.len + claim)
             PROVE  /\ start' = vec.len /\ vec'.len = vec.len /\ lower' = claim
                    /\ vec.len + claim <= vec'.cap
                    /\ reallocs' <= 1
  <2>1. start' = vec.len /\ lower' = claim
    BY DEF ExtendBegin, ExtendLocals
  <2>2. vec.len \in Nat /\ claim \in Nat
    BY BlockAssumption DEF BlockInv, Block
  <2>3. Fits(start + lower)' => Fits(vec.len + claim)
    BY <2>1 DEF Fits, Size
  <2> QED BY <2>1, <2>2, <2>3 DEF GrowInv
<1>1. vec \in Block /\ Exact(vec) /\ vec.len <= vec.cap
  BY DEF BlockInv, ExtendBegin, Idle
<1>2. /\ vec.cap \in 0..(Limit - 1) /\ vec.cap <= vec.cap /\ vec.len \in Nat
      /\ claim \in Nat /\ Limit \in Nat
  BY <1>1, BlockAssumption DEF Block
<1>3. start' = vec.len /\ lower' = claim /\ reallocs' <= 1
  BY DEF ExtendBegin, ExtendLocals
<1>4. CASE claim = 0
  BY <1>1, <1>2, <1>3, <1>4 DEF ExtendBegin
<1>5. CASE claim > 0
  <2> DEFINE n == vec.len + claim
  <2>1. n \in 0..(Limit - 1)
    BY <1>2, FitsIsUsize
  <2>2. Requested(vec.len, claim) = n
    <3>1. \A m \in 0..(Limit - 1) : m % Limit = m BY <1>2
    <3> QED BY <2>1, <3>1 DEF Requested
  <2>3. vec' = Allocated(vec, vec.cap, n)
    BY <1>5, <2>2 DEF ExtendBegin
  <2> HIDE DEF n
  <2>4. vec'.cap >= n /\ vec'.len = vec.len
    BY <1>1, <1>2, <2>1, <2>3, AllocatedExact
  <2>5. vec' \in Block
    BY <1>1, <1>2, <2>1, <2>3, AllocatedExact
  <2>6. vec'.cap \in Nat
    BY <1>2, <2>5 DEF Block
  <2> QED BY <1>2, <1>3, <2>1, <2>4, <2>6 DEF n
<1> QED BY <1>2, <1>4, <1>5

\* With no hint, an element within the promise is written without a reallocation.
LEMMA NextGrows ==
  ASSUME TypeOK, BlockInv, GrowInv, ExtendNext
  PROVE  GrowInv'
<1> SUFFICES ASSUME known = NoHint, Fits(start + lower)
             PROVE  /\ start <= vec'.len
                    /\ start + lower <= vec'.cap
                    /\ vec'.len - start <= lower => reallocs' <= 1
  BY DEF GrowInv, ExtendNext, Fits, Size, NoHint, Limit
<1>1. /\ vec \in Block /\ Exact(vec) /\ vec.len + Len(items) <= MaxLen
      /\ items \in Seq(Elem) /\ items # <<>> /\ extending
  BY DEF BlockInv, ExtendNext
<1>2. /\ vec.cap \in 0..(Limit - 1) /\ vec.cap <= vec.cap /\ vec.len \in Nat
      /\ Limit \in Nat /\ MaxLen \in Nat
      /\ start \in Nat /\ lower \in Nat /\ reallocs \in Nat
  BY <1>1, BlockAssumption DEF Block, TypeOK
<1>3. /\ start <= vec.len /\ start + lower <= vec.cap
      /\ vec.len - start <= lower => reallocs <= 1
  BY <1>1 DEF GrowInv
<1> DEFINE s == <<Head(items)>>
<1>4. s \in Seq(Elem) /\ Len(s) = 1 /\ Len(items) \in Nat \ {0}
  BY <1>1
<1>5. vec.len + 1 <= MaxLen
  BY <1>1, <1>2, <1>4
<1>6. Requested(vec.len, 1) = vec.len + 1
  BY <1>2, <1>5, RequestedExact
<1>7. KnownCap = vec.cap
  BY DEF KnownCap
<1>8. vec' = Written(Allocated(vec, vec.cap, Requested(vec.len, Len(s))), vec.len, s)
  BY <1>4, <1>7 DEF ExtendNext
<1>9. vec.len + Len(s) <= MaxLen
  BY <1>4, <1>5
<1> HIDE DEF s
<1>10. vec' \in Block /\ vec'.len = vec.len + 1 /\ vec'.cap >= vec.cap
  BY <1>1, <1>2, <1>4, <1>8, <1>9, ReserveAndWrite
<1>11. vec'.cap \in Nat
  BY <1>2, <1>10 DEF Block
<1>12. reallocs' = IF vec.cap < vec.len + 1 THEN reallocs + 1 ELSE reallocs
  BY <1>6, <1>7 DEF ExtendNext
<1>13. ASSUME vec'.len - start <= lower PROVE reallocs' <= 1
  <2>1. vec.len - start <= lower /\ vec.len + 1 <= vec.cap
    BY <1>2, <1>3, <1>10, <1>13
  <2>2. reallocs' = reallocs
    BY <1>2, <1>12, <2>1
  <2> QED BY <1>3, <2>1, <2>2
<1> QED BY <1>2, <1>3, <1>10, <1>11, <1>13

\* No step breaks the invariant of extend's reservation.
LEMMA GrowStep ==
  ASSUME TypeOK, BlockInv, GrowInv, [Next]_vars
  PROVE  GrowInv'
<1>1. CASE UNCHANGED <<extending, known, lower, start, reallocs>> /\ (extending => vec' = vec)
  BY <1>1 DEF GrowInv, Fits, Size, NoHint, Limit
<1>2. CASE ExtendLeave
  BY <1>2 DEF ExtendLeave, GrowInv
<1> QED BY <1>1, <1>2, BeginGrows, NextGrows, StepKinds

\* The types of a vector and of extend's locals, and the invariant of its block.
THEOREM VectorTypeCorrect == Spec => [](TypeOK /\ BlockInv)
<1>1. Init => TypeOK /\ BlockInv BY InitVectorType, InitBlock
<1>2. TypeOK /\ BlockInv /\ [Next]_vars => TypeOK' /\ BlockInv'
  BY VectorTypeStep, NextKeepsBlock
<1> QED BY <1>1, <1>2, PTL DEF Spec

\* An iterator that yields no more than the lower bound it gave makes extend reallocate once
\* at most, whatever the sizes, unless the caller passes a capacity that has gone out of date.
THEOREM ExtendGrowsOnce == Spec => []GrowsOnce
<1>1. Init => GrowInv BY DEF Init, GrowInv
<1>2. TypeOK /\ BlockInv /\ GrowInv /\ [Next]_vars => GrowInv' BY GrowStep
<1>3. GrowInv => GrowsOnce BY DEF GrowInv, GrowsOnce
<1> QED BY <1>1, <1>2, <1>3, VectorTypeCorrect, PTL DEF Spec

================================================================================
