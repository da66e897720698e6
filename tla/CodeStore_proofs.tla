---------------------------- MODULE CodeStore_proofs ----------------------------
(* Proofs about the code store, for every number of readers, flags and calls. *)
EXTENDS CodeStore, FiniteSetTheorems, TLAPS

\* Readers that the word counts.
Entered == {r \in Reader : rpc[r] \in {"load", "count", "leave", "back"}}

\* Readers that the count of each code stands for.
Guards == [c \in Code |-> {r \in Reader : rpc[r] \in {"leave", "guard"} /\ rptr[r] = c}]

\* Codes that the store has a count of: the one it points to, and the one it has replaced
\* until it gives that count up.
Stored == {c \in Code : c = code \/ (c = old /\ wpc = "dec")}

\* The lock bit is the writer's, who waited until nobody had entered: readers that enter
\* later find it and go back. It is never taken after the first flag.
LockInv ==
  /\ lock.readers = Cardinality(Entered)
  /\ lock.locked <=> wpc \in {"swap", "dec", "unlock"}
  /\ lock.locked => /\ lock.flags = {}
                    /\ \A r \in Reader : rpc[r] \notin {"load", "count", "leave"}

\* Codes are numbered in order. A reader that has entered has the stored one.
CodeInv ==
  /\ code = made
  /\ wpc \in {"lock", "swap"} => made < MaxSets
  /\ wpc \in {"dec", "unlock"} => code = old + 1
  /\ \A r \in Reader : rptr[r] <= made
  /\ \A r \in Reader : rpc[r] \in {"count", "leave"} => rptr[r] = code

\* The count of every code, made or not, and when it is freed.
CountInv ==
  /\ \A c \in Code : refcount[c] = Cardinality(Guards[c]) + IF c \in Stored THEN 1 ELSE 0
  /\ \A c \in Code : c \in freed <=> c <= made /\ refcount[c] = 0

StoreInv == TypeOK /\ LockInv /\ CodeInv /\ CountInv

--------------------------------------------------------------------------------
(* The sets that are counted *)

InWord == {"load", "count", "leave", "back"}
InCode == {"leave", "guard"}

\* What a reader's move does to the readers that the word counts.
LEMMA EnteredMoves ==
  ASSUME TypeOK, NEW r \in Reader, NEW step, Goto(r, step)
  PROVE  /\ Cardinality(Entered) \in Nat
         /\ (rpc[r] \in InWord <=> step \in InWord) => Cardinality(Entered') = Cardinality(Entered)
         /\ rpc[r] \notin InWord /\ step \in InWord
              => Cardinality(Entered') = Cardinality(Entered) + 1
         /\ rpc[r] \in InWord /\ step \notin InWord
              => Cardinality(Entered') = Cardinality(Entered) - 1 /\ Cardinality(Entered) > 0
<1>1. IsFiniteSet(Entered)
  BY CodeStoreAssumption, FS_Subset DEF Entered
<1>2. Cardinality(Entered) \in Nat
  BY <1>1, FS_CardinalityType
<1>3. ASSUME rpc[r] \in InWord <=> step \in InWord
      PROVE  Entered' = Entered
  BY <1>3 DEF TypeOK, Goto, Entered, InWord
<1>4. ASSUME rpc[r] \notin InWord, step \in InWord
      PROVE  Cardinality(Entered') = Cardinality(Entered) + 1
  <2>1. Entered' = Entered \cup {r} /\ r \notin Entered
    BY <1>4 DEF TypeOK, Goto, Entered, InWord
  <2>2. QED
    BY <2>1, <1>1, FS_AddElement
<1>5. ASSUME rpc[r] \in InWord, step \notin InWord
      PROVE  Cardinality(Entered') = Cardinality(Entered) - 1 /\ Cardinality(Entered) > 0
  <2>1. Entered' = Entered \ {r} /\ r \in Entered
    BY <1>5 DEF TypeOK, Goto, Entered, InWord
  <2>2. Cardinality(Entered) # 0
    BY <2>1, <1>1, FS_EmptySet
  <2>3. QED
    BY <2>1, <2>2, <1>1, <1>2, FS_RemoveElement
<1>6. QED
  BY <1>2, <1>3, <1>4, <1>5

\* The guards of a code are finitely many.
LEMMA GuardsFinite ==
  \A c \in Code : IsFiniteSet(Guards[c]) /\ Cardinality(Guards[c]) \in Nat
BY CodeStoreAssumption, FS_Subset, FS_CardinalityType DEF Guards

\* What a reader's move does to the guards of every code while it keeps its pointer.
LEMMA GuardsMove ==
  ASSUME TypeOK, NEW r \in Reader, NEW step, Goto(r, step), rptr' = rptr, NEW c \in Code
  PROVE  /\ (rpc[r] \in InCode <=> step \in InCode) \/ rptr[r] # c => Guards'[c] = Guards[c]
         /\ rpc[r] \notin InCode /\ step \in InCode /\ rptr[r] = c
              => Cardinality(Guards'[c]) = Cardinality(Guards[c]) + 1
         /\ rpc[r] \in InCode /\ step \notin InCode /\ rptr[r] = c
              => Cardinality(Guards'[c]) = Cardinality(Guards[c]) - 1 /\ Cardinality(Guards[c]) > 0
<1>1. ASSUME (rpc[r] \in InCode <=> step \in InCode) \/ rptr[r] # c
      PROVE  Guards'[c] = Guards[c]
  BY <1>1 DEF TypeOK, Goto, Guards, InCode
<1>2. ASSUME rpc[r] \notin InCode, step \in InCode, rptr[r] = c
      PROVE  Cardinality(Guards'[c]) = Cardinality(Guards[c]) + 1
  <2>1. Guards'[c] = Guards[c] \cup {r} /\ r \notin Guards[c]
    BY <1>2 DEF TypeOK, Goto, Guards, InCode
  <2>2. QED
    BY <2>1, GuardsFinite, FS_AddElement
<1>3. ASSUME rpc[r] \in InCode, step \notin InCode, rptr[r] = c
      PROVE  Cardinality(Guards'[c]) = Cardinality(Guards[c]) - 1 /\ Cardinality(Guards[c]) > 0
  <2>1. Guards'[c] = Guards[c] \ {r} /\ r \in Guards[c]
    BY <1>3 DEF TypeOK, Goto, Guards, InCode
  <2>2. IsFiniteSet(Guards[c]) /\ Cardinality(Guards[c]) \in Nat
    BY GuardsFinite
  <2>3. Cardinality(Guards[c]) # 0
    BY <2>1, <2>2, FS_EmptySet
  <2>4. Cardinality(Guards[c] \ {r}) = Cardinality(Guards[c]) - 1
    BY <2>1, <2>2, FS_RemoveElement
  <2>5. QED
    BY <2>1, <2>2, <2>3, <2>4
<1>4. QED
  BY <1>1, <1>2, <1>3

--------------------------------------------------------------------------------
(* Type correctness *)

\* A count that is given up is there to be given up.
LEMMA CountsArePositive ==
  ASSUME StoreInv
  PROVE  /\ \A r \in Reader : rpc[r] \in {"leave", "back"} => lock.readers > 0
         /\ \A r \in Reader : rpc[r] \in InCode => refcount[rptr[r]] > 0
         /\ wpc = "dec" => refcount[old] > 0
<1> USE DEF StoreInv
<1>1. ASSUME NEW r \in Reader, rpc[r] \in {"leave", "back"}
      PROVE  lock.readers > 0
  <2>1. IsFiniteSet(Entered) /\ r \in Entered
    BY <1>1, CodeStoreAssumption, FS_Subset DEF Entered
  <2>2. Cardinality(Entered) \in Nat /\ Cardinality(Entered) # 0
    BY <2>1, FS_CardinalityType, FS_EmptySet
  <2>3. QED
    BY <2>2 DEF LockInv
<1>2. ASSUME NEW r \in Reader, rpc[r] \in InCode
      PROVE  refcount[rptr[r]] > 0
  <2>1. rptr[r] \in Code
    BY DEF TypeOK
  <2>2. r \in Guards[rptr[r]]
    BY <1>2, <2>1 DEF Guards, InCode
  <2>3. IsFiniteSet(Guards[rptr[r]]) /\ Guards[rptr[r]] # {}
    BY <2>1, <2>2, GuardsFinite
  <2>4. Cardinality(Guards[rptr[r]]) # 0
    BY <2>3, FS_EmptySet
  <2>5. QED
    BY <2>1, <2>4, GuardsFinite DEF CountInv
<1>3. ASSUME wpc = "dec"
      PROVE  refcount[old] > 0
  <2>1. old \in Stored /\ old \in Code
    BY <1>3 DEF Stored, TypeOK
  <2>2. QED
    BY <2>1, GuardsFinite DEF CountInv
<1>4. QED
  BY <1>1, <1>2, <1>3

\* Init satisfies the type invariant.
LEMMA InitType == Init => TypeOK
BY CodeStoreAssumption DEF Init, TypeOK, Word, Code, Unlimited

\* The type invariant survives every step.
LEMMA TypeStep ==
  ASSUME StoreInv, [Next]_vars
  PROVE  TypeOK'
<1> USE DEF StoreInv, TypeOK
<1>1. \A word \in Word : \A n \in Nat : [word EXCEPT !.readers = n] \in Word
  BY DEF Word
<1>2. lock.readers + 1 \in Nat /\ (lock.readers > 0 => lock.readers - 1 \in Nat)
  BY DEF Word
<1>3. \A c \in Code : refcount[c] > 0 => refcount[c] - 1 \in Nat
  OBVIOUS
<1>4. ASSUME NEW r \in Reader, GetBegin(r)
      PROVE  TypeOK'
  BY <1>4, CodeStoreAssumption DEF GetBegin, Goto, reader, writer
<1>5. ASSUME NEW r \in Reader, GetEnter(r)
      PROVE  TypeOK'
  BY <1>5, <1>1, <1>2 DEF GetEnter, Goto, reader, writer
<1>6. ASSUME NEW r \in Reader, GetLoad(r)
      PROVE  TypeOK'
  BY <1>6 DEF GetLoad, Goto, reader, writer
<1>7. ASSUME NEW r \in Reader, GetCount(r)
      PROVE  TypeOK'
  BY <1>7 DEF GetCount, Goto, reader, writer
<1>8. ASSUME NEW r \in Reader, GetLeave(r)
      PROVE  TypeOK'
  <2>1. lock' \in Word
    BY <1>8, <1>1, <1>2, CountsArePositive DEF GetLeave
  <2>2. lock.flags \subseteq Flag
    BY DEF Word
  <2>3. QED
    BY <1>8, <2>1, <2>2 DEF GetLeave, Goto, reader, writer
<1>9. ASSUME NEW r \in Reader, GetBack(r)
      PROVE  TypeOK'
  <2>1. lock' \in Word
    BY <1>9, <1>1, <1>2, CountsArePositive DEF GetBack
  <2>2. QED
    BY <1>9, <2>1 DEF GetBack, Goto, reader, writer
<1>10. ASSUME NEW r \in Reader, GetSpin(r)
       PROVE  TypeOK'
  BY <1>10 DEF GetSpin, Goto, reader, writer
<1>11. ASSUME NEW r \in Reader, DropGuard(r)
       PROVE  TypeOK'
  <2>1. refcount[rptr[r]] > 0
    BY <1>11, CountsArePositive DEF DropGuard, InCode
  <2>2. QED
    BY <1>11, <2>1, <1>3 DEF DropGuard, Dec, Goto, reader, writer
<1>12. ASSUME NEW f \in SUBSET Flag, NEW tries \in 1..Unlimited, SetBegin(f, tries)
       PROVE  TypeOK'
  BY <1>12, CodeStoreAssumption DEF SetBegin, reader, writer, Unlimited
<1>13. CASE SetGiveUp
  BY <1>13 DEF SetGiveUp, reader, writer
<1>14. CASE SetRetry
  BY <1>14, CodeStoreAssumption DEF SetRetry, reader, writer, Unlimited
<1>15. CASE SetLock
  BY <1>15 DEF SetLock, reader, writer, Word
<1>16. CASE SetSwap
  <2>1. made' \in Code
    BY <1>16, CodeStoreAssumption DEF SetSwap, CodeInv, Code
  <2>2. QED
    BY <1>16, <2>1 DEF SetSwap, reader, writer
<1>17. CASE SetDec
  BY <1>17, <1>3, CountsArePositive DEF SetDec, Dec, reader, writer
<1>18. CASE SetUnlock
  BY <1>18 DEF SetUnlock, reader, writer, Word
<1>19. CASE UNCHANGED vars
  BY <1>19 DEF vars, reader, writer
<1>20. QED
  BY <1>4, <1>5, <1>6, <1>7, <1>8, <1>9, <1>10, <1>11, <1>12, <1>13, <1>14, <1>15, <1>16,
     <1>17, <1>18, <1>19
     DEF Next, GetStep, SetStep, Terminated

--------------------------------------------------------------------------------
(* Readers and the lock *)

\* The lock is taken only while no reader has entered, and a reader that enters while it
\* is taken goes back.
LEMMA LockStep ==
  ASSUME StoreInv, [Next]_vars
  PROVE  LockInv'
<1> USE DEF StoreInv, TypeOK
<1>1. lock.readers = Cardinality(Entered) /\ Cardinality(Entered) \in Nat
  BY CodeStoreAssumption, FS_Subset, FS_CardinalityType DEF LockInv, Entered
<1>2. ASSUME NEW r \in Reader, NEW step, Goto(r, step), wpc' = wpc,
             lock'.locked = lock.locked, lock'.flags = lock.flags,
             lock'.readers = Cardinality(Entered'),
             lock.locked => step \notin {"load", "count", "leave"}
      PROVE  LockInv'
  BY <1>2 DEF LockInv, Goto
<1>3. ASSUME NEW r \in Reader, NEW step, Goto(r, step), wpc' = wpc, lock' = lock,
             rpc[r] \in InWord <=> step \in InWord,
             lock.locked => step \notin {"load", "count", "leave"}
      PROVE  LockInv'
  BY <1>1, <1>2, <1>3, EnteredMoves
<1>4. ASSUME UNCHANGED <<lock, rpc>>, wpc' \in {"swap", "dec", "unlock"} <=> wpc \in {"swap", "dec", "unlock"}
      PROVE  LockInv'
  BY <1>4 DEF LockInv, Entered
<1>5. ASSUME NEW r \in Reader, GetBegin(r)
      PROVE  LockInv'
  BY <1>5, <1>3 DEF GetBegin, writer, InWord
<1>6. ASSUME NEW r \in Reader, GetEnter(r)
      PROVE  LockInv'
  <2>1. /\ lock'.readers = lock.readers + 1
        /\ lock'.locked = lock.locked /\ lock'.flags = lock.flags
    BY <1>6 DEF GetEnter, Word
  <2>2. PICK step \in {"back", "load"} : Goto(r, step) /\ (lock.locked => step = "back")
    BY <1>6 DEF GetEnter
  <2>3. Cardinality(Entered') = Cardinality(Entered) + 1
    BY <1>6, <2>2, EnteredMoves DEF GetEnter, InWord
  <2>4. wpc' = wpc
    BY <1>6 DEF GetEnter, writer
  <2>5. QED
    BY <1>1, <1>2, <2>1, <2>2, <2>3, <2>4
<1>7. ASSUME NEW r \in Reader, GetLoad(r) \/ GetCount(r)
      PROVE  LockInv'
  <2>1. ~lock.locked /\ wpc' = wpc /\ lock' = lock
    BY <1>7 DEF GetLoad, GetCount, writer, LockInv
  <2>2. PICK step \in {"count", "leave"} : Goto(r, step)
    BY <1>7 DEF GetLoad, GetCount
  <2>3. rpc[r] \in InWord
    BY <1>7 DEF GetLoad, GetCount, InWord
  <2>4. QED
    BY <1>3, <2>1, <2>2, <2>3 DEF InWord
<1>8. ASSUME NEW r \in Reader, GetLeave(r) \/ GetBack(r)
      PROVE  LockInv'
  <2>1. /\ lock'.readers = lock.readers - 1
        /\ lock'.locked = lock.locked /\ lock'.flags = lock.flags
    BY <1>8 DEF GetLeave, GetBack, Word
  <2>2. PICK step \in {"guard", "spin"} : Goto(r, step)
    BY <1>8 DEF GetLeave, GetBack
  <2>3. Cardinality(Entered') = Cardinality(Entered) - 1
    BY <1>8, <2>2, EnteredMoves DEF GetLeave, GetBack, InWord
  <2>4. wpc' = wpc
    BY <1>8 DEF GetLeave, GetBack, writer
  <2>5. QED
    BY <1>1, <1>2, <2>1, <2>2, <2>3, <2>4
<1>9. ASSUME NEW r \in Reader, GetSpin(r)
      PROVE  LockInv'
  BY <1>9, <1>3 DEF GetSpin, writer, InWord
<1>10. ASSUME NEW r \in Reader, DropGuard(r)
       PROVE  LockInv'
  BY <1>10, <1>3 DEF DropGuard, writer, InWord
<1>11. ASSUME NEW f \in SUBSET Flag, NEW tries \in 1..Unlimited, SetBegin(f, tries)
       PROVE  LockInv'
  BY <1>11, <1>4 DEF SetBegin, reader
<1>12. CASE SetGiveUp \/ SetRetry \/ SetSwap \/ SetDec
  BY <1>12, <1>4 DEF SetGiveUp, SetRetry, SetSwap, SetDec, reader
<1>13. CASE SetLock
  <2>1. lock'.readers = lock.readers /\ lock'.locked /\ lock'.flags = lock.flags
    BY <1>13 DEF SetLock, Word
  <2>2. lock.readers = 0 /\ lock.flags = {}
    BY <1>13, <1>1 DEF SetLock, Busy
  <2>3. Entered = {}
    BY <1>1, <2>2, CodeStoreAssumption, FS_Subset, FS_EmptySet DEF Entered
  <2>4. rpc' = rpc /\ wpc' = "swap"
    BY <1>13 DEF SetLock, reader
  <2>5. Entered' = Entered
    BY <2>4 DEF Entered
  <2>6. QED
    BY <1>1, <2>1, <2>2, <2>3, <2>4, <2>5 DEF LockInv, Entered
<1>14. CASE SetUnlock
  <2>1. lock'.readers = lock.readers /\ ~lock'.locked
    BY <1>14 DEF SetUnlock, Word
  <2>2. rpc' = rpc /\ wpc' = "out"
    BY <1>14 DEF SetUnlock, reader
  <2>3. Entered' = Entered
    BY <2>2 DEF Entered
  <2>4. QED
    BY <1>1, <2>1, <2>2, <2>3 DEF LockInv
<1>15. CASE UNCHANGED vars
  BY <1>15, <1>4 DEF vars, reader, writer
<1>16. QED
  BY <1>5, <1>6, <1>7, <1>8, <1>9, <1>10, <1>11, <1>12, <1>13, <1>14, <1>15
     DEF Next, GetStep, SetStep, Terminated

--------------------------------------------------------------------------------
(* The stored code *)

\* A code is replaced only while no reader has it without having counted itself.
LEMMA CodeStep ==
  ASSUME StoreInv, [Next]_vars
  PROVE  CodeInv'
<1> USE DEF StoreInv, TypeOK
<1>1. ASSUME NEW r \in Reader, NEW step, Goto(r, step), UNCHANGED <<code, rptr, writer>>,
             step \in {"count", "leave"} => rpc[r] \in {"count", "leave"}
      PROVE  CodeInv'
  BY <1>1 DEF CodeInv, Goto, writer
<1>2. ASSUME NEW r \in Reader, GetBegin(r) \/ GetEnter(r) \/ GetCount(r) \/ GetLeave(r)
                                 \/ GetBack(r) \/ GetSpin(r) \/ DropGuard(r)
      PROVE  CodeInv'
  <2>1. UNCHANGED <<code, rptr, writer>>
    BY <1>2 DEF GetBegin, GetEnter, GetCount, GetLeave, GetBack, GetSpin, DropGuard
  <2>2. PICK step : Goto(r, step) /\ (step \in {"count", "leave"} => rpc[r] \in {"count", "leave"})
    BY <1>2 DEF GetBegin, GetEnter, GetCount, GetLeave, GetBack, GetSpin, DropGuard
  <2>3. QED
    BY <1>1, <2>1, <2>2
<1>3. ASSUME NEW r \in Reader, GetLoad(r)
      PROVE  CodeInv'
  BY <1>3 DEF GetLoad, Goto, CodeInv, Code, writer
<1>4. ASSUME NEW f \in SUBSET Flag, NEW tries \in 1..Unlimited, SetBegin(f, tries)
      PROVE  CodeInv'
  BY <1>4 DEF SetBegin, CodeInv, reader
<1>5. CASE SetGiveUp \/ SetRetry \/ SetLock \/ SetDec \/ SetUnlock
  BY <1>5 DEF SetGiveUp, SetRetry, SetLock, SetDec, SetUnlock, CodeInv, reader
<1>6. CASE SetSwap
  <2>1. lock.locked
    BY <1>6 DEF SetSwap, LockInv
  <2>2. \A r \in Reader : rpc[r] \notin {"count", "leave"}
    BY <2>1 DEF LockInv
  <2>3. code' = code + 1 /\ old' = code /\ made' = code' /\ wpc' = "dec"
    BY <1>6 DEF SetSwap, CodeInv
  <2>4. \A r \in Reader : rptr[r] \in Nat /\ rptr[r] <= code /\ code \in Nat
    BY DEF Code, CodeInv
  <2>5. QED
    BY <1>6, <2>2, <2>3, <2>4 DEF SetSwap, reader, CodeInv
<1>7. CASE UNCHANGED vars
  BY <1>7 DEF vars, reader, writer, CodeInv
<1>8. QED
  BY <1>2, <1>3, <1>4, <1>5, <1>6, <1>7 DEF Next, GetStep, SetStep, Terminated

--------------------------------------------------------------------------------
(* Reference counts *)

\* One count of one code is given up: the code is freed when it was the last.
LEMMA DecCounts ==
  ASSUME StoreInv, NEW c \in Code, Dec(c), c <= made, made' = made,
         refcount[c] > 0,
         \A b \in Code : b # c => Guards'[b] = Guards[b] /\ (b \in Stored' <=> b \in Stored),
         Cardinality(Guards'[c]) + (IF c \in Stored' THEN 1 ELSE 0)
           = Cardinality(Guards[c]) + (IF c \in Stored THEN 1 ELSE 0) - 1
  PROVE  CountInv'
<1>1. \A b \in Code : /\ refcount'[b] = IF b = c THEN refcount[b] - 1 ELSE refcount[b]
                      /\ refcount[b] \in Nat
  BY DEF Dec, StoreInv, TypeOK
<1>2. \A b \in Code : refcount'[b] = Cardinality(Guards'[b]) + IF b \in Stored' THEN 1 ELSE 0
  <2>1. refcount'[c] = Cardinality(Guards'[c]) + IF c \in Stored' THEN 1 ELSE 0
    BY <1>1, GuardsFinite DEF StoreInv, CountInv
  <2>2. ASSUME NEW b \in Code, b # c
        PROVE  refcount'[b] = Cardinality(Guards'[b]) + IF b \in Stored' THEN 1 ELSE 0
    BY <1>1, <2>2 DEF StoreInv, CountInv
  <2>3. QED
    BY <2>1, <2>2
<1>3. \A b \in Code : b \in freed' <=> b \in freed \/ (b = c /\ refcount[c] = 1)
  BY DEF Dec
<1>4. \A b \in Code : b \in freed' <=> b <= made' /\ refcount'[b] = 0
  BY <1>1, <1>3 DEF StoreInv, CountInv
<1>5. QED
  BY <1>2, <1>4 DEF CountInv

\* The count of every code stays what its guards and the store account for.
LEMMA CountStep ==
  ASSUME StoreInv, [Next]_vars
  PROVE  CountInv'
<1> USE DEF StoreInv, TypeOK
<1>1. ASSUME UNCHANGED <<refcount, freed, made>>,
             \A c \in Code : Guards'[c] = Guards[c] /\ (c \in Stored' <=> c \in Stored)
      PROVE  CountInv'
  BY <1>1 DEF CountInv
<1>2. ASSUME UNCHANGED <<code, writer>>
      PROVE  made' = made /\ \A c \in Code : c \in Stored' <=> c \in Stored
  BY <1>2 DEF writer, Stored
<1>3. ASSUME UNCHANGED reader
      PROVE  \A c \in Code : Guards'[c] = Guards[c]
  BY <1>3 DEF reader, Guards
<1>4. ASSUME NEW r \in Reader, GetBegin(r) \/ GetEnter(r) \/ GetLeave(r) \/ GetBack(r) \/ GetSpin(r)
      PROVE  CountInv'
  <2>1. PICK step : Goto(r, step) /\ (rpc[r] \in InCode <=> step \in InCode)
    BY <1>4 DEF GetBegin, GetEnter, GetLeave, GetBack, GetSpin, InCode
  <2>2. UNCHANGED <<code, refcount, freed, rptr, writer>>
    BY <1>4 DEF GetBegin, GetEnter, GetLeave, GetBack, GetSpin
  <2>3. QED
    BY <1>1, <1>2, <2>1, <2>2, GuardsMove
<1>5. ASSUME NEW r \in Reader, GetLoad(r)
      PROVE  CountInv'
  <2>1. \A c \in Code : Guards'[c] = Guards[c]
    BY <1>5 DEF GetLoad, Goto, Guards
  <2>2. QED
    BY <1>1, <1>2, <1>5, <2>1 DEF GetLoad
<1>6. ASSUME NEW r \in Reader, GetCount(r)
      PROVE  CountInv'
  <2>1. /\ rptr[r] \in Code /\ rptr[r] = code /\ code = made
        /\ Goto(r, "leave") /\ rptr' = rptr
    BY <1>6 DEF GetCount, CodeInv
  <2>2. made' = made /\ \A c \in Code : c \in Stored' <=> c \in Stored
    BY <1>2, <1>6 DEF GetCount
  <2>3. Cardinality(Guards'[code]) = Cardinality(Guards[code]) + 1
    BY <1>6, <2>1, GuardsMove DEF GetCount, InCode
  <2>4. \A c \in Code : c # code => Guards'[c] = Guards[c]
    BY <2>1, GuardsMove
  <2>5. /\ freed' = freed
        /\ \A c \in Code : refcount'[c] = IF c = code THEN refcount[c] + 1 ELSE refcount[c]
    BY <1>6, <2>1 DEF GetCount
  <2>6. refcount[code] > 0 /\ refcount[code] = Cardinality(Guards[code]) + 1
    BY GuardsFinite DEF CountInv, Stored
  <2>7. \A c \in Code : refcount'[c] = Cardinality(Guards'[c]) + IF c \in Stored' THEN 1 ELSE 0
    <3>1. code \in Stored
      BY DEF Stored
    <3>2. refcount'[code] = Cardinality(Guards'[code]) + IF code \in Stored' THEN 1 ELSE 0
      BY <2>2, <2>3, <2>5, <2>6, <3>1, GuardsFinite
    <3>3. QED
      BY <2>2, <2>4, <2>5, <3>2 DEF CountInv
  <2>8. \A c \in Code : c \in freed' <=> c <= made' /\ refcount'[c] = 0
    BY <2>2, <2>5, <2>6 DEF CountInv
  <2>9. QED
    BY <2>7, <2>8 DEF CountInv
<1>7. ASSUME NEW r \in Reader, DropGuard(r)
      PROVE  CountInv'
  <2>1. /\ rptr[r] \in Code /\ rptr[r] <= made /\ Dec(rptr[r])
        /\ Goto(r, "out") /\ rptr' = rptr
    BY <1>7 DEF DropGuard, CodeInv
  <2>2. made' = made /\ \A c \in Code : c \in Stored' <=> c \in Stored
    BY <1>2, <1>7 DEF DropGuard
  <2>3. Cardinality(Guards'[rptr[r]]) = Cardinality(Guards[rptr[r]]) - 1
    BY <1>7, <2>1, GuardsMove DEF DropGuard, InCode
  <2>4. \A c \in Code : c # rptr[r] => Guards'[c] = Guards[c]
    BY <2>1, GuardsMove
  <2>5. refcount[rptr[r]] > 0
    BY <1>7, CountsArePositive DEF DropGuard, InCode
  <2>6. Cardinality(Guards'[rptr[r]]) + (IF rptr[r] \in Stored' THEN 1 ELSE 0)
          = Cardinality(Guards[rptr[r]]) + (IF rptr[r] \in Stored THEN 1 ELSE 0) - 1
    BY <2>1, <2>2, <2>3, GuardsFinite
  <2>7. QED
    BY <2>1, <2>2, <2>4, <2>5, <2>6, DecCounts
<1>8. ASSUME NEW f \in SUBSET Flag, NEW tries \in 1..Unlimited, SetBegin(f, tries)
      PROVE  CountInv'
  BY <1>1, <1>3, <1>8 DEF SetBegin, Stored
<1>9. CASE SetGiveUp \/ SetRetry \/ SetLock \/ SetUnlock
  BY <1>1, <1>3, <1>9 DEF SetGiveUp, SetRetry, SetLock, SetUnlock, Stored
<1>10. CASE SetSwap
  <2>1. /\ made' = made + 1 /\ code' = made' /\ old' = code /\ wpc' = "dec"
        /\ freed' = freed /\ UNCHANGED reader
        /\ refcount' = [refcount EXCEPT ![made'] = 1]
    BY <1>10 DEF SetSwap
  <2>2. made \in Nat /\ made' \in Code /\ code = made
    BY <1>10, <2>1, CodeStoreAssumption DEF SetSwap, CodeInv, Code
  <2>3. \A c \in Code : Guards'[c] = Guards[c]
    BY <1>3, <2>1
  <2>4. Guards[made'] = {}
    <3>1. \A r \in Reader : rptr[r] \in Nat /\ rptr[r] <= made
      BY DEF CodeInv, Code
    <3>2. QED
      BY <2>1, <2>2, <3>1 DEF Guards
  <2>5. Cardinality(Guards[made']) = 0
    BY <2>4, FS_EmptySet
  <2>6. made' \in Stored' /\ \A c \in Code : c # made' => (c \in Stored' <=> c \in Stored)
    BY <1>10, <2>1, <2>2 DEF Stored, SetSwap
  <2>7. \A c \in Code : refcount'[c] = IF c = made' THEN 1 ELSE refcount[c]
    BY <2>1, <2>2
  <2>8. \A c \in Code : refcount'[c] = Cardinality(Guards'[c]) + IF c \in Stored' THEN 1 ELSE 0
    <3>1. refcount'[made'] = Cardinality(Guards[made']) + 1
      BY <2>2, <2>5, <2>7
    <3>2. \A c \in Code : c # made' => refcount'[c] = Cardinality(Guards[c]) + IF c \in Stored THEN 1 ELSE 0
      BY <2>7 DEF CountInv
    <3>3. QED
      BY <2>3, <2>6, <3>1, <3>2, <2>2, <2>1 DEF Stored
  <2>9. \A c \in Code : c \in freed' <=> c <= made' /\ refcount'[c] = 0
    BY <2>1, <2>2, <2>7 DEF CountInv, Code
  <2>10. QED
    BY <2>8, <2>9 DEF CountInv
<1>11. CASE SetDec
  <2>1. /\ Dec(old) /\ old \in Code /\ old <= made /\ made' = made
        /\ wpc = "dec" /\ wpc' = "unlock" /\ UNCHANGED <<code, reader, old>>
    BY <1>11 DEF SetDec, CodeInv, Code
  <2>2. old # code
    BY <2>1 DEF CodeInv, Code
  <2>3. \A c \in Code : Guards'[c] = Guards[c]
    BY <1>3, <2>1
  <2>4. old \in Stored /\ old \notin Stored' /\ \A c \in Code : c # old => (c \in Stored' <=> c \in Stored)
    BY <2>1, <2>2 DEF Stored
  <2>5. refcount[old] > 0
    BY <2>1, CountsArePositive
  <2>6. Cardinality(Guards'[old]) + (IF old \in Stored' THEN 1 ELSE 0)
          = Cardinality(Guards[old]) + (IF old \in Stored THEN 1 ELSE 0) - 1
    BY <2>1, <2>3, <2>4, GuardsFinite
  <2>7. QED
    BY <2>1, <2>3, <2>4, <2>5, <2>6, DecCounts
<1>12. CASE UNCHANGED vars
  BY <1>1, <1>2, <1>3, <1>12 DEF vars
<1>13. QED
  BY <1>4, <1>5, <1>6, <1>7, <1>8, <1>9, <1>10, <1>11, <1>12 DEF Next, GetStep, SetStep, Terminated

--------------------------------------------------------------------------------
(* Invariants *)

\* The store starts with one code, its own count and no reader.
LEMMA InitStore == Init => StoreInv
<1> SUFFICES ASSUME Init PROVE StoreInv
  OBVIOUS
<1>1. TypeOK
  BY InitType
<1>2. Entered = {} /\ Cardinality({}) = 0
  BY FS_EmptySet DEF Init, Entered
<1>3. \A c \in Code : Guards[c] = {} /\ (c \in Stored <=> c = 0)
  BY DEF Init, Guards, Stored
<1>4. LockInv
  BY <1>2 DEF Init, LockInv
<1>5. CodeInv
  BY DEF Init, CodeInv
<1>6. CountInv
  <2>1. freed = {} /\ made = 0 /\ \A c \in Code : refcount[c] = IF c = 0 THEN 1 ELSE 0
    BY DEF Init
  <2>2. \A c \in Code : refcount[c] = Cardinality(Guards[c]) + IF c \in Stored THEN 1 ELSE 0
    BY <1>2, <1>3, <2>1
  <2>3. \A c \in Code : c \in freed <=> c <= made /\ refcount[c] = 0
    BY <2>1, CodeStoreAssumption DEF Code
  <2>4. QED
    BY <2>2, <2>3 DEF CountInv
<1>7. QED
  BY <1>1, <1>4, <1>5, <1>6 DEF StoreInv

\* The invariant holds in every reachable state.
LEMMA StoreAlways == Spec => []StoreInv
<1>1. StoreInv /\ [Next]_vars => StoreInv'
  BY TypeStep, LockStep, CodeStep, CountStep DEF StoreInv
<1>2. QED
  BY <1>1, InitStore, PTL DEF Spec

\* The word, the counts and the pointers of the store (arcstore/im.rs) keep their types: no
\* count of readers or guards is ever brought below zero.
THEOREM TypeCorrect == Spec => []TypeOK
<1>1. StoreInv => TypeOK
  BY DEF StoreInv
<1>2. QED
  BY <1>1, StoreAlways, PTL

\* The count of every code (CodeInner::references) is that of its guards and of the store,
\* and the code is freed when it reaches zero, neither before nor later.
THEOREM GuardsAreCounted == Spec => []CountsGuards
<1>1. StoreInv => CountsGuards
  <2> SUFFICES ASSUME StoreInv, NEW c \in 0..made
               PROVE  LET guards == {r \in Reader : Uses(r, c) /\ rpc[r] # "count"}
                          stored == c = code \/ (c = old /\ wpc = "dec")
                      IN  /\ refcount[c] = Cardinality(guards) + IF stored THEN 1 ELSE 0
                          /\ c \in freed <=> refcount[c] = 0
    BY DEF CountsGuards
  <2>1. c \in Code /\ c <= made
    BY CodeStoreAssumption DEF StoreInv, TypeOK, Code
  <2>2. {r \in Reader : Uses(r, c) /\ rpc[r] # "count"} = Guards[c]
    BY <2>1 DEF Uses, Guards
  <2>3. c \in Stored <=> c = code \/ (c = old /\ wpc = "dec")
    BY <2>1 DEF Stored
  <2>4. /\ refcount[c] = Cardinality(Guards[c]) + IF c \in Stored THEN 1 ELSE 0
        /\ c \in freed <=> refcount[c] = 0
    BY <2>1 DEF StoreInv, CountInv
  <2>5. QED
    BY <2>2, <2>3, <2>4
<1>2. QED
  BY <1>1, StoreAlways, PTL

\* get never returns, nor uses on its way, a code that set or the last guard has freed,
\* although a reader takes no lock between its load of the pointer and its count.
THEOREM ReadersAreSafe == Spec => []NoUseAfterFree
<1>1. StoreInv => NoUseAfterFree
  <2> SUFFICES ASSUME StoreInv PROVE NoUseAfterFree
    OBVIOUS
  <2> USE DEF StoreInv, TypeOK
  <2>1. code \in Stored /\ code \in Code
    BY DEF Stored
  <2>2. code \notin freed
    BY <2>1, GuardsFinite DEF CountInv
  <2>3. ASSUME NEW r \in Reader, NEW c \in freed, Uses(r, c)
        PROVE  FALSE
    <3>1. c \in Code /\ refcount[c] = 0 /\ rptr[r] = c
      BY <2>3 DEF CountInv, Uses
    <3>2. CASE rpc[r] = "count"
      BY <2>2, <2>3, <3>1, <3>2 DEF CodeInv
    <3>3. CASE rpc[r] \in InCode
      BY <3>1, <3>3, CountsArePositive
    <3>4. QED
      BY <2>3, <3>2, <3>3 DEF Uses, InCode
  <2>4. QED
    BY <2>2, <2>3 DEF NoUseAfterFree
<1>2. QED
  BY <1>1, StoreAlways, PTL

--------------------------------------------------------------------------------
(* The contract *)

\* The code and the flags that users see: those of the replaced code until set unlocks.
Current ==
  IF wpc \in {"dec", "unlock"} THEN [code |-> old, flags |-> lock.flags]
  ELSE [code |-> code, flags |-> lock.flags]

\* What the guard of each reader holds.
Held == [r \in Reader |->
           IF rpc[r] = "guard" THEN [code |-> rptr[r], flags |-> rflags[r]] ELSE NoGuard]

\* The contract's actions, in terms of these.
LEMMA ContractMapping ==
  /\ Contract!Init <=> Current = [code |-> 0, flags |-> {}] /\ Held = [r \in Reader |-> NoGuard]
  /\ \A r \in Reader :
       /\ Contract!Get(r) <=> /\ Held[r] = NoGuard
                              /\ Held' = [Held EXCEPT ![r] = Current]
                              /\ Current' = Current
       /\ Contract!Release(r) <=> /\ Held[r] # NoGuard
                                  /\ Held' = [Held EXCEPT ![r] = NoGuard]
                                  /\ Current' = Current
  /\ \A f \in SUBSET Flag :
       Contract!Set(f) <=> /\ Current.flags = {}
                           /\ Current' = [code |-> Current.code + 1, flags |-> f]
                           /\ Held' = Held
  /\ UNCHANGED Contract!vars <=> Current' = Current /\ Held' = Held
<1>1. Contract!Init <=> Current = [code |-> 0, flags |-> {}] /\ Held = [r \in Reader |-> NoGuard]
  BY DEF Current, Held, Contract!Init
<1>2. ASSUME NEW r \in Reader
      PROVE  Contract!Get(r) <=> /\ Held[r] = NoGuard
                                 /\ Held' = [Held EXCEPT ![r] = Current]
                                 /\ Current' = Current
  BY DEF Current, Held, Contract!Get
<1>3. ASSUME NEW r \in Reader
      PROVE  Contract!Release(r) <=> /\ Held[r] # NoGuard
                                     /\ Held' = [Held EXCEPT ![r] = NoGuard]
                                     /\ Current' = Current
  BY DEF Current, Held, Contract!Release
<1>4. ASSUME NEW f \in SUBSET Flag
      PROVE  Contract!Set(f) <=> /\ Current.flags = {}
                                 /\ Current' = [code |-> Current.code + 1, flags |-> f]
                                 /\ Held' = Held
  BY DEF Current, Held, Contract!Set
<1>5. UNCHANGED Contract!vars <=> Current' = Current /\ Held' = Held
  BY DEF Current, Held, Contract!vars
<1>6. QED
  BY <1>1, <1>2, <1>3, <1>4, <1>5

\* Every access is a step of the contract or none at all: get takes effect where the reader
\* counts itself out, set where it unlocks the word.
LEMMA ContractStep ==
  ASSUME StoreInv, [Next]_vars
  PROVE  [Contract!Next]_(Contract!vars)
<1> USE DEF StoreInv, TypeOK
<1>1. ASSUME Current' = Current, Held' = Held
      PROVE  [Contract!Next]_(Contract!vars)
  BY <1>1, ContractMapping
<1>2. ASSUME UNCHANGED <<lock, code, old>>,
             wpc' \in {"dec", "unlock"} <=> wpc \in {"dec", "unlock"}
      PROVE  Current' = Current
  BY <1>2 DEF Current
<1>3. ASSUME UNCHANGED <<code, old, wpc>>, lock'.flags = lock.flags
      PROVE  Current' = Current
  BY <1>3 DEF Current
<1>4. ASSUME UNCHANGED reader
      PROVE  Held' = Held
  BY <1>4 DEF reader, Held
<1>5. ASSUME NEW r \in Reader, NEW step, Goto(r, step), UNCHANGED rflags,
             rpc[r] # "guard", step # "guard", \A q \in Reader : q # r => rptr'[q] = rptr[q]
      PROVE  Held' = Held
  BY <1>5 DEF Held, Goto
<1>6. ASSUME NEW r \in Reader, GetBegin(r) \/ GetEnter(r) \/ GetLoad(r) \/ GetCount(r)
                                 \/ GetBack(r) \/ GetSpin(r)
      PROVE  [Contract!Next]_(Contract!vars)
  <2>1. Current' = Current
    <3>1. lock'.flags = lock.flags
      BY <1>6 DEF GetBegin, GetEnter, GetLoad, GetCount, GetBack, GetSpin, Word
    <3>2. UNCHANGED <<code, old, wpc>>
      BY <1>6 DEF GetBegin, GetEnter, GetLoad, GetCount, GetBack, GetSpin, writer
    <3>3. QED
      BY <1>3, <3>1, <3>2
  <2>2. Held' = Held
    <3>1. PICK step : Goto(r, step) /\ step # "guard"
      BY <1>6 DEF GetBegin, GetEnter, GetLoad, GetCount, GetBack, GetSpin
    <3>2. /\ UNCHANGED rflags /\ rpc[r] # "guard"
          /\ \A q \in Reader : q # r => rptr'[q] = rptr[q]
      BY <1>6 DEF GetBegin, GetEnter, GetLoad, GetCount, GetBack, GetSpin
    <3>3. QED
      BY <1>5, <3>1, <3>2
  <2>3. QED
    BY <1>1, <2>1, <2>2
<1>7. ASSUME NEW r \in Reader, GetLeave(r)
      PROVE  Contract!Get(r)
  <2>1. ~lock.locked /\ wpc \notin {"dec", "unlock"} /\ rptr[r] = code
    BY <1>7 DEF GetLeave, LockInv, CodeInv
  <2>2. lock'.flags = lock.flags /\ UNCHANGED <<code, old, wpc>>
    BY <1>7 DEF GetLeave, Word, writer
  <2>3. Current' = Current
    BY <1>3, <2>2
  <2>4. Held[r] = NoGuard
    BY <1>7 DEF GetLeave, Held
  <2>5. Current = [code |-> rptr[r], flags |-> lock.flags]
    BY <2>1 DEF Current
  <2>6. ASSUME NEW q \in Reader
        PROVE  Held'[q] = IF q = r THEN Current ELSE Held[q]
    BY <1>7, <2>5 DEF GetLeave, Goto, Held
  <2>7. Held' = [Held EXCEPT ![r] = Current]
    BY <2>6 DEF Held
  <2>8. QED
    BY <2>3, <2>4, <2>7, ContractMapping
<1>8. ASSUME NEW r \in Reader, DropGuard(r)
      PROVE  Contract!Release(r)
  <2>1. Current' = Current
    BY <1>2, <1>8 DEF DropGuard, writer
  <2>2. Held[r] = [code |-> rptr[r], flags |-> rflags[r]]
    BY <1>8 DEF DropGuard, Held
  <2>3. Held[r] # NoGuard
    BY <2>2, NoGuardAssumption
  <2>4. ASSUME NEW q \in Reader
        PROVE  Held'[q] = IF q = r THEN NoGuard ELSE Held[q]
    BY <1>8 DEF DropGuard, Goto, Held
  <2>5. Held' = [Held EXCEPT ![r] = NoGuard]
    BY <2>4 DEF Held
  <2>6. QED
    BY <2>1, <2>3, <2>5, ContractMapping
<1>9. ASSUME NEW f \in SUBSET Flag, NEW tries \in 1..Unlimited, SetBegin(f, tries)
      PROVE  [Contract!Next]_(Contract!vars)
  BY <1>1, <1>2, <1>4, <1>9 DEF SetBegin
<1>10. CASE SetGiveUp \/ SetRetry \/ SetDec
  BY <1>1, <1>2, <1>4, <1>10 DEF SetGiveUp, SetRetry, SetDec
<1>11. CASE SetLock
  <2>1. lock'.flags = lock.flags
    BY <1>11 DEF SetLock, Word
  <2>2. Current' = Current /\ Held' = Held
    BY <1>4, <1>11, <2>1 DEF SetLock, Current
  <2>3. QED
    BY <1>1, <2>2
<1>12. CASE SetSwap
  BY <1>1, <1>4, <1>12 DEF SetSwap, Current
<1>13. CASE SetUnlock
  <2>1. wpc = "unlock" /\ wpc' = "out" /\ UNCHANGED <<code, old, reader>>
    BY <1>13 DEF SetUnlock
  <2>2. lock.flags = {} /\ code = old + 1
    BY <2>1 DEF LockInv, CodeInv
  <2>3. lock'.flags = wflags
    BY <1>13, <2>2 DEF SetUnlock, Word
  <2>4. Current = [code |-> old, flags |-> {}] /\ Current' = [code |-> old + 1, flags |-> wflags]
    BY <2>1, <2>2, <2>3 DEF Current
  <2>5. Held' = Held
    BY <1>4, <2>1
  <2>6. wflags \in SUBSET Flag
    OBVIOUS
  <2>7. Contract!Set(wflags)
    BY <2>4, <2>5, <2>6, ContractMapping
  <2>8. QED
    BY <2>6, <2>7 DEF Contract!Next
<1>14. CASE UNCHANGED vars
  BY <1>1, <1>2, <1>4, <1>14 DEF vars, writer
<1>15. QED
  BY <1>6, <1>7, <1>8, <1>9, <1>10, <1>11, <1>12, <1>13, <1>14
     DEF Next, GetStep, SetStep, Terminated, Contract!Next

\* get and set of the store (arcstore/im.rs) are atomic, and a reader never has a code with
\* the flags of another one, although code and flags are two words and get takes no lock.
THEOREM StoreIsAtomic == Spec => KeepsContract
<1>1. Init => Contract!Init
  <2> SUFFICES ASSUME Init PROVE Contract!Init
    OBVIOUS
  <2>1. Current = [code |-> 0, flags |-> {}] /\ Held = [r \in Reader |-> NoGuard]
    BY DEF Init, Current, Held
  <2>2. QED
    BY <2>1, ContractMapping
<1>2. StoreInv /\ [Next]_vars => [Contract!Next]_(Contract!vars)
  BY ContractStep
<1>3. QED
  BY <1>1, <1>2, StoreAlways, PTL DEF Spec, KeepsContract, Contract!Spec

================================================================================
