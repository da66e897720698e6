------------------------------- MODULE CodeStore -------------------------------
(***************************************************************************)
(* SwappableCodeStore of members/loomtests/src/arcstore/im.rs: a pointer   *)
(* to a counted code behind a word of flags, a lock bit and a count of the *)
(* readers who are about to load the pointer.  Readers take no lock, they  *)
(* back out when they find one.  The one writer locks only a word that is  *)
(* clear.  Every action is one atomic access.                              *)
(***************************************************************************)
EXTENDS Naturals, FiniteSets

CONSTANTS
  Reader,    \* threads that call get
  Flag,      \* PINNED and JIT
  NoGuard,
  MaxSets,   \* calls of set, by one thread: several writers are ruled out (im.rs:65)
  MaxGets,   \* calls of get by each reader
  MaxTries   \* largest bound a caller passes for the iterations of set

ASSUME CodeStoreAssumption ==
  /\ IsFiniteSet(Reader)
  /\ MaxSets \in Nat /\ MaxGets \in Nat /\ MaxTries \in Nat

Code == 0..MaxSets         \* codes, numbered in the order they are made

\* The absence of a guard is not a guard.
ASSUME NoGuardAssumption == NoGuard \notin [code : Code, flags : SUBSET Flag]

Unlimited == MaxTries + 1  \* tries is None

VARIABLES
  lock,      \* the word: LOCKED, the flags, the count of readers
  code,      \* the stored pointer
  refcount,  \* of each code
  freed,     \* codes whose box is freed
  rpc,       \* the next access of each reader
  rptr,      \* the pointer it has loaded
  rflags,    \* the flags it is given
  gets,      \* how often it has called get
  wpc,       \* the next access of the writer
  initial,   \* the word as the writer knows it
  wflags,    \* the argument of set
  left,      \* how many iterations remain
  old,       \* the pointer it has replaced
  made       \* the number of the newest code

reader == <<rpc, rptr, rflags, gets>>
writer == <<wpc, initial, wflags, left, old, made>>
vars == <<lock, code, refcount, freed, reader, writer>>

Word == [locked : BOOLEAN, flags : SUBSET Flag, readers : Nat]

TypeOK ==
  /\ lock \in Word
  /\ code \in Code
  /\ refcount \in [Code -> Nat]
  /\ freed \subseteq Code
  /\ rpc \in [Reader -> {"out", "enter", "load", "count", "leave", "guard", "back", "spin"}]
  /\ rptr \in [Reader -> Code]
  /\ rflags \in [Reader -> SUBSET Flag]
  /\ gets \in [Reader -> 0..MaxGets]
  /\ wpc \in {"out", "lock", "swap", "dec", "unlock"}
  /\ initial \in Word
  /\ wflags \subseteq Flag
  /\ left \in 0..Unlimited
  /\ old \in Code
  /\ made \in Code

Init ==
  /\ lock = [locked |-> FALSE, flags |-> {}, readers |-> 0]
  /\ code = 0
  /\ refcount = [c \in Code |-> IF c = 0 THEN 1 ELSE 0]
  /\ freed = {}
  /\ rpc = [r \in Reader |-> "out"]
  /\ rptr = [r \in Reader |-> 0]
  /\ rflags = [r \in Reader |-> {}]
  /\ gets = [r \in Reader |-> 0]
  /\ wpc = "out"
  /\ initial = lock
  /\ wflags = {}
  /\ left = 0
  /\ old = 0
  /\ made = 0

--------------------------------------------------------------------------------
(* get, and the guard it returns *)

Goto(r, step) == rpc' = [rpc EXCEPT ![r] = step]

GetBegin(r) ==
  /\ rpc[r] = "out"
  /\ gets[r] < MaxGets
  /\ gets' = [gets EXCEPT ![r] = @ + 1]
  /\ Goto(r, "enter")
  /\ UNCHANGED <<lock, code, refcount, freed, rptr, rflags, writer>>

\* Slip: a reader that finds the lock leaves its count behind.
GetEnterStay(r) ==
  /\ rpc[r] = "enter"
  /\ lock' = [lock EXCEPT !.readers = @ + 1]
  /\ Goto(r, IF lock.locked THEN "spin" ELSE "load")
  /\ UNCHANGED <<code, refcount, freed, rptr, rflags, gets, writer>>

\* Slip: a reader that finds the lock counts itself out without having counted itself in.
GetEnterUncounted(r) ==
  /\ rpc[r] = "enter"
  /\ lock' = IF lock.locked THEN lock ELSE [lock EXCEPT !.readers = @ + 1]
  /\ Goto(r, IF lock.locked THEN "back" ELSE "load")
  /\ UNCHANGED <<code, refcount, freed, rptr, rflags, gets, writer>>

\* The reader counts itself in, and was right to do so unless the word is locked.
GetEnter(r) ==
  /\ rpc[r] = "enter"
  /\ lock' = [lock EXCEPT !.readers = @ + 1]
  /\ Goto(r, IF lock.locked THEN "back" ELSE "load")
  /\ UNCHANGED <<code, refcount, freed, rptr, rflags, gets, writer>>

GetLoad(r) ==
  /\ rpc[r] = "load"
  /\ rptr' = [rptr EXCEPT ![r] = code]
  /\ Goto(r, "count")
  /\ UNCHANGED <<lock, code, refcount, freed, rflags, gets, writer>>

\* CodeGuard::new
GetCount(r) ==
  /\ rpc[r] = "count"
  /\ refcount' = [refcount EXCEPT ![rptr[r]] = @ + 1]
  /\ Goto(r, "leave")
  /\ UNCHANGED <<lock, code, freed, rptr, rflags, gets, writer>>

\* The reader counts itself out and takes the flags of the same access.
GetLeave(r) ==
  /\ rpc[r] = "leave"
  /\ lock' = [lock EXCEPT !.readers = @ - 1]
  /\ rflags' = [rflags EXCEPT ![r] = lock.flags]
  /\ Goto(r, "guard")
  /\ UNCHANGED <<code, refcount, freed, rptr, gets, writer>>

GetBack(r) ==
  /\ rpc[r] = "back"
  /\ lock' = [lock EXCEPT !.readers = @ - 1]
  /\ Goto(r, "spin")
  /\ UNCHANGED <<code, refcount, freed, rptr, rflags, gets, writer>>

\* It waits for the lock to be clear before it tries again.
GetSpin(r) ==
  /\ rpc[r] = "spin"
  /\ ~lock.locked
  /\ Goto(r, "enter")
  /\ UNCHANGED <<lock, code, refcount, freed, rptr, rflags, gets, writer>>

\* CodeGuard::dec: who brings the count to zero frees the box, and nobody else has it.
Dec(c) ==
  /\ refcount' = [refcount EXCEPT ![c] = @ - 1]
  /\ freed' = IF refcount[c] = 1 THEN freed \cup {c} ELSE freed

DropGuard(r) ==
  /\ rpc[r] = "guard"
  /\ Dec(rptr[r])
  /\ Goto(r, "out")
  /\ UNCHANGED <<lock, code, rptr, rflags, gets, writer>>

--------------------------------------------------------------------------------
(* set *)

\* The word is looked at, before the first iteration.
SetBegin(f, tries) ==
  /\ wpc = "out"
  /\ made < MaxSets
  /\ wflags' = f
  /\ left' = tries
  /\ initial' = lock
  /\ wpc' = "lock"
  /\ UNCHANGED <<lock, code, refcount, freed, reader, old, made>>

\* The iterations are used up: the data is dropped and set returns None.
SetGiveUp ==
  /\ wpc = "lock"
  /\ left = 0
  /\ wpc' = "out"
  /\ UNCHANGED <<lock, code, refcount, freed, reader, initial, wflags, left, old, made>>

\* Slip: only the count of the readers is compared.
BusyReaders(word) == word.readers > 0

\* initial & !LOCKED > 0: readers, and the flags too.
Busy(word) == word.readers > 0 \/ word.flags # {}

\* One more iteration without the lock: the word known was busy, the exchange finds
\* another one, or it fails although the word is the one known (it is a weak one).
SetRetry ==
  /\ wpc = "lock"
  /\ left > 0
  /\ left' = IF left = Unlimited THEN left ELSE left - 1
  /\ initial' = lock
  /\ UNCHANGED <<lock, code, refcount, freed, reader, wpc, wflags, old, made>>

\* Slip: the exchange leaves out the count of the readers.
SetLockAnyway ==
  /\ wpc = "lock"
  /\ left > 0
  /\ ~Busy(initial)
  /\ lock.flags = initial.flags
  /\ lock' = [lock EXCEPT !.locked = TRUE]
  /\ wpc' = "swap"
  /\ UNCHANGED <<code, refcount, freed, reader, initial, wflags, left, old, made>>

\* The weak exchange on the whole word.
SetLock ==
  /\ wpc = "lock"
  /\ left > 0
  /\ ~Busy(initial)
  /\ lock = initial
  /\ lock' = [lock EXCEPT !.locked = TRUE]
  /\ wpc' = "swap"
  /\ UNCHANGED <<code, refcount, freed, reader, initial, wflags, left, old, made>>

\* The new code is boxed with a count of one, for the store, and swapped in.
SetSwap ==
  /\ wpc = "swap"
  /\ made' = made + 1
  /\ refcount' = [refcount EXCEPT ![made'] = 1]
  /\ old' = code
  /\ code' = made'
  /\ wpc' = "dec"
  /\ UNCHANGED <<lock, freed, reader, initial, wflags, left>>

\* Slip: the store keeps its count of the code it has replaced.
SetKeep ==
  /\ wpc = "dec"
  /\ wpc' = "unlock"
  /\ UNCHANGED <<lock, code, refcount, freed, reader, initial, wflags, left, old, made>>

SetDec ==
  /\ wpc = "dec"
  /\ Dec(old)
  /\ wpc' = "unlock"
  /\ UNCHANGED <<lock, code, reader, initial, wflags, left, old, made>>

\* Slip: the update adds the flags and forgets the lock bit.
SetUnlockFlagsOnly ==
  /\ wpc = "unlock"
  /\ lock' = [lock EXCEPT !.flags = @ \cup wflags]
  /\ wpc' = "out"
  /\ UNCHANGED <<code, refcount, freed, reader, initial, wflags, left, old, made>>

\* One update of the word clears the lock bit and adds the flags.
SetUnlock ==
  /\ wpc = "unlock"
  /\ lock' = [lock EXCEPT !.locked = FALSE, !.flags = @ \cup wflags]
  /\ wpc' = "out"
  /\ UNCHANGED <<code, refcount, freed, reader, initial, wflags, left, old, made>>

--------------------------------------------------------------------------------

GetStep(r) ==
  \/ GetEnter(r) \/ GetLoad(r) \/ GetCount(r) \/ GetLeave(r)
  \/ GetBack(r) \/ GetSpin(r)

SetStep == SetGiveUp \/ SetRetry \/ SetLock \/ SetSwap \/ SetDec \/ SetUnlock

\* Everybody has called as often as the bounds allow, or never will again.
Terminated ==
  /\ \A r \in Reader : rpc[r] = "out" /\ gets[r] = MaxGets
  /\ wpc = "out" /\ made = MaxSets
  /\ UNCHANGED vars

Next ==
  \/ \E r \in Reader : GetBegin(r) \/ GetStep(r) \/ DropGuard(r)
  \/ \E f \in SUBSET Flag, tries \in 1..Unlimited : SetBegin(f, tries)
  \/ SetStep
  \/ Terminated

\* Threads go on with a get or a set they have begun. Nobody has to drop a guard.
Spec ==
  /\ Init /\ [][Next]_vars
  /\ \A r \in Reader : WF_vars(GetStep(r))
  /\ WF_vars(SetStep)

--------------------------------------------------------------------------------

\* Readers that have loaded the pointer and may still use it.
Uses(r, c) == rpc[r] \in {"count", "leave", "guard"} /\ rptr[r] = c

\* A code is never freed under a reader, be it that the reader holds a guard or that it has
\* loaded the pointer and not counted itself yet, nor while the store points to it. The
\* writer waits for the readers of the second kind only.
NoUseAfterFree ==
  /\ \A r \in Reader : \A c \in freed : ~Uses(r, c)
  /\ code \notin freed

\* The count of a code is the number of its guards, and one more for the store: a
\* replaced code is freed as soon as, and not before, its last guard is dropped.
CountsGuards ==
  \A c \in 0..made :
    LET guards == {r \in Reader : Uses(r, c) /\ rpc[r] # "count"}
        stored == c = code \/ (c = old /\ wpc = "dec")
    IN  /\ refcount[c] = Cardinality(guards) + IF stored THEN 1 ELSE 0
        /\ c \in freed <=> refcount[c] = 0

\* get and set take effect atomically between their call and their return, with the flags
\* always those of the code (the loom tests assert flags & U8_JIT with the new value).
Contract == INSTANCE CodeStoreContract WITH
  current <- IF wpc \in {"dec", "unlock"}
             THEN [code |-> old, flags |-> lock.flags]
             ELSE [code |-> code, flags |-> lock.flags],
  guard <- [r \in Reader |->
              IF rpc[r] = "guard" THEN [code |-> rptr[r], flags |-> rflags[r]]
              ELSE NoGuard]

KeepsContract == Contract!Spec

\* get returns: a reader that meets the lock is not kept out for ever.
GetReturns == \A r \in Reader : rpc[r] = "enter" ~> rpc[r] = "guard"

\* set returns when it is called before the store has a flag: the readers that come and go
\* meanwhile do not keep it from the lock for ever, as long as each calls get finitely often.
SetReturns == (wpc = "lock" /\ lock.flags = {}) ~> wpc = "out"

\* set waits for readers only (im.rs:79, "If there are readers, spin_loop"): it returns.
WaitsForReadersOnly == wpc = "lock" ~> wpc = "out"

================================================================================
