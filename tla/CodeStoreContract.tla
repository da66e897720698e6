--------------------------- MODULE CodeStoreContract ---------------------------
(***************************************************************************)
(* What SwappableCodeStore (members/loomtests/src/arcstore/im.rs) promises *)
(* its users: get is atomic, and returns a code together with the flags it *)
(* was set with; set is atomic, every set brings a newer code, and a code  *)
(* that was set with flags is final.  A guard keeps its code.              *)
(***************************************************************************)
EXTENDS Naturals

CONSTANTS
  Reader,   \* threads that get codes
  Flag,     \* PINNED and JIT
  NoGuard

VARIABLES
  current,  \* the stored code, numbered in the order they are set, and its flags
  guard     \* what each reader's guard holds

vars == <<current, guard>>

Init ==
  /\ current = [code |-> 0, flags |-> {}]
  /\ guard = [r \in Reader |-> NoGuard]

Get(r) ==
  /\ guard[r] = NoGuard
  /\ guard' = [guard EXCEPT ![r] = current]
  /\ UNCHANGED current

Release(r) ==
  /\ guard[r] # NoGuard
  /\ guard' = [guard EXCEPT ![r] = NoGuard]
  /\ UNCHANGED current

Set(f) ==
  /\ current.flags = {}
  /\ current' = [code |-> current.code + 1, flags |-> f]
  /\ UNCHANGED guard

Next ==
  \/ \E r \in Reader : Get(r) \/ Release(r)
  \/ \E f \in SUBSET Flag : Set(f)

Spec == Init /\ [][Next]_vars

================================================================================
