--------------------------- MODULE MCAtomicFFICWaker ---------------------------
(* The waker cell with a base reference that updates and two more handles. *)
EXTENDS AtomicFFICWaker, TLC

MCUpdaters == {Base}

================================================================================
