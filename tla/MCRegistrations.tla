---------------------------- MODULE MCRegistrations ----------------------------
(* A registry whose first array has one slot or two, so that it grows. *)
EXTENDS Registrations, TLC

Interchangeable == Permutations(Reg)
================================================================================
