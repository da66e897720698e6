------------------------------ MODULE MCFFIFuture ------------------------------
(* The future with two sources, or one, and executor wakers whose addresses recur. *)
EXTENDS FFIFuture, TLC

Interchangeable == Permutations(Ctx) \cup Permutations(Addr) \cup Permutations(CWaker)

================================================================================
