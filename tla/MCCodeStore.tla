------------------------------ MODULE MCCodeStore ------------------------------
(* The code store with a writer and a few readers. *)
EXTENDS CodeStore, TLC

================================================================================
