------------------------------ MODULE MCContainers ------------------------------
(* The containers with words of a byte, elements of 8 bytes and a header of two words. *)
EXTENDS Containers, TLC

CONSTANTS A, C, b1, b2, b3, s1

Makers == (b1 :> A) @@ (b2 :> C) @@ (b3 :> A) @@ (s1 :> A)

\* b1 and b3 are from the same library.
Alike == Permutations({b1, b3})

================================================================================
