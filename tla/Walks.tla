-------------------------------- MODULE Walks --------------------------------
(***************************************************************************)
(* Following links from one place to the next: the clusters of a file, the *)
(* rounds of a loop.                                                       *)
(***************************************************************************)
EXTENDS Naturals

\* Where one is after each number of steps from x along the links F.
Walk(F, x) == LET at[k \in Nat] == IF k = 0 THEN x ELSE F[at[k - 1]] IN at
=============================================================================
