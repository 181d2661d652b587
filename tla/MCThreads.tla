----------------------------- MODULE MCThreads -----------------------------
(***************************************************************************)
(* Instances of Threads for TLC.  With four entries and four blocks a      *)
(* creation can fail for want of an entry (one thread holds a fourth block *)
(* while three others own stacks) and for want of memory.                  *)
(***************************************************************************)
EXTENDS ThreadQueue

CONSTANTS b1, b2, b3, b4, kernel, none

Block4 == {b1, b2, b3, b4}
=============================================================================
