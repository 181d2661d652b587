---------------------------- MODULE MCMallocLoop ----------------------------
(***************************************************************************)
(* MallocLoop with pages of 64 KB, so that the smallest stack takes two of *)
(* them and the buffers of the file system one each.                       *)
(***************************************************************************)
EXTENDS MallocLoop

CONSTANTS main, t2, c1, c2, fatbuf, root, none

TwoThreads == {main, t2}
TwoClients == {c1, c2}
=============================================================================
