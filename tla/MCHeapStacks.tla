---------------------------- MODULE MCHeapStacks ----------------------------
(***************************************************************************)
(* HeapStacks with the kernel's own sizes: pages of 4 KB, stacks of 128 KB *)
(* (33 pages with what malloc() adds), the FAT and the root directory of a *)
(* 1.44 MB disk (two pages each), and 256 pages of user memory, the least  *)
(* mm_init() accepts.                                                      *)
(***************************************************************************)
EXTENDS HeapStacks

CONSTANTS c1, c2, c3, c4, fatbuf, root, none

FourClients == {c1, c2, c3, c4}
=============================================================================
