------------------------------ MODULE MCFloppy ------------------------------
(***************************************************************************)
(* Floppy for model checking: two disks of 1.44 MB and one of 1.68 MB; the *)
(* blocks are the boot sector and a sector of the next cylinder.           *)
(***************************************************************************)
EXTENDS Floppy

CONSTANTS a, b, c

DiskSectorsABC == [d \in {a, b, c} |-> IF d = c THEN 21 ELSE 18]
Blocks == {0, 65}
=============================================================================
