--------------------------- MODULE MCKernelStart ---------------------------
(***************************************************************************)
(* Machines of 8 to 12 MB, at, just below and just above multiples of 4 MB *)
(* and of the least that is accepted, and one of nearly 4 GB; with and     *)
(* without a drive and a disk.  A kernel whose text ends with a page, and  *)
(* one, large enough to leave too few user pages of 8 MB, whose text does  *)
(* not.                                                                    *)
(***************************************************************************)
EXTENDS KernelStart

Machine(ram, wraps, ide, floppy) == [ram |-> ram, wraps |-> wraps, ide |-> ide, floppy |-> floppy]

Machines ==
    {Machine(ram, wraps, TRUE, "disk") : ram \in {120, 128, 129, 191, 192}, wraps \in BOOLEAN}
    \cup {Machine(192, FALSE, ide, floppy) : ide \in BOOLEAN, floppy \in {"none", "empty", "disk"}}
    \cup {Machine(65535, FALSE, TRUE, "disk")}

Linked == { [text |-> 1150976, bss |-> 1224704],
            [text |-> 1153000, bss |-> 7330000] }
=============================================================================
