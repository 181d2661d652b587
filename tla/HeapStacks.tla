----------------------------- MODULE HeapStacks -----------------------------
(***************************************************************************)
(* The heap as the kernel happens to use it: every thread_create() asks    *)
(* for a stack of the same size, the root directory takes at least as many *)
(* pages as the FAT and a stack at least as many as these, and there is    *)
(* memory for a stack for every client.                                    *)
(*                                                                         *)
(* Then every stack starts on a grid behind the buffers of the file        *)
(* system, in steps of its size, and the marks on single nodes are enough  *)
(* to keep the blocks apart.                                               *)
(***************************************************************************)
EXTENDS Heap

CONSTANT StackPages     \* what malloc() makes of a stack's size

FatPages == PagesFor(FatBytes)
RootPages == PagesFor(RootBytes)

ASSUME UniformStacks ==
    /\ StackPages \in Nat
    /\ 2 <= StackPages
    /\ \A bytes \in StackBytes : PagesFor(bytes) = StackPages
ASSUME BuffersSmaller ==
    /\ FatPages \in Nat
    /\ RootPages \in Nat
    /\ 1 <= FatPages
    /\ FatPages <= RootPages
    /\ RootPages <= StackPages
ASSUME EnoughMemory ==
    /\ IsFiniteSet(Client)
    /\ FatPages + RootPages + Cardinality(Client) * StackPages + StackPages - 1
           <= UserPages

-----------------------------------------------------------------------------
(* The inductive invariant *)

\* The first page behind the buffers of the file system.
Base == IF block[Root] # NoBlock THEN FatPages + RootPages
        ELSE IF block[FatBuf] # NoBlock THEN FatPages ELSE 0

Grid(k) == Base - 1 + k * StackPages

BuffersPlaced ==
    /\ block[FatBuf] # NoBlock => block[FatBuf] = [page |-> FatPages - 1, pages |-> FatPages]
    /\ block[Root] # NoBlock =>
          /\ block[FatBuf] # NoBlock
          /\ block[Root] = [page |-> FatPages + RootPages - 1, pages |-> RootPages]

StacksOnGrid ==
    \A c \in Client : block[c] # NoBlock =>
        /\ block[c].pages = StackPages
        /\ \E k \in 1 .. Cardinality(Client) : block[c].page = Grid(k)

StacksApart ==
    \A c, d \in Client : /\ c # d
                         /\ block[c] # NoBlock
                         /\ block[d] # NoBlock
                         => block[c].page # block[d].page

IInv ==
    /\ TypeOK
    /\ ~mounted => \A o \in Owner : block[o] = NoBlock
    /\ BuffersPlaced
    /\ StacksOnGrid
    /\ StacksApart
    /\ UsedIffLive
=============================================================================
