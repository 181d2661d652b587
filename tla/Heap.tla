-------------------------------- MODULE Heap --------------------------------
(***************************************************************************)
(* malloc() and free() of nucleus/drivers/mem/mem.c, called one at a time: *)
(* a list with one node per page of user memory, searched first-fit.       *)
(* The callers are those the kernel has: fs_fat_init(), which keeps its    *)
(* two buffers for ever, and thread_create() and thread_destroy(), which   *)
(* get and give back stacks.  MallocLoop takes the calls apart into steps  *)
(* that can be preempted.                                                  *)
(*                                                                         *)
(* A definition without a comment that stands before another of a similar  *)
(* name is that operation with a mistake in it; the properties are tested  *)
(* against these.                                                          *)
(***************************************************************************)
EXTENDS Integers, FiniteSets

CONSTANTS
    Client,         \* those who may hold a thread stack
    UserPages,      \* mm_stat.user_pages
    PAGE_SIZE,
    StackBytes,     \* the stack sizes thread_create() asks for
    FatBytes,       \* sects_per_fat * bytes_per_sect of the disk in drive A:
    RootBytes,      \* root_entries * sizeof(struct dir_entry) of that disk
    FatBuf, Root,   \* the two pointers fs_fat_init() keeps
    NoBlock         \* a null pointer

ASSUME SizesAssumption ==
    /\ UserPages \in Nat \ {0}
    /\ PAGE_SIZE \in Nat \ {0}
    /\ StackBytes \subseteq Nat
    /\ FatBytes \in Nat
    /\ RootBytes \in Nat
ASSUME OwnersAssumption ==
    /\ FatBuf # Root
    /\ FatBuf \notin Client
    /\ Root \notin Client

Owner == Client \cup {FatBuf, Root}

SIZE == 4

\* malloc() adds SIZE and rounds up to whole pages.
PagesFor(bytes) ==
    ((bytes + SIZE) \div PAGE_SIZE) + (IF (bytes + SIZE) % PAGE_SIZE # 0 THEN 1 ELSE 0)

\* The nodes of the list.  mem_create_user() makes one more than there are pages.
Node == 0 .. UserPages

\* What an owner gets from malloc(): the page its pointer is the address of, and
\* the pages it asked for.
Block == [page : Node, pages : Nat]
ASSUME NoBlockAssumption == NoBlock \notin Block

VARIABLES
    status,     \* MEM_LIST.status: MM_FREE or MM_USED
    size,       \* MEM_LIST.size
    block,      \* what each owner has from malloc(), if anything
    mounted     \* fs_fat_init() has run

vars == <<status, size, block, mounted>>

TypeOK ==
    /\ status \in [Node -> {"FREE", "USED"}]
    /\ size \in [Node -> Nat]
    /\ block \in [Owner -> Block \cup {NoBlock}]
    /\ mounted \in BOOLEAN

\* mem_create_user().  The size of the first node is left as it was in memory;
\* no free() reads it before a malloc() has set it.
Init ==
    /\ status = [n \in Node |-> "FREE"]
    /\ size = [n \in Node |-> 0]
    /\ block = [o \in Owner |-> NoBlock]
    /\ mounted = FALSE

-----------------------------------------------------------------------------
(* malloc() and free() *)

RunEndsOneShort(st, n) ==
    {e \in Node : e + 1 >= n /\ \A i \in e - n + 2 .. e : st[i] = "FREE"}

\* The nodes where the search of malloc() can stop: st has n free nodes in a row
\* up to there.  The count does not go round the end of the list.
RunEnds(st, n) ==
    {e \in Node : e + 1 >= n /\ \A i \in e - n + 1 .. e : st[i] = "FREE"}

LastFit(st, n) ==
    CHOOSE e \in RunEnds(st, n) : \A f \in RunEnds(st, n) : e >= f

\* The node where it does stop.
FirstFit(st, n) ==
    CHOOSE e \in RunEnds(st, n) : \A f \in RunEnds(st, n) : e <= f

\* What malloc() leaves in the list when it has found node e.  The loop over
\* pages marks that one node every time; its address is returned.
MarkedStatus(st, e) == [st EXCEPT ![e] = "USED"]
MarkedSizeNotKept(sz, e, n) == sz
MarkedSize(sz, e, n) == [sz EXCEPT ![e] = n]

\* o = malloc(bytes), or the null pointer if there is no such run.
Malloc(o, bytes) ==
    LET n == PagesFor(bytes)
        e == FirstFit(status, n)
    IN  /\ RunEnds(status, n) # {}
        /\ status' = MarkedStatus(status, e)
        /\ size' = MarkedSize(size, e, n)
        /\ block' = [block EXCEPT ![o] = [page |-> e, pages |-> n]]

ClearedAfter(e, n) == {(e + i) % (UserPages + 1) : i \in 1 .. n - 1}

\* The nodes free() clears when it finds the size n at node e: one less than n,
\* going round the end of the list.
Cleared(e, n) == {(e + i) % (UserPages + 1) : i \in 0 .. n - 2}

\* What o has is given back: the pages from node e on, as many as it says.
FreeAt(o, e) ==
    LET c == Cleared(e, size[e])
    IN  /\ status' = [n \in Node |-> IF n \in c THEN "FREE" ELSE status[n]]
        /\ size' = [n \in Node |-> IF n \in c THEN 0 ELSE size[n]]
        /\ block' = [block EXCEPT ![o] = NoBlock]

\* free(block[o])
Free(o) == FreeAt(o, block[o].page)

-----------------------------------------------------------------------------
(* The callers *)

\* fs_fat_init(): no readable disk, a disk whose FAT can not be read, or both
\* buffers.  It does not look at the pointers it gets; the memory is empty then.
FatInit ==
    LET nf == PagesFor(FatBytes)
        nr == PagesFor(RootBytes)
        ef == FirstFit(status, nf)
        er == FirstFit(MarkedStatus(status, ef), nr)
    IN  /\ ~mounted
        /\ mounted' = TRUE
        /\ \/ UNCHANGED <<status, size, block>>
           \/ Malloc(FatBuf, FatBytes)
           \/ /\ RunEnds(status, nf) # {}
              /\ RunEnds(MarkedStatus(status, ef), nr) # {}
              /\ status' = MarkedStatus(MarkedStatus(status, ef), er)
              /\ size' = MarkedSize(MarkedSize(size, ef, nf), er, nr)
              /\ block' = [block EXCEPT ![FatBuf] = [page |-> ef, pages |-> nf],
                                        ![Root] = [page |-> er, pages |-> nr]]

\* thread_create() allocates a stack; it returns -1 when it gets none.
GetStack(c) ==
    /\ mounted
    /\ block[c] = NoBlock
    /\ \E bytes \in StackBytes : Malloc(c, bytes)
    /\ UNCHANGED mounted

\* thread_destroy(), or thread_create() when thread_table is full.
FreeStack(c) ==
    /\ block[c] # NoBlock
    /\ Free(c)
    /\ UNCHANGED mounted

Next == FatInit \/ \E c \in Client : GetStack(c) \/ FreeStack(c)

Spec == Init /\ [][Next]_vars

-----------------------------------------------------------------------------
(* Safety *)

Live == {o \in Owner : block[o] # NoBlock}
PagesOf(o) == block[o].page .. block[o].page + block[o].pages - 1

(***************************************************************************)
(* malloc() never hands out a page that is in a block somebody still has:  *)
(* no two stacks, and no stack and buffer of the file system, overlap.     *)
(* Not obvious, since it marks a single node per block and returns the     *)
(* address of the last page of the run it has found.                       *)
(***************************************************************************)
BlocksDisjoint ==
    \A o, p \in Live : o # p => PagesOf(o) \cap PagesOf(p) = {}

(***************************************************************************)
(* A block lies within the memory of the machine.                          *)
(***************************************************************************)
BlocksInMemory == \A o \in Live : PagesOf(o) \subseteq 0 .. UserPages - 1

(***************************************************************************)
(* A node is marked used exactly if a block somebody has starts there, and *)
(* then holds the size of that block: free() gives back all that malloc()  *)
(* took, and nothing else.                                                 *)
(***************************************************************************)
UsedIffLive ==
    /\ {e \in Node : status[e] = "USED"} = {block[o].page : o \in Live}
    /\ \A o \in Live : size[block[o].page] = block[o].pages

(***************************************************************************)
(* malloc() finds a stack for whoever has none, whatever the order in      *)
(* which stacks were got and given back: the memory does not fragment.     *)
(***************************************************************************)
StackAvailable ==
    ~(Client \subseteq Live) => \A bytes \in StackBytes : RunEnds(status, PagesFor(bytes)) # {}
=============================================================================
