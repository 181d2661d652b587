-------------------------------- MODULE Boot --------------------------------
(***************************************************************************)
(* From nucflop to the kernel: the image is made, put on a disk, and the   *)
(* machine is started from it.  Boot sector and loader only read what the  *)
(* tool wrote, each with its own arithmetic.                               *)
(***************************************************************************)
EXTENDS NucLoad, Walks

vars == <<toolVars, bootVars, a20Vars, loadVars>>

Init == ToolInit /\ BootInit /\ A20Init /\ LoadInit

Next ==
    \/ ToolNext /\ UNCHANGED <<bootVars, a20Vars, loadVars>>
    \/ BootSectorNext /\ UNCHANGED <<toolVars, a20Vars, loadVars>>
    \/ LoadNext /\ UNCHANGED toolVars

(***************************************************************************)
(* The processor goes on: each program runs until it stops.                *)
(***************************************************************************)
Spec == Init /\ [][Next]_vars /\ WF_vars(Next)

-----------------------------------------------------------------------------

Listed == {f \in File : Entries(f) # {}}

\* The table as links; an entry that is no cluster leads nowhere.
Links == [e \in Entry |-> IF e \in Cluster THEN ReadFat(fat1, e) ELSE e]

\* How many clusters stand on a walk before it leaves the disk.
Steps(at) == CHOOSE n \in 0 .. MaxCluster :
    /\ n = MaxCluster \/ at[n] \notin Cluster
    /\ \A m \in 0 .. n - 1 : at[m] \in Cluster

\* The clusters of a file, from the one in its directory entry on.
ChainOf(f) ==
    LET at == Walk(Links, root[FirstEntry(f)].first)
    IN  [i \in 1 .. Steps(at) |-> at[i - 1]]

Members(seq) == {seq[i] : i \in DOMAIN seq}

Stages == { "off", "wild", "rom", "noloader", "root", "fat", "image", "loader", "bootsect",
            "dir", "table", "cluster", "enable", "copy", "disable", "kernel", "main", "halted" }

(***************************************************************************)
(* Types.  Every chain stays inside the disk: a cluster that is read is a  *)
(* cluster of the data area (boot_fd.asm 106-132, nucload.c 284-304), and  *)
(* both copies of the table say the same.                                  *)
(***************************************************************************)
TypeOK ==
    /\ boot \in {"blank", "formatted", "boot_fd"}
    /\ fat1 \in Table /\ fat2 = fat1
    /\ root \in [Slot -> [name : File \cup {NoName}, first : {0} \cup Cluster, size : Nat]]
    /\ fileno \in 1 .. Len(Files) + 1
    /\ stage \in Stages
    /\ tries \in 0 .. Tries
    /\ probe \in 0 .. Len(Methods) + 1
    /\ stage \in {"image", "cluster", "copy", "disable"} => cur \in Cluster

(***************************************************************************)
(* The entries of the table that are in use are the chains of the files in *)
(* the directory, and of the one being written: no cluster is lost, none   *)
(* is in two chains, although neighbours share a byte of the table; and no  *)
(* file is given up half way with a chain nobody starts, as the free space  *)
(* write_file() asks for before it begins is enough.                       *)
(***************************************************************************)
NothingLost ==
    LET used == Cluster \ FreeClusters(fat1)
        unlisted == IF tool \in {"write", "entry"}
                    THEN {c \in used : data[c] # EmptySector /\ data[c][1] = Files[fileno]} \cup
                         {c \in {cluster} : tool = "write"}
                    ELSE {}
        chains == {Members(ChainOf(f)) : f \in Listed}
    IN  /\ used \cup unlisted = (UNION chains) \cup unlisted
        /\ \A f, g \in Listed : f # g => Members(ChainOf(f)) \cap Members(ChainOf(g)) = {}
        /\ \A f \in Listed : unlisted \cap Members(ChainOf(f)) = {}

Abstract == INSTANCE FileStore WITH
    Name <- File,
    Room <- MaxCluster,
    store <- [f \in Listed |-> [i \in DOMAIN ChainOf(f) |-> data[ChainOf(f)[i]]]]

(***************************************************************************)
(* The bytes of tables, directory and data implement the store of files:   *)
(* following the chain of a listed file gives its sectors in order.        *)
(***************************************************************************)
ImplementsFileStore == Abstract!StoreSpec

(***************************************************************************)
(* A kernel that is entered is the one nucflop was given, every whole      *)
(* sector at its place above 1 MB, with the gate open and interrupts off;  *)
(* no copy has gone to low memory, whichever board it is.                  *)
(***************************************************************************)
KernelAsWritten ==
    /\ ~wrapped
    /\ stage \in {"kernel", "main"} =>
        /\ high = [i \in 1 .. InImage(root[FirstEntry(Kernel)].size) |-> <<Kernel, i>>]
        /\ Open(switches)
        /\ ~intr

\* A board on which nothing the loader knows opens the gate.
Unopenable == Opens[board.wire] = {} /\ board.bios = "refuses"

(***************************************************************************)
(* A machine started from a disk with boot sector, loader and kernel gets  *)
(* to the kernel's main(), unless a sector cannot be read five times over  *)
(* or no method opens the gate: the chains end, the loader's footer is in  *)
(* the image although nucflop drops what is left of a file after its last  *)
(* whole sector, and the search for the gate's switch ends.                *)
(***************************************************************************)
KernelReached ==
    (stage = "root" /\ Listed = File) ~>
        (stage = "main" \/ tries = 0 \/ (stage = "wild" /\ Unopenable))
=============================================================================
