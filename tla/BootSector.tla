----------------------------- MODULE BootSector -----------------------------
(***************************************************************************)
(* nucboot/boot_fd.asm: the boot sector looks nucload up in the root       *)
(* directory, loads the table, and follows the chain of nucload to 0:0500. *)
(* Every sector is read with up to five tries.                             *)
(***************************************************************************)
EXTENDS DiskTool

CONSTANTS
    Loader,         \* NUCLOAD SYS
    FatSectors,     \* sectors of one copy of the table: 9
    Tries           \* tries for a sector: 5

ASSUME LoaderAssumption ==
    /\ Loader \in File
    /\ FatSectors \in Nat \ {0}
    /\ Tries \in Nat \ {0}

VARIABLES
    stage,      \* where the machine is between power-on and the kernel
    left,       \* sectors still to be read of what is being read
    tries,      \* tries left for the sector
    cur,        \* the cluster to be read
    low         \* what has been loaded at 0:0500

bootVars == <<stage, left, tries, cur, low>>

BootInit ==
    /\ stage = "off"
    /\ left = 0
    /\ tries = Tries
    /\ cur = 0
    /\ low = <<>>

\* Reading n sectors begins.
StartReading(n) == left' = n /\ tries' = Tries

\* The BIOS starts what sector 0 holds.  An image that was only formatted has
\* no program in it.
PowerOn ==
    /\ stage = "off"
    /\ tool = "saved"
    /\ IF boot = "boot_fd" THEN stage' = "root" ELSE stage' = "wild"
    /\ low' = <<>>
    /\ StartReading(RootSectors)
    /\ UNCHANGED cur

TryForEver(gaveup) ==
    /\ tries' = IF tries = 1 THEN Tries ELSE tries - 1
    /\ UNCHANGED <<stage, left, cur, low>>

\* A try that fails; the fifth gives up with int 18h.  The loader's own routine
\* has the same number of tries.
TrySector(gaveup) ==
    /\ tries' = tries - 1
    /\ stage' = IF tries = 1 THEN gaveup ELSE stage
    /\ UNCHANGED <<left, cur, low>>

\* One more sector of several; each has its tries.
NextSector ==
    /\ left > 1
    /\ StartReading(left - 1)
    /\ UNCHANGED <<stage, cur, low>>

\* The first of all entries with that name, free ones passed over.
Entries(name) == {s \in Slot : root[s].name = name}
FirstEntry(name) == CHOOSE s \in Entries(name) : \A r \in Entries(name) : s <= r

\* The root directory is in memory.
BrowseRoot ==
    /\ stage = "root"
    /\ left = 1
    /\ IF Entries(Loader) = {}
       THEN stage' = "noloader" /\ UNCHANGED <<cur, left, tries>>
       ELSE /\ stage' = "fat"
            /\ cur' = root[FirstEntry(Loader)].first
            /\ StartReading(2 * FatSectors)
    /\ UNCHANGED low

\* Both copies of the table are in memory.
FatLoaded ==
    /\ stage = "fat"
    /\ left = 1
    /\ stage' = "image"
    /\ StartReading(1)
    /\ UNCHANGED <<cur, low>>

\* LOAD_IMAGE: a cluster is in memory; the next one, or the end of the chain.
LoadImage ==
    /\ stage = "image"
    /\ low' = Append(low, data[cur])
    /\ cur' = NextCluster(fat1, cur)
    /\ stage' = IF cur' < 4080 THEN "image" ELSE "loader"
    /\ StartReading(1)

\* FAILURE: after a key the machine is started again.
Reboot ==
    /\ stage = "noloader"
    /\ stage' = "off"
    /\ UNCHANGED <<left, tries, cur, low>>

BootSectorNext ==
    \/ PowerOn
    \/ stage \in {"root", "fat", "image"} /\ TrySector("rom")
    \/ stage \in {"root", "fat"} /\ NextSector
    \/ BrowseRoot
    \/ FatLoaded
    \/ LoadImage
    \/ Reboot
=============================================================================
