------------------------------ MODULE NucLoad ------------------------------
(***************************************************************************)
(* nucload: finds the kernel on the disk and copies it, cluster by         *)
(* cluster, through a buffer to 1 MB, opening and shutting the gate of     *)
(* line 20 for each, then enters it.                                       *)
(***************************************************************************)
EXTENDS BootSector, A20

CONSTANTS
    Kernel,         \* NUCLEUS BIN
    Padding         \* bytes behind the loader's footer: 1024

ASSUME KernelAssumption == Kernel \in File /\ Padding \in Nat

VARIABLES
    high,       \* what has been copied to 1 MB
    wrapped,    \* a copy went to low memory
    purpose     \* what the gate is opened for: a copy or the kernel

loadVars == <<high, wrapped, purpose>>

LoadInit ==
    /\ high = <<>>
    /\ wrapped = FALSE
    /\ purpose = "copy"

\* Sectors of a file that are in the image.
InImage(size) == IF size < SectorBytes THEN 1 ELSE size \div SectorBytes

LoaderSize == root[FirstEntry(Loader)].size

\* The footer of nucload stands before its padding.
FooterPlace(size) == size - 1 - Padding

FooterLoaded == FooterPlace(LoaderSize) < Len(low) * SectorBytes

\* main(): without its footer, the loader stops; what memory holds in its place
\* may look like one.
CheckFooter ==
    /\ stage = "loader"
    /\ stage' \in IF FooterLoaded THEN {"bootsect"} ELSE {"bootsect", "halted"}
    /\ StartReading(1)
    /\ high' = <<>>
    /\ UNCHANGED <<cur, low, wrapped, purpose>>

\* The parameters of the disk, the directory and the table are read in turn.
BootSectorRead ==
    /\ stage = "bootsect"
    /\ stage' = "dir"
    /\ StartReading(RootSectors)
    /\ UNCHANGED <<cur, low>>

DirectoryRead ==
    /\ stage = "dir"
    /\ left = 1
    /\ stage' = "table"
    /\ StartReading(FatSectors)
    /\ UNCHANGED <<cur, low>>

\* FindDirEnt()
FindKernel ==
    /\ stage = "table"
    /\ left = 1
    /\ IF Entries(Kernel) = {} THEN stage' = "halted" /\ UNCHANGED cur
       ELSE stage' = "cluster" /\ cur' = root[FirstEntry(Kernel)].first
    /\ StartReading(1)
    /\ UNCHANGED low

\* ReadSectors() of all these: a sector that cannot be read stops the loader.
ReadCHS ==
    \/ stage \in {"bootsect", "dir", "table", "cluster"} /\ TrySector("halted")
    \/ stage \in {"dir", "table"} /\ NextSector
    \/ BootSectorRead
    \/ DirectoryRead
    \/ FindKernel

\* A cluster is in the buffer and goes to 1 MB: CopyToExt() opens the gate ...
ClusterRead ==
    /\ stage = "cluster"
    /\ stage' = "enable"
    /\ purpose' = "copy"
    /\ UNCHANGED <<left, tries, cur, low, high, wrapped>>

\* ... looking for a way to do it the first time.  If there is none it calls
\* through an empty vector.
EnableA20 ==
    /\ stage = "enable"
    /\ \/ NoMethodLeft /\ stage' = "wild" /\ UNCHANGED a20Vars
       \/ ~NoMethodLeft /\ a20_vec = "unset" /\ Detect /\ UNCHANGED stage
       \/ /\ a20_vec # "unset"
          /\ EnableWith(a20_vec)
          /\ stage' = purpose
          /\ UNCHANGED <<board, a20_vec, probe>>
    /\ UNCHANGED <<left, tries, cur, low>> /\ UNCHANGED loadVars

CopyToExt ==
    /\ stage = "copy"
    /\ stage' = "disable"
    /\ IF Open(switches) THEN high' = Append(high, data[cur]) /\ UNCHANGED wrapped
       ELSE wrapped' = TRUE /\ UNCHANGED high
    /\ UNCHANGED <<left, tries, cur, low, purpose>>

\* ... and shuts it.  The chain goes on with ReadFat(); only 0xFFF ends it, and
\* EnterKernel() opens the gate for good.
DisableA20 ==
    /\ stage = "disable"
    /\ DisableWith(a20_vec)
    /\ UNCHANGED <<board, a20_vec, probe>>
    /\ cur' = ReadFat(fat1, cur)
    /\ IF cur' = EndOfFile THEN stage' = "enable" /\ purpose' = "kernel"
       ELSE stage' = "cluster" /\ UNCHANGED purpose
    /\ StartReading(1)
    /\ UNCHANGED <<low, high, wrapped>>

\* __entry of the kernel calls main() once it has cleared some memory.
EnterKernel ==
    /\ stage = "kernel"
    /\ stage' = "main"
    /\ UNCHANGED <<left, tries, cur, low, high, wrapped, purpose>>

LoadNext ==
    \/ (CheckFooter \/ ClusterRead \/ CopyToExt \/ EnterKernel) /\ UNCHANGED a20Vars
    \/ ReadCHS /\ UNCHANGED loadVars /\ UNCHANGED a20Vars
    \/ EnableA20
    \/ DisableA20
=============================================================================
