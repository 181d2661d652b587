------------------------------ MODULE DiskTool ------------------------------
(***************************************************************************)
(* nucflop --nucinst: the image of the boot disk is created, formatted,    *)
(* given the boot sector, and then each file is written to it cluster by   *)
(* cluster, its directory entry last.  The results of load_binary(),       *)
(* load_file() and write_file() are looked at by nobody.                   *)
(*                                                                         *)
(* A file is known by its size; sector i of file f is <<f, i>>.  A         *)
(* definition without a comment that stands before another of a similar    *)
(* name is that operation with a mistake in it; the properties are tested  *)
(* against these.                                                          *)
(***************************************************************************)
EXTENDS Fat12, Sequences, FiniteSets

CONSTANTS
    Files,          \* the files load_file() is called for, in order
    NoName,         \* the first byte of a free directory entry
    FileSizes,      \* the sizes a file may have, in bytes
    SectorBytes,    \* bytes in a sector: 512
    RootSectors,    \* sectors of the root directory: 14
    SectorEntries,  \* directory entries in a sector: 16
    SeenEntries     \* those find_dirlimit() looks at: 8

File == {Files[i] : i \in 1 .. Len(Files)}
Slot == 0 .. RootSectors * SectorEntries - 1

\* The directory entries find_dirlimit() looks at: it stops half way through a
\* sector.
Seen == {s \in Slot : s % SectorEntries < SeenEntries}

ASSUME NamesAssumption ==
    /\ Files \in Seq(File)
    /\ \A i, j \in 1 .. Len(Files) : i # j => Files[i] # Files[j]
    /\ \A i \in 1 .. Len(Files) : Files[i] # NoName
ASSUME BytesAssumption ==
    /\ FileSizes \subseteq Nat
    /\ SectorBytes \in Nat \ {0}
    /\ RootSectors \in Nat \ {0}
    /\ SectorEntries \in Nat \ {0}
    /\ SeenEntries \in 1 .. SectorEntries

\* nucflop --nucinst writes two files.
ASSUME RoomAssumption == Len(Files) <= Cardinality(Seen)

FreeSlot == [name |-> NoName, first |-> 0, size |-> 0]
EmptySector == <<>>
TornSector == <<NoName, 0>>

VARIABLES
    boot,       \* what sector 0 holds: blank, formatted, or the boot sector
    fat1, fat2, \* the two copies of the table
    root,       \* the root directory
    data,       \* what each cluster holds
    tool,       \* where nucflop is
    fileno,     \* the file it is at
    filesize,   \* size of that file
    got,        \* sectors of it in the image, with the one in the buffer
    cluster,    \* the cluster the buffer goes to
    slot,       \* where the directory entry will be written
    first,      \* the first cluster, for the directory entry
    failed      \* files write_file() gave up, with its result

imageVars == <<boot, fat1, fat2, root, data>>
writeVars == <<filesize, got, cluster, slot, first>>
toolVars == <<boot, fat1, fat2, root, data, tool, fileno, filesize, got, cluster, slot, first, failed>>

ToolInit ==
    /\ boot = "blank"
    /\ fat1 = [a \in Address |-> 0]
    /\ fat2 = [a \in Address |-> 0]
    /\ root = [s \in Slot |-> FreeSlot]
    /\ data = [c \in Cluster |-> EmptySector]
    /\ tool = "format"
    /\ fileno = 1
    /\ filesize = 0
    /\ got = 0
    /\ cluster = 0
    /\ slot = 0
    /\ first = 0
    /\ failed = {}

\* The bytes of a table that stand for no cluster: media byte and two more.
Reserved(t) == [t EXCEPT ![0] = 240, ![1] = 255, ![2] = 255]

\* format_disk() writes the parameters of the disk, the signature the BIOS
\* looks for and the head of both tables.
FormatDisk ==
    /\ tool = "format"
    /\ boot' = "formatted"
    /\ fat1' = Reserved(fat1)
    /\ fat2' = Reserved(fat2)
    /\ tool' = "boot"
    /\ UNCHANGED <<root, data, fileno, failed>> /\ UNCHANGED writeVars

\* load_binary() of boot_fd.bin, which may not be there.
LoadBootSector ==
    /\ tool = "boot"
    /\ \E found \in BOOLEAN : boot' = IF found THEN "boot_fd" ELSE boot
    /\ tool' = "open"
    /\ UNCHANGED <<fat1, fat2, root, data, fileno, failed>> /\ UNCHANGED writeVars

\* The next file, after one that was written or given up with a result.
NextFile(result) ==
    /\ fileno' = fileno + 1
    /\ tool' = IF fileno = Len(Files) THEN "save" ELSE "open"
    /\ failed' = IF result = "written" THEN failed ELSE failed \cup {<<Files[fileno], result>>}

get_disk_free(t) == Cardinality(FreeClusters(t))

FirstFree(t) == CHOOSE c \in FreeClusters(t) : \A d \in FreeClusters(t) : c <= d

get_free_cluster(t) == IF FreeClusters(t) = {} THEN -1 ELSE FirstFree(t)

SeenAny == Seen

\* The free ones of them.
SeenFree == {s \in Seen : root[s] = FreeSlot}

\* find_dirlimit(): when it finds none it returns the entry behind the end.
DirectoryFull == RootSectors * SectorEntries
find_dirlimit == IF SeenFree = {} THEN DirectoryFull
                 ELSE CHOOSE s \in SeenFree : \A r \in SeenFree : s <= r

\* write_file() keeps one sector more than the file needs.
EnoughUnchecked(size) == TRUE
Enough(size) == get_disk_free(fat1) * SectorBytes >= size + SectorBytes

\* load_file() finds no file, write_file() finds no room, or the first sector
\* of the file is read into the buffer.
OpenFile ==
    /\ tool = "open"
    /\ \/ NextFile("missing") /\ UNCHANGED writeVars
       \/ \E size \in FileSizes :
            \/ ~Enough(size) /\ NextFile("no room") /\ UNCHANGED writeVars
            \/ /\ Enough(size)
               /\ filesize' = size
               /\ got' = 1
               /\ cluster' = get_free_cluster(fat1)
               /\ first' = cluster'
               /\ slot' = find_dirlimit
               /\ tool' = "write"
               /\ UNCHANGED <<fileno, failed>>
    /\ UNCHANGED imageVars

\* fread() of a whole sector: what is left of the file after the last whole one
\* is not written.
MoreToRead(n) == (n + 1) * SectorBytes <= filesize

\* The chain with the cluster just written, ended.
Ended == write_fatentry(fat1, fat2, cluster, EndOfFile)

\* A round of the loop of write_file(): the buffer goes to its cluster, the cluster
\* becomes the last one, and if there is more to read the next free cluster is
\* linked to it.
WriteCluster ==
    /\ tool = "write"
    /\ data' = [data EXCEPT ![cluster] = <<Files[fileno], got>>]
    /\ LET c == get_free_cluster(Ended[1])
           linked == write_fatentry(Ended[1], Ended[2], cluster, c)
       IN  IF MoreToRead(got) /\ c # -1
           THEN /\ fat1' = linked[1]
                /\ fat2' = linked[2]
                /\ got' = got + 1
                /\ cluster' = c
                /\ UNCHANGED <<tool, fileno, failed>>
           ELSE /\ fat1' = Ended[1]
                /\ fat2' = Ended[2]
                /\ IF MoreToRead(got) THEN NextFile("ran out")
                   ELSE tool' = "entry" /\ UNCHANGED <<fileno, failed>>
                /\ UNCHANGED <<got, cluster>>
    /\ UNCHANGED <<boot, root, filesize, slot, first>>

\* write_dirent(), which a full directory sends into the first cluster.
WriteEntry ==
    /\ tool = "entry"
    /\ IF slot \in Slot
       THEN /\ root' = [root EXCEPT ![slot] =
                   [name |-> Files[fileno], first |-> first, size |-> filesize]]
            /\ UNCHANGED data
       ELSE /\ data' = [data EXCEPT ![2] = TornSector]
            /\ UNCHANGED root
    /\ NextFile("written")
    /\ UNCHANGED <<boot, fat1, fat2>> /\ UNCHANGED writeVars

\* save_image()
SaveImage ==
    /\ tool = "save"
    /\ tool' = "saved"
    /\ UNCHANGED <<boot, fat1, fat2, root, data, fileno, failed>> /\ UNCHANGED writeVars

ToolNext == FormatDisk \/ LoadBootSector \/ OpenFile \/ WriteCluster \/ WriteEntry \/ SaveImage
=============================================================================
