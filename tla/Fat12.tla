------------------------------- MODULE Fat12 -------------------------------
(***************************************************************************)
(* The file allocation table of a 1.44 MB disk, byte by byte, as the four  *)
(* programs that touch it see it: nucflop, which writes it, and the boot   *)
(* sector, the loader nucload and the kernel, which read it.  Two entries  *)
(* of 12 bits share three bytes.                                           *)
(***************************************************************************)
EXTENDS Integers

CONSTANT MaxCluster     \* the last cluster nucflop looks at: 2848

\* From 4080 on an entry is no cluster.
ASSUME MaxClusterAssumption == MaxCluster \in Nat /\ MaxCluster >= 2 /\ MaxCluster < 4080

Cluster == 2 .. MaxCluster
Byte == 0 .. 255
Word == 0 .. 65535
Entry == 0 .. 4095

EndOfFile == 4095

Address == 0 .. ((MaxCluster * 3) \div 2) + 1
Table == [Address -> Byte]

\* RDIMG16(): the word at a byte address.
WordAt(t, a) == t[a] + 256 * t[a + 1]

\* The half of a word that is the entry of cluster c.
EntryIn(w, c) == IF c % 2 = 1 THEN w \div 16 ELSE w % 4096

\* nucflop computes (cluster * 3) / 2, the readers cluster + cluster / 2.
OffsetOf(c) == (c * 3) \div 2
ReaderOffset(c) == c + (c \div 2)

\* get_disk_free() and get_free_cluster()
FatEntry(t, c) == EntryIn(WordAt(t, OffsetOf(c)), c)

\* ReadFat() of nucload
ReadFat(t, c) == EntryIn(WordAt(t, ReaderOffset(c)), c)

\* LOAD_IMAGE of the boot sector
NextCluster(t, c) == EntryIn(WordAt(t, ReaderOffset(c)), c)

\* get_fat_entry() of the kernel
get_fat_entry(t, c) == EntryIn(WordAt(t, ReaderOffset(c)), c)

NewWordUnmasked(w, c, new) == IF c % 2 = 1 THEN 16 * new ELSE new

\* The word write_fatentry() stores: newentry << 4 loses what a word cannot hold.
NewWord(w, c, new) ==
    IF c % 2 = 1 THEN ((16 * new) % 65536) + (w % 16) ELSE (new % 4096) + 4096 * (w \div 4096)

StoreWord(t, a, w) == [t EXCEPT ![a] = w % 256, ![a + 1] = w \div 256]

\* write_fatentry(): the word is read from the first copy of the table and
\* stored in both.
write_fatentry(t1, t2, c, new) ==
    LET w == NewWord(WordAt(t1, OffsetOf(c)), c, new)
    IN  <<StoreWord(t1, OffsetOf(c), w), StoreWord(t2, OffsetOf(c), w)>>

FreeClusters(t) == {c \in Cluster : FatEntry(t, c) = 0}

-----------------------------------------------------------------------------
(* The sector a cluster is found in.  Sector 0 is the boot sector, then     *)
(* come two tables of nine sectors and fourteen sectors of root directory.  *)

\* write_cluster() of nucflop
WrittenTo(c) == c + 31

\* FirstSectorOfCluster() of nucflop: the directory's sectors are rounded up
\* twice, and cluster 3 is taken for the first.
FirstSectorOfCluster(c) ==
    LET bytes == 224 * 32 + 511
        RootDirSectors == (bytes \div 512) + (IF bytes % 512 # 0 THEN 1 ELSE 0)
    IN  1 + 2 * 9 + RootDirSectors + (c - 3)

\* ClusterLBA of the boot sector: datasector is where the directory ends.
ClusterLBA(c) == (c - 2) + (2 * 9 + 1 + (32 * 224) \div 512)

\* ReadCluster() of nucload, which computes the size of a table from the
\* number of sectors of the disk.
LoaderSector(c) ==
    LET nFatBytes == 2880 + (2880 \div 2)
        nFatSects == (nFatBytes + 512 - 1) \div 512
    IN  (c - 2) + (1 + 2 * nFatSects + (32 * 224) \div 512)

\* fs_fat_init() and _fat_fread() of the kernel
KernelSector(c) == (c - 2) + (1 + 2 * 9 + (224 * 32) \div 512)
=============================================================================
