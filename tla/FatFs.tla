------------------------------- MODULE FatFs -------------------------------
(***************************************************************************)
(* nucleus/drivers/fs/fat.c, the kernel's reader of FAT disks: mounting    *)
(* the disk in drive A:, searching its root directory with wildcards, and  *)
(* reading files through handles.  Its clients, main() and the shell, call *)
(* it one at a time.  What is on the disk does not change; the entries of  *)
(* the table are unpacked here, Fat12 has them byte by byte.               *)
(*                                                                         *)
(* A definition without a comment that stands before another of a similar  *)
(* name is that operation with a mistake in it.                            *)
(***************************************************************************)
EXTENDS Wildcmp, FiniteSets

CONSTANTS
    Char,           \* of names and patterns
    Disks,          \* root directories a disk may have, as sequences of entries
    Garbage,        \* what memory may hold in place of one
    FirstCluster,   \* the cluster each name starts at, 0 for an empty file
    Table,          \* the file allocation table
    GarbageTables,  \* what memory may hold in place of it
    Wilds,          \* what clients search for
    Names,          \* what they open
    Counts,         \* sectors asked for in a call
    FatStart, FatSectors, RootSectors,  \* where table and directory are
    CylinderSectors,                    \* sectors of both sides of a track
    MAX_OPEN_FILES, \* one more than there can be open files
    MaxErrors,      \* bound on failed reads
    MaxOpens,       \* bound on files opened
    MaxGot          \* bound on the sectors read before a call

ASSUME FatFsAssumption ==
    /\ {FatStart, FatSectors, RootSectors, MaxErrors, MaxOpens, MaxGot} \subseteq Nat
    /\ {CylinderSectors, MAX_OPEN_FILES} \subseteq Nat \ {0}
    /\ Counts \subseteq Nat \ {0}
    /\ FatStart + 2 * FatSectors + RootSectors < CylinderSectors

Null == <<>>
NoFile == 255           \* 0xFF of findfirst() and findnext()
NotFound == -1
ReadError == -2
NoFreeHandle == -16

Entries == [kind : {"file", "deleted", "long", "free"}, base : Seq(Char), ext : Seq(Char)]

Entry(base, ext) == [kind |-> "file", base |-> base, ext |-> ext]

\* The name as it is compared: a dot, whether or not there is an extension.
FileName(e) == e.base \o <<".">> \o e.ext

\* What directories hold and clients search for; a disk has every name once.
ASSUME DirectoryAssumption ==
    /\ "." \in Char /\ Nul \notin Char
    /\ Disks \cup Garbage \subseteq Seq(Entries)
    /\ Wilds \cup Names \subseteq Seq(Char)
    /\ \A d \in Disks : \A i, j \in DOMAIN d :
          d[i].kind = "file" /\ d[j].kind = "file" /\ FileName(d[i]) = FileName(d[j]) => i = j

fat_end == 4088

\* The clusters that belong to a file.
Used == {c \in DOMAIN Table \ {0, 1} : Table[c] # 0}

\* Each leads to another, or is the last; entry 0 is the media byte.
ASSUME TableAssumption ==
    /\ 0 \in DOMAIN Table /\ DOMAIN Table \subseteq 0 .. fat_end - 1
    /\ GarbageTables \cup {Table} \subseteq [DOMAIN Table -> 0 .. 4095]
    /\ \A c \in Used \cup {0} : Table[c] \in Used \/ Table[c] \notin DOMAIN Table
    /\ \A name \in DOMAIN FirstCluster : FirstCluster[name] \in Used \cup {0}
    /\ \A d \in Disks \cup Garbage : \A i \in DOMAIN d :
          d[i].kind = "file" => FileName(d[i]) \in DOMAIN FirstCluster

VARIABLES
    disk,           \* the directory of the disk in the drive
    said,           \* what fs_fat_init() has printed
    root, fat,      \* its two buffers
    whole,          \* both hold what is on the disk
    pattern, last,  \* of the search, one for all clients
    search,         \* what a client's listing is doing: none, on, over
    listed,         \* the names it has got
    handles,        \* _open_files
    file,           \* the name each handle was opened with
    got,            \* what calls that returned a count have read through it
    lost,           \* a call failed after it had read something
    result,         \* of the last fread()
    errors, opens

disksVars == <<disk, said, root, fat, whole>>
searchVars == <<pattern, last, search, listed>>
fileVars == <<handles, file, got, lost, result>>
vars == <<disksVars, searchVars, fileVars, errors, opens>>

Handle == 0 .. MAX_OPEN_FILES - 1
Closed == [init |-> 0, pos |-> 0]

Init ==
    /\ disk \in Disks
    /\ said = "nothing"
    /\ root = Null /\ fat = Null
    /\ whole = FALSE
    /\ pattern = <<>> /\ last = <<>>
    /\ search = "none" /\ listed = <<>>
    /\ handles = [h \in Handle |-> IF h = 0 THEN [init |-> 1, pos |-> 0] ELSE Closed]
    /\ file = [h \in Handle |-> <<>>]
    /\ got = [h \in Handle |-> <<>>]
    /\ lost = [h \in Handle |-> FALSE]
    /\ result = <<>>
    /\ errors = 0 /\ opens = 0

-----------------------------------------------------------------------------
(* Reading sectors *)

SplitAlways(block, n) == TRUE

\* floppy_read_block() reads a request that does not end on the cylinder it begins
\* on, the sector behind it counted in, sector by sector.
Split(block, n) == block \div CylinderSectors # (block + n) \div CylinderSectors

\* What can come of it: the result, and whether all of it was read.  The result
\* of a split request is that of its last sector.
Outcomes(block, n) ==
    {<<TRUE, TRUE>>}
    \cup (IF errors < MaxErrors THEN {<<FALSE, FALSE>>} ELSE {})
    \cup (IF errors < MaxErrors /\ Split(block, n) /\ n > 1 THEN {<<TRUE, FALSE>>} ELSE {})

\* fs_fat_init(): a disk that can not be read at all leaves a directory without
\* entries, a table that can not be read what is in its new buffer and a pointer to
\* address 0 for the directory, a directory that can not be read what is in its new
\* buffer, and nothing is said of that.
FatInit ==
    /\ said = "nothing"
    /\ \E boot \in Outcomes(0, 1), table \in Outcomes(FatStart, FatSectors),
          dir \in Outcomes(FatStart + 2 * FatSectors, RootSectors) :
          LET readable == boot[1] /\ table[1]
          IN  /\ said' = IF ~readable THEN "error" ELSE IF dir[1] THEN "OK" ELSE "read table"
              /\ whole' = (readable /\ table[2] /\ dir[2])
              /\ root' \in IF whole' THEN {disk} ELSE IF ~boot[1] THEN {Null} ELSE Garbage
              /\ fat' \in IF boot[1] /\ table[2] THEN {Table} ELSE GarbageTables
              /\ errors' = IF whole' THEN errors ELSE errors + 1
    /\ UNCHANGED <<disk, searchVars, fileVars, opens>>

Mounted == said # "nothing"

-----------------------------------------------------------------------------
(* Searching *)

Min(S) == CHOOSE i \in S : \A j \in S : i <= j

Free == {i \in DOMAIN root : root[i].kind = "free"}
Comparable(i) == root[i].kind = "file"

\* The entries findfirst() compares and takes; it stops at one never used.
FirstHits(name) ==
    {i \in DOMAIN root : /\ Comparable(i) /\ wildcmp(name, FileName(root[i]))
                         /\ \A j \in Free : i < j}

NextHitsUnmatched ==
    {i \in DOMAIN root : /\ Comparable(i) /\ FileName(root[i]) # last
                         /\ \E j \in 1 .. i - 1 : Comparable(j) /\ FileName(root[j]) = last}

\* Those findnext() takes, after the first with the name it returned last.
NextHits ==
    {i \in DOMAIN root : /\ Comparable(i) /\ FileName(root[i]) # last
                         /\ wildcmp(pattern, FileName(root[i]))
                         /\ \E j \in 1 .. i - 1 : Comparable(j) /\ FileName(root[j]) = last}

\* findfirst() for a listing, as the shell's dir does, with no file open.
FindFirst(name) ==
    /\ Mounted
    /\ search # "on"
    /\ \A h \in Handle \ {0} : handles[h].init = 0
    /\ pattern' = name
    /\ LET hits == FirstHits(name) IN
       IF hits = {} THEN search' = "over" /\ listed' = <<>> /\ UNCHANGED last
       ELSE /\ search' = "on"
            /\ last' = FileName(root[Min(hits)])
            /\ listed' = <<last'>>
    /\ UNCHANGED <<disksVars, fileVars, errors, opens>>

FindNext ==
    /\ search = "on"
    /\ LET hits == NextHits IN
       IF hits = {} THEN search' = "over" /\ UNCHANGED <<last, listed>>
       ELSE /\ last' = FileName(root[Min(hits)])
            /\ listed' = Append(listed, last')
            /\ UNCHANGED search
    /\ UNCHANGED <<pattern, disksVars, fileVars, errors, opens>>

-----------------------------------------------------------------------------
(* Files *)

get_fat_entry(c) == fat[c]

Unused == {h \in Handle : handles[h].init = 0}

\* fassign() searches like findfirst(), which spoils a listing that has not ended,
\* and begins with the entry of the first cluster.
FatAssign(name) ==
    /\ Mounted
    /\ opens < MaxOpens
    /\ opens' = opens + 1
    /\ pattern' = name
    /\ search' = "none" /\ listed' = <<>>
    /\ LET hits == FirstHits(name) IN
       IF hits = {} THEN result' = <<NotFound>> /\ UNCHANGED <<last, handles, file, got, lost>>
       ELSE LET found == FileName(root[Min(hits)]) IN
            /\ last' = found
            /\ IF Unused = {} THEN result' = <<NoFreeHandle>> /\ UNCHANGED <<handles, file, got, lost>>
               ELSE LET h == Min(Unused) IN
                    /\ handles' = [handles EXCEPT ![h] =
                           [init |-> 1, pos |-> get_fat_entry(FirstCluster[found])]]
                    /\ file' = [file EXCEPT ![h] = found]
                    /\ got' = [got EXCEPT ![h] = <<>>]
                    /\ lost' = [lost EXCEPT ![h] = FALSE]
                    /\ result' = <<>>
    /\ UNCHANGED <<disksVars, errors>>

\* Where entries lead; a cluster behind the end of the disk is never read.
Links(t) == [c \in 0 .. 4095 |-> IF c \in DOMAIN t THEN t[c] ELSE 4095]

\* How many of n sectors there are before the end of the file, when at[i] is where
\* the handle is after i of them.
Ahead(at, n) == Min({k \in 0 .. n : k = n \/ at[k] >= fat_end})

EndOfStuck(at, k) == at[0]

\* Where a call that has read k leaves the handle.
EndOf(at, k) == at[k]

\* fread(): a sector that can not be read, or is not on the disk, ends the call with
\* an error, and what was read before it is not counted.  Whether the handle is open
\* is not asked, and clients read through those they were given and did not close.
FatRead(h, n) ==
    LET at == Walk(Links(fat), handles[h].pos)
        all == Ahead(at, n)
    IN
    /\ handles[h].init = 1 /\ h # 0
    /\ Len(got[h]) <= MaxGot
    /\ \E k \in 0 .. all :
          /\ \A i \in 0 .. k - 1 : at[i] \in DOMAIN fat
          /\ k # all => errors < MaxErrors \/ at[k] \notin DOMAIN fat
          /\ handles' = [handles EXCEPT ![h].pos = EndOf(at, k)]
          /\ IF k = all
             THEN /\ got' = [got EXCEPT ![h] = @ \o [i \in 1 .. k |-> at[i - 1]]]
                  /\ result' = <<h, k>>
                  /\ UNCHANGED <<lost, errors>>
             ELSE /\ lost' = [lost EXCEPT ![h] = @ \/ k > 0]
                  /\ result' = <<ReadError>>
                  /\ errors' = IF errors < MaxErrors THEN errors + 1 ELSE errors
                  /\ UNCHANGED got
    /\ UNCHANGED <<disksVars, searchVars, file, opens>>

FatClose(h) ==
    /\ handles[h].init = 1 /\ h # 0
    /\ handles' = [handles EXCEPT ![h].init = 0]
    /\ file' = [file EXCEPT ![h] = <<>>]
    /\ got' = [got EXCEPT ![h] = <<>>]
    /\ lost' = [lost EXCEPT ![h] = FALSE]
    /\ result' = <<>>
    /\ UNCHANGED <<disksVars, searchVars, errors, opens>>

Next ==
    \/ FatInit
    \/ (\E name \in Wilds : FindFirst(name)) \/ (\E name \in Names : FatAssign(name))
    \/ FindNext
    \/ \E h \in Handle : (\E n \in Counts : FatRead(h, n)) \/ FatClose(h)

Spec == Init /\ [][Next]_vars

-----------------------------------------------------------------------------

(***************************************************************************)
(* When fs_fat_init() says OK, table and directory are in memory as they   *)
(* are on the disk: although floppy_read_block() forgets the failures of   *)
(* all but the last sector of a request that crosses a cylinder            *)
(* (floppy.c 348-352), no request for them does, on a 1.44 MB disk.        *)
(***************************************************************************)
OkMeansWhole == said = "OK" => whole

\* No entry is used behind one that never was.
Dense(d) == \A i, j \in DOMAIN d : i < j /\ d[i].kind = "free" => d[j].kind = "free"

Wanted(e) == e.kind = "file" /\ Matches(pattern, FileName(e))

(***************************************************************************)
(* findfirst() and findnext() until it says no more: every file that the   *)
(* pattern matches, once, in the order of the directory, and nothing else. *)
(* They keep nothing but the last name, and pass over deleted entries and  *)
(* parts of long names.  Directories with gaps are not written by DOS.     *)
(***************************************************************************)
ListingComplete ==
    search = "over" /\ whole /\ Dense(disk) =>
        LET hits == {i \in DOMAIN disk : Wanted(disk[i])}
        IN  \E at \in [1 .. Len(listed) -> hits] :
               /\ \A k, l \in 1 .. Len(listed) : k < l => at[k] < at[l]
               /\ \A i \in hits : \E k \in 1 .. Len(listed) : at[k] = i
               /\ \A k \in 1 .. Len(listed) : listed[k] = FileName(disk[at[k]])

(***************************************************************************)
(* Through a handle come the sectors of its file, in order and, from the   *)
(* first one that came, none left out as long as no call failed halfway,   *)
(* whatever the other handles do; and a call that asks for sectors and     *)
(* gets none has come to the end.  They begin with the first or, for what  *)
(* get_fat_entry() makes of it in fassign(), with the second:              *)
(* ReadsFromStart below asks for the first.                                *)
(***************************************************************************)
ReadsInOrder ==
    whole => \A h \in Handle \ {0} :
        LET cluster == Walk(Links(Table), FirstCluster[file[h]])
        IN  handles[h].init = 1 /\ ~lost[h] => \E skipped \in {0, 1} :
               /\ \A i \in 1 .. Len(got[h]) :
                     LET c == cluster[i - 1 + skipped] IN got[h][i] = c /\ c \in Used
               /\ result = <<h, 0>> => cluster[Len(got[h]) + skipped] \notin Used

(***************************************************************************)
(* What comes through a handle begins with the sector of the cluster that  *)
(* fat.h 57 calls the starting cluster of the file, and there is none to   *)
(* begin with when "zero at end-of-file" (fat.c 253) is all that comes.    *)
(***************************************************************************)
ReadsFromStart ==
    whole => \A h \in Handle \ {0} :
        LET start == FirstCluster[file[h]]
        IN  handles[h].init = 1 /\ ~lost[h] =>
               /\ got[h] # <<>> => got[h][1] = start
               /\ got[h] = <<>> /\ result = <<h, 0>> => start \notin Used
=============================================================================
