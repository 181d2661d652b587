---------------------------- MODULE Boot_proofs ----------------------------
(***************************************************************************)
(* From nucflop to the kernel, for every size of the disk, every list of   *)
(* files and every board: what one of the programs writes to the table is  *)
(* what the others read, no cluster is lost, the bytes of the disk         *)
(* implement a store of files, and a kernel that is entered is the one     *)
(* that was written.                                                       *)
(***************************************************************************)
EXTENDS Boot, NaturalFacts, FiniteSetTheorems, SequenceTheorems

-----------------------------------------------------------------------------
(* The table of 12-bit entries                                              *)


(***************************************************************************)
(* Two entries share three bytes.                                          *)
(***************************************************************************)
LEMMA Offsets ==
    ASSUME NEW c \in Cluster
    PROVE  /\ ReaderOffset(c) = OffsetOf(c)
           /\ OffsetOf(c) \in Address /\ OffsetOf(c) + 1 \in Address
           /\ \E k \in Nat : \/ c = 2 * k /\ OffsetOf(c) = 3 * k /\ c % 2 = 0
                             \/ c = 2 * k + 1 /\ OffsetOf(c) = 3 * k + 1 /\ c % 2 = 1
<1>1. /\ c \in Nat /\ c <= MaxCluster /\ MaxCluster \in Nat
  BY MaxClusterAssumption DEF Cluster
<1>2. ReaderOffset(c) = OffsetOf(c)
  BY <1>1 DEF ReaderOffset, OffsetOf
<1>3. OffsetOf(c) \in Address /\ OffsetOf(c) + 1 \in Address
  BY <1>1 DEF OffsetOf, Address
<1>4. CASE c % 2 = 0
  <2>1. c \div 2 \in Nat /\ c = 2 * (c \div 2) /\ OffsetOf(c) = 3 * (c \div 2)
    BY <1>1, <1>4 DEF OffsetOf
  <2> QED
    BY <1>2, <1>3, <1>4, <2>1
<1>5. CASE c % 2 # 0
  <2>1. /\ c \div 2 \in Nat /\ c = 2 * (c \div 2) + 1
        /\ OffsetOf(c) = 3 * (c \div 2) + 1 /\ c % 2 = 1
    BY <1>1, <1>5 DEF OffsetOf
  <2> QED
    BY <1>2, <1>3, <2>1
<1> QED
  BY <1>4, <1>5

\* Words by their bounds: with the numbers in sight the prover enumerates the set.
LEMMA WordRange == \A n : n \in Word <=> n \in Int /\ 0 <= n /\ n < 65536
<1> DEFINE m == 65535
<1>1. Word = 0 .. m /\ m \in Nat /\ m + 1 = 65536
  BY DEF Word
<1> HIDE DEF m
<1> QED
  BY <1>1

LEMMA EntryRange == \A n : n \in Entry <=> n \in Int /\ 0 <= n /\ n < 4096
<1> DEFINE m == 4095
<1>1. Entry = 0 .. m /\ m \in Nat /\ m + 1 = 4096
  BY DEF Entry
<1> HIDE DEF m
<1> QED
  BY <1>1

(***************************************************************************)
(* The arithmetic of words that are made of two bytes.                     *)
(***************************************************************************)
LEMMA Bytes ==
    /\ \A w \in Word : w % 256 \in Byte /\ w \div 256 \in Byte
    /\ \A x, y \in Byte : x + 256 * y \in Word
<1>1. ASSUME NEW w \in Word PROVE w % 256 \in Byte /\ w \div 256 \in Byte
  <2>1. w \in Nat /\ w < 65536
    BY WordRange
  <2>2. w % 256 \in Byte
    BY <2>1 DEF Byte
  <2>3. w \div 256 \in Byte
    BY <2>1 DEF Byte
  <2> QED
    BY <2>2, <2>3
<1>2. ASSUME NEW x \in Byte, NEW y \in Byte PROVE x + 256 * y \in Word
  <2>1. x \in Int /\ y \in Int /\ 0 <= x /\ x <= 255 /\ 0 <= y /\ y <= 255
    BY DEF Byte
  <2>2. x + 256 * y \in Int /\ 0 <= x + 256 * y /\ x + 256 * y < 65536
    BY <2>1
  <2> QED
    BY <2>2, WordRange
<1> QED
  BY <1>1, <1>2

(***************************************************************************)
(* The upper half of a word's first byte is not seen by the entry that     *)
(* begins in its second byte ...                                           *)
(***************************************************************************)
LEMMA UpperHalf ==
    ASSUME NEW x \in Byte, NEW y \in Byte, NEW z \in Byte, NEW n \in Word,
           n \div 4096 = (x + 256 * y) \div 4096
    PROVE  (n \div 256 + 256 * z) \div 16 = (y + 256 * z) \div 16
<1>1. (x + 256 * y) \div 4096 = y \div 16
  BY DEF Byte
<1>2. (n \div 256) \div 16 = n \div 4096
  BY WordRange
<1>3. \A u \in Byte : (u + 256 * z) \div 16 = (u \div 16) + 16 * z
  BY DEF Byte
<1>4. n \div 256 \in Byte
  BY Bytes
<1>5. (n \div 256) \div 16 = y \div 16
  BY <1>1, <1>2
<1> QED
  BY <1>3, <1>4, <1>5

(***************************************************************************)
(* ... and the lower half of its second byte not by the one that ends in   *)
(* its first.                                                              *)
(***************************************************************************)
LEMMA LowerHalf ==
    ASSUME NEW x \in Byte, NEW y \in Byte, NEW z \in Byte, NEW n \in Word,
           n % 16 = (x + 256 * y) % 16
    PROVE  (z + 256 * (n % 256)) % 4096 = (z + 256 * x) % 4096
<1>1. (x + 256 * y) % 16 = x % 16
  BY DEF Byte
<1>2. (n % 256) % 16 = n % 16
  BY WordRange
<1>3. \A u \in Byte : (z + 256 * u) % 4096 = z + 256 * (u % 16)
  BY DEF Byte
<1>4. n % 256 \in Byte
  BY Bytes
<1>5. (n % 256) % 16 = x % 16
  BY <1>1, <1>2
<1> QED
  BY <1>3, <1>4, <1>5

(***************************************************************************)
(* A word that is stored is found again; the bytes before and behind it    *)
(* stay.                                                                   *)
(***************************************************************************)
LEMMA Stored ==
    ASSUME NEW t \in Table, NEW a \in Address, a + 1 \in Address, NEW w \in Word
    PROVE  /\ StoreWord(t, a, w) \in Table
           /\ StoreWord(t, a, w)[a] = w % 256
           /\ StoreWord(t, a, w)[a + 1] = w \div 256
           /\ \A i \in Address : i # a /\ i # a + 1 => StoreWord(t, a, w)[i] = t[i]
<1>1. a # a + 1
  BY DEF Address
<1>2. w % 256 \in Byte /\ w \div 256 \in Byte
  BY Bytes
<1> QED
  BY <1>1, <1>2 DEF StoreWord, Table

LEMMA Words ==
    ASSUME NEW t \in Table, NEW a \in Address, a + 1 \in Address
    PROVE  WordAt(t, a) \in Word
<1>1. t[a] \in Byte /\ t[a + 1] \in Byte
  BY DEF Table
<1> QED
  BY <1>1, Bytes DEF WordAt

(***************************************************************************)
(* The entry takes its half of the word, the neighbour keeps the other.    *)
(***************************************************************************)
LEMMA Halves ==
    ASSUME NEW w \in Word, NEW c \in Nat, NEW new \in Entry
    PROVE  /\ NewWord(w, c, new) \in Word
           /\ EntryIn(NewWord(w, c, new), c) = new
           /\ c % 2 = 1 => NewWord(w, c, new) % 16 = w % 16
           /\ c % 2 # 1 => NewWord(w, c, new) \div 4096 = w \div 4096
<1>3. new \in Int /\ 0 <= new /\ new < 4096
  BY EntryRange
<1>1. CASE c % 2 = 1
  <2>1. (16 * new) % 65536 = 16 * new
    <3>1. (16 * new) % 65536 = 16 * (new % 4096)
      BY <1>3
    <3>2. new % 4096 = new
      BY <1>3
    <3> QED
      BY <3>1, <3>2
  <2> DEFINE lower == w % 16
  <2>2. NewWord(w, c, new) = 16 * new + lower
    BY <1>1, <2>1 DEF NewWord
  <2>3. lower \in 0 .. 15
    BY WordRange
  <2> HIDE DEF lower
  <2>6. lower \in Int /\ 0 <= lower /\ lower < 16
    BY <2>3
  <2>4. (16 * new + lower) \div 16 = new /\ (16 * new + lower) % 16 = lower
    BY <1>3, <2>6
  <2>5. 16 * new + lower \in Word
    <3>1. lower \in Int /\ 0 <= lower /\ lower <= 15 /\ new \in Int /\ 0 <= new /\ new <= 4095
      BY <1>3, <2>3
    <3>2. 16 * new + lower \in Int /\ 0 <= 16 * new + lower /\ 16 * new + lower < 65536
      BY <3>1
    <3> QED
      BY <3>2, WordRange
  <2> QED
    BY <1>1, <2>2, <2>4, <2>5 DEF EntryIn, lower
<1>2. CASE c % 2 # 1
  <2> DEFINE upper == w \div 4096
  <2>1. new % 4096 = new
    BY <1>3
  <2>2. NewWord(w, c, new) = new + 4096 * upper
    BY <1>2, <2>1 DEF NewWord
  <2>3. upper \in 0 .. 15
    BY WordRange
  <2> HIDE DEF upper
  <2>6. upper \in Int
    BY <2>3
  <2>4. (new + 4096 * upper) % 4096 = new /\ (new + 4096 * upper) \div 4096 = upper
    BY <1>3, <2>6
  <2>5. new + 4096 * upper \in Word
    <3>1. upper \in Int /\ 0 <= upper /\ upper <= 15 /\ new \in Int /\ 0 <= new /\ new <= 4095
      BY <1>3, <2>3
    <3>2. new + 4096 * upper \in Int /\ 0 <= new + 4096 * upper /\ new + 4096 * upper < 65536
      BY <3>1
    <3> QED
      BY <3>2, WordRange
  <2> QED
    BY <1>2, <2>2, <2>4, <2>5 DEF EntryIn, upper
<1> QED
  BY <1>1, <1>2

(***************************************************************************)
(* What write_fatentry() stores, in one copy.                              *)
(***************************************************************************)
LEMMA Written ==
    ASSUME NEW t \in Table, NEW c \in Cluster, NEW new \in Entry
    PROVE  LET w == WordAt(t, OffsetOf(c))
               n == NewWord(w, c, new)
               u == write_fatentry(t, t, c, new)[1]
           IN  /\ u \in Table
               /\ WordAt(u, OffsetOf(c)) = n
               /\ u[OffsetOf(c)] = n % 256 /\ u[OffsetOf(c) + 1] = n \div 256
               /\ \A i \in Address : i # OffsetOf(c) /\ i # OffsetOf(c) + 1 => u[i] = t[i]
<1> DEFINE w == WordAt(t, OffsetOf(c))
           n == NewWord(w, c, new)
           u == write_fatentry(t, t, c, new)[1]
<1>1. OffsetOf(c) \in Address /\ OffsetOf(c) + 1 \in Address /\ c \in Nat
  BY Offsets, MaxClusterAssumption DEF Cluster
<1>2. w \in Word
  BY <1>1, Words
<1>3. n \in Word
  BY <1>1, <1>2, Halves
<1>4. u = StoreWord(t, OffsetOf(c), n)
  BY DEF write_fatentry
<1> HIDE DEF w, n, u
<1>5. /\ u \in Table /\ u[OffsetOf(c)] = n % 256 /\ u[OffsetOf(c) + 1] = n \div 256
      /\ \A i \in Address : i # OffsetOf(c) /\ i # OffsetOf(c) + 1 => u[i] = t[i]
  BY <1>1, <1>3, <1>4, Stored
<1>6. WordAt(u, OffsetOf(c)) = n
  <2>1. n \in Int /\ n = (n % 256) + 256 * (n \div 256)
    BY <1>3, WordRange
  <2> QED
    BY <1>5, <2>1 DEF WordAt
<1> QED
  BY <1>5, <1>6 DEF w, n, u

(***************************************************************************)
(* An entry written by nucflop is read back by nucflop, the boot sector,   *)
(* the loader and the kernel alike.                                        *)
(***************************************************************************)
THEOREM WrittenIsRead ==
    ASSUME NEW t \in Table, NEW c \in Cluster, NEW new \in Entry
    PROVE  LET u == write_fatentry(t, t, c, new)[1]
           IN  /\ FatEntry(u, c) = new
               /\ NextCluster(u, c) = new
               /\ ReadFat(u, c) = new
               /\ get_fat_entry(u, c) = new
<1> DEFINE u == write_fatentry(t, t, c, new)[1]
<1>1. WordAt(u, OffsetOf(c)) = NewWord(WordAt(t, OffsetOf(c)), c, new)
  BY Written
<1>2. WordAt(t, OffsetOf(c)) \in Word /\ ReaderOffset(c) = OffsetOf(c) /\ c \in Nat
  BY Offsets, Words, MaxClusterAssumption DEF Cluster
<1>3. EntryIn(NewWord(WordAt(t, OffsetOf(c)), c, new), c) = new
  BY <1>2, Halves
<1> QED
  BY <1>1, <1>2, <1>3 DEF FatEntry, NextCluster, ReadFat, get_fat_entry

(***************************************************************************)
(* Writing an entry changes no other one, not even the one it shares a     *)
(* byte with.                                                              *)
(***************************************************************************)
THEOREM NeighboursKept ==
    ASSUME NEW t \in Table, NEW c \in Cluster, NEW d \in Cluster, c # d, NEW new \in Entry
    PROVE  FatEntry(write_fatentry(t, t, c, new)[1], d) = FatEntry(t, d)
<1> DEFINE w == WordAt(t, OffsetOf(c))
           n == NewWord(w, c, new)
           u == write_fatentry(t, t, c, new)[1]
           a == OffsetOf(c)
           b == OffsetOf(d)
<1>1. /\ u \in Table /\ u[a] = n % 256 /\ u[a + 1] = n \div 256
      /\ \A i \in Address : i # a /\ i # a + 1 => u[i] = t[i]
  BY Written
<1>2. a \in Address /\ a + 1 \in Address /\ b \in Address /\ b + 1 \in Address
  BY Offsets
<1>3. /\ w = t[a] + 256 * t[a + 1] /\ w \in Word
      /\ n \in Word
      /\ c % 2 = 1 => n % 16 = w % 16
      /\ c % 2 # 1 => n \div 4096 = w \div 4096
  <2>1. w \in Word /\ c \in Nat
    BY <1>2, Words, MaxClusterAssumption DEF Cluster
  <2> QED
    BY <2>1, Halves DEF WordAt
<1>4. t[a] \in Byte /\ t[a + 1] \in Byte /\ t[b] \in Byte /\ t[b + 1] \in Byte
  BY <1>2 DEF Table
<1>5. PICK k \in Nat : \/ c = 2 * k /\ a = 3 * k /\ c % 2 = 0
                       \/ c = 2 * k + 1 /\ a = 3 * k + 1 /\ c % 2 = 1
  BY Offsets
<1>6. PICK m \in Nat : \/ d = 2 * m /\ b = 3 * m /\ d % 2 = 0
                       \/ d = 2 * m + 1 /\ b = 3 * m + 1 /\ d % 2 = 1
  BY Offsets
<1> HIDE DEF w, n, u, a, b
<1>7. CASE c = 2 * k /\ c % 2 = 0 /\ k = m
  <2>1. d = 2 * k + 1 /\ d % 2 = 1 /\ a = 3 * k /\ b = a + 1
    BY <1>5, <1>6, <1>7
  <2>2. u[b] = n \div 256 /\ u[b + 1] = t[b + 1]
    BY <1>1, <1>2, <2>1
  <2>3. n \div 4096 = w \div 4096 /\ w = t[a] + 256 * t[b]
    BY <1>3, <1>7, <2>1
  <2>4. (n \div 256 + 256 * t[b + 1]) \div 16 = (t[b] + 256 * t[b + 1]) \div 16
    BY <1>3, <1>4, <2>1, <2>3, UpperHalf
  <2> QED
    BY <2>1, <2>2, <2>4 DEF FatEntry, EntryIn, WordAt, b, u
<1>8. CASE c = 2 * k + 1 /\ c % 2 = 1 /\ k = m
  <2>1. d = 2 * k /\ d % 2 = 0 /\ a = 3 * k + 1 /\ a = b + 1
    BY <1>5, <1>6, <1>8
  <2>2. u[b + 1] = n % 256 /\ u[b] = t[b]
    BY <1>1, <1>2, <2>1
  <2>3. n % 16 = w % 16 /\ w = t[b + 1] + 256 * t[a + 1]
    BY <1>3, <1>8, <2>1
  <2>4. (t[b] + 256 * (n % 256)) % 4096 = (t[b] + 256 * t[b + 1]) % 4096
    BY <1>3, <1>4, <2>1, <2>3, LowerHalf
  <2> QED
    BY <2>1, <2>2, <2>4 DEF FatEntry, EntryIn, WordAt, b, u
<1>9. CASE k # m
  <2>1. b # a /\ b # a + 1 /\ b + 1 # a /\ b + 1 # a + 1
    BY <1>5, <1>6, <1>9
  <2>2. u[b] = t[b] /\ u[b + 1] = t[b + 1]
    BY <1>1, <1>2, <2>1
  <2> QED
    BY <2>2 DEF FatEntry, EntryIn, WordAt, b, u
<1> QED
  BY <1>5, <1>7, <1>8, <1>9

LEMMA EntryType ==
    ASSUME NEW t \in Table, NEW c \in Cluster
    PROVE  /\ FatEntry(t, c) \in Entry
           /\ ReadFat(t, c) = FatEntry(t, c) /\ NextCluster(t, c) = FatEntry(t, c)
<1>1. OffsetOf(c) \in Address /\ OffsetOf(c) + 1 \in Address /\ ReaderOffset(c) = OffsetOf(c)
  BY Offsets
<1>2. PICK w \in Word : w = WordAt(t, OffsetOf(c))
  BY <1>1, Words
<1>3. w \in Int /\ 0 <= w /\ w < 65536
  BY <1>2, WordRange
<1>4. w \div 16 \in Int /\ 0 <= w \div 16 /\ w \div 16 <= 4095
  BY <1>3
<1>5. w % 4096 \in Int /\ 0 <= w % 4096 /\ w % 4096 <= 4095
  BY <1>3
<1>6. w \div 16 \in Entry /\ w % 4096 \in Entry
  BY <1>4, <1>5, EntryRange
<1>7. EntryIn(w, c) \in Entry
  BY <1>6 DEF EntryIn
<1> QED
  BY <1>1, <1>2, <1>7 DEF FatEntry, ReadFat, NextCluster

LEMMA WriteEntryIn ==
    ASSUME NEW t \in Table, NEW c \in Cluster, NEW new \in Entry
    PROVE  LET u == write_fatentry(t, t, c, new)
           IN  /\ u[1] \in Table /\ u[2] = u[1]
               /\ \A d \in Cluster : FatEntry(u[1], d) = IF d = c THEN new ELSE FatEntry(t, d)
<1> DEFINE u == write_fatentry(t, t, c, new)
<1>1. u[1] \in Table
  BY Written
<1>2. u[2] = u[1]
  BY DEF write_fatentry
<1>3. ASSUME NEW d \in Cluster PROVE FatEntry(u[1], d) = IF d = c THEN new ELSE FatEntry(t, d)
  BY WrittenIsRead, NeighboursKept
<1> QED
  BY <1>1, <1>2, <1>3

LEMMA ClusterRange ==
    /\ Cluster \subseteq Entry \ {0}
    /\ EndOfFile \in Entry /\ EndOfFile \notin Cluster /\ EndOfFile # 0 /\ ~(EndOfFile < 4080)
    /\ \A c \in Cluster : c < 4080 /\ c \in Nat
BY MaxClusterAssumption DEF Cluster, Entry, EndOfFile

\* Byte 0 to 2 of a table belong to no cluster.
LEMMA HeadOfTable ==
    ASSUME NEW t \in Table
    PROVE  /\ Reserved(t) \in Table
           /\ \A c \in Cluster : FatEntry(Reserved(t), c) = FatEntry(t, c)
<1>1. 0 \in Address /\ 1 \in Address /\ 2 \in Address
  BY MaxClusterAssumption DEF Address
<1>2. Reserved(t) \in Table
  <2>1. 240 \in Byte /\ 255 \in Byte
    BY DEF Byte
  <2> QED
    BY <2>1 DEF Reserved, Table
<1>3. \A a \in Address : a \notin {0, 1, 2} => Reserved(t)[a] = t[a]
  BY DEF Reserved, Table
<1>4. ASSUME NEW c \in Cluster PROVE FatEntry(Reserved(t), c) = FatEntry(t, c)
  <2>1. OffsetOf(c) \in Address /\ OffsetOf(c) + 1 \in Address
    BY Offsets
  <2>2. OffsetOf(c) \notin {0, 1, 2} /\ OffsetOf(c) + 1 \notin {0, 1, 2}
    BY MaxClusterAssumption DEF OffsetOf, Cluster
  <2>3. Reserved(t)[OffsetOf(c)] = t[OffsetOf(c)] /\ Reserved(t)[OffsetOf(c) + 1] = t[OffsetOf(c) + 1]
    BY <1>3, <2>1, <2>2
  <2> QED
    BY <2>3 DEF FatEntry, WordAt
<1> QED
  BY <1>2, <1>4

LEMMA EmptyTable ==
    /\ [a \in Address |-> 0] \in Table
    /\ \A c \in Cluster : FatEntry([a \in Address |-> 0], c) = 0
<1> DEFINE t == [a \in Address |-> 0]
<1>1. t \in Table
  BY DEF Table, Byte
<1>2. ASSUME NEW c \in Cluster PROVE FatEntry(t, c) = 0
  <2>1. t[OffsetOf(c)] = 0 /\ t[OffsetOf(c) + 1] = 0
    BY Offsets
  <2>2. WordAt(t, OffsetOf(c)) = 0
    BY <2>1 DEF WordAt
  <2>3. EntryIn(0, c) = 0
    BY DEF EntryIn
  <2> QED
    BY <2>2, <2>3 DEF FatEntry
<1> QED
  BY <1>1, <1>2

(***************************************************************************)
(* The clusters that are free.                                             *)
(***************************************************************************)
LEMMA FreeFinite ==
    /\ IsFiniteSet(Cluster) /\ Cardinality(Cluster) = MaxCluster - 1
    /\ \A t : /\ IsFiniteSet(FreeClusters(t))
              /\ Cardinality(FreeClusters(t)) \in Nat
              /\ Cardinality(FreeClusters(t)) <= MaxCluster - 1
<1>1. IsFiniteSet(Cluster) /\ Cardinality(Cluster) = MaxCluster - 1
  BY MaxClusterAssumption, FS_Interval DEF Cluster
<1>2. ASSUME NEW t PROVE /\ IsFiniteSet(FreeClusters(t))
                         /\ Cardinality(FreeClusters(t)) \in Nat
                         /\ Cardinality(FreeClusters(t)) <= MaxCluster - 1
  <2>1. FreeClusters(t) \subseteq Cluster
    BY DEF FreeClusters
  <2> QED
    BY <1>1, <2>1, FS_Subset, FS_CardinalityType
<1> QED
  BY <1>1, <1>2

LEMMA FirstFreeIs ==
    ASSUME NEW t
    PROVE  IF FreeClusters(t) = {} THEN get_free_cluster(t) = -1
           ELSE get_free_cluster(t) \in FreeClusters(t) /\ get_free_cluster(t) # -1
<1>1. FreeClusters(t) \subseteq Cluster /\ FreeClusters(t) \in SUBSET Nat
  BY ClusterRange DEF FreeClusters
<1>2. FreeClusters(t) # {} => \E c \in FreeClusters(t) : \A d \in FreeClusters(t) : c <= d
  BY <1>1, LeastNat
<1>3. FreeClusters(t) # {} => FirstFree(t) \in FreeClusters(t)
  BY <1>2 DEF FirstFree
<1> QED
  BY <1>1, <1>3 DEF get_free_cluster

-----------------------------------------------------------------------------
(***************************************************************************)
(* The inductive invariant.                                                *)
(***************************************************************************)
\* The file nucflop is at.
This == Files[fileno]

AtFile == tool \in {"write", "entry"}

\* The first n sectors of f are on the disk d, each in a cluster whose entry in
\* the table t names the next one's; the last one's entry is end.
Whole(d, t, f, n, end) ==
    /\ \A i \in 1 .. n : \E c \in Cluster : d[c] = <<f, i>>
    /\ \A c \in Cluster : \A i \in 1 .. MaxCluster : d[c] = <<f, i>> => i <= n
    /\ \A c \in Cluster : \A i \in 1 .. MaxCluster : d[c] = <<f, i>> /\ i < n =>
          FatEntry(t, c) \in Cluster /\ d[FatEntry(t, c)] = <<f, i + 1>>
    /\ \A c \in Cluster : d[c] = <<f, n>> => FatEntry(t, c) = end

ToolTypes ==
    /\ boot \in {"blank", "formatted", "boot_fd"}
    /\ fat1 \in Table /\ fat2 = fat1
    /\ root \in [Slot -> [name : File \cup {NoName}, first : {0} \cup Cluster, size : Nat]]
    /\ data \in [Cluster -> {EmptySector} \cup (File \X (1 .. MaxCluster))]
    /\ tool \in {"format", "boot", "open", "write", "entry", "save", "saved"}
    /\ fileno \in 1 .. Len(Files) + 1
    /\ tool \in {"format", "boot", "open", "write", "entry"} => fileno <= Len(Files)

\* A name is in the directory once, and is that of an earlier file.
RootInv ==
    /\ \A s \in Slot : root[s].name = NoName => root[s] = FreeSlot
    /\ \A s \in Slot : root[s].name # NoName => \E i \in 1 .. fileno - 1 : root[s].name = Files[i]
    /\ \A r, s \in Slot : root[r].name = root[s].name /\ root[r].name # NoName => r = s
    /\ Cardinality({s \in Slot : root[s] # FreeSlot}) < fileno

\* What is in the directory is on the disk, whole.
Filed(s) ==
    /\ root[s].first \in Cluster
    /\ data[root[s].first] = <<root[s].name, 1>>
    /\ InImage(root[s].size) \in 1 .. MaxCluster
    /\ Whole(data, fat1, root[s].name, InImage(root[s].size), EndOfFile)

\* A cluster in use holds a sector of a file that is in the directory or being
\* written, and no sector is in two clusters.
DataInv ==
    /\ \A c \in Cluster : data[c] = EmptySector <=> FatEntry(fat1, c) = 0
    /\ \A c, d \in Cluster : data[c] # EmptySector /\ data[c] = data[d] => c = d
    /\ \A c \in Cluster : data[c] # EmptySector =>
          (\E s \in Slot : root[s].name = data[c][1]) \/ (AtFile /\ data[c][1] = This)
    /\ \A s \in Slot : root[s].name # NoName => Filed(s)

\* The file being written: there is room for what is still to come.
WriteInv ==
    /\ AtFile =>
          /\ slot \in Slot /\ root[slot] = FreeSlot
          /\ filesize \in Nat /\ got \in Nat \ {0} /\ first \in Cluster
          /\ got = 1 \/ got * SectorBytes <= filesize
          /\ got > 1 \/ tool = "entry" => data[first] = <<This, 1>>
    /\ tool = "write" =>
          /\ cluster \in FreeClusters(fat1)
          /\ got = 1 => first = cluster
          /\ (get_disk_free(fat1) + got) * SectorBytes >= filesize + 2 * SectorBytes
          /\ get_disk_free(fat1) + got <= MaxCluster
          /\ Whole(data, fat1, This, got - 1, cluster)
    /\ tool = "entry" =>
          /\ got <= MaxCluster
          /\ got = InImage(filesize)
          /\ Whole(data, fat1, This, got, EndOfFile)

\* What reads a sector, or tries to.
Reading == {"root", "fat", "image", "bootsect", "dir", "table", "cluster"}

Copying == stage \in {"cluster", "copy", "disable"} \/ (stage = "enable" /\ purpose = "copy")
Copied == stage \in {"kernel", "main"} \/ (stage = "enable" /\ purpose = "kernel")

KernelSectors(n) == [i \in 1 .. n |-> <<Kernel, i>>]

\* The boot sector and the loader are at a cluster of the file they load.
StageInv ==
    /\ stage \in Stages /\ (stage # "off" => tool = "saved")
    /\ tries \in 0 .. Tries /\ (stage \in Reading => tries # 0)
    /\ stage \in {"fat", "image"} =>
          cur \in Cluster /\ \E i \in 1 .. MaxCluster : data[cur] = <<Loader, i>>
    /\ stage \in {"bootsect", "dir", "table"} => high = <<>>
    /\ Copying => cur \in Cluster /\ \E i \in 1 .. MaxCluster :
          /\ data[cur] = <<Kernel, i>>
          /\ high = KernelSectors(IF stage = "disable" THEN i ELSE i - 1)
    /\ Copied => \E s \in Slot : root[s].name = Kernel /\ high = KernelSectors(InImage(root[s].size))
    /\ purpose \in {"copy", "kernel"}

\* The method that was chosen opens the gate.
GateInv ==
    /\ probe \in 0 .. Len(Methods) + 1
    /\ ~wrapped
    /\ a20_vec # "unset" => Open(EnabledBy(a20_vec))
    /\ stage \in {"copy", "disable", "kernel", "main"} => a20_vec # "unset"
    /\ stage \in {"copy", "kernel", "main"} => Open(switches)
    /\ stage \in {"kernel", "main"} => ~intr

ToolInv == ToolTypes /\ RootInv /\ DataInv /\ WriteInv
IInv == ToolInv /\ StageInv /\ GateInv

-----------------------------------------------------------------------------

LEMMA Sectors ==
    /\ \A f, g, i, j : <<f, i>> = <<g, j>> <=> f = g /\ i = j
    /\ \A f, i : <<f, i>> # EmptySector /\ <<f, i>>[1] = f
<1>1. \A f, i : Len(<<f, i>>) = 2
  OBVIOUS
<1>2. Len(EmptySector) = 0
  BY DEF EmptySector
<1> QED
  BY <1>1, <1>2

\* What a cluster may hold.
Contents == {EmptySector} \cup (File \X (1 .. MaxCluster))

LEMMA ContentsAre ==
    /\ \A x \in Contents : x # EmptySector => \E f \in File, i \in 1 .. MaxCluster : x = <<f, i>>
    /\ \A f \in File, i \in 1 .. MaxCluster : <<f, i>> \in Contents
BY DEF Contents

(***************************************************************************)
(* A file that is whole stays so when its clusters and their entries stay. *)
(***************************************************************************)
LEMMA WholeKept ==
    ASSUME NEW d, NEW d2, NEW t, NEW t2, NEW f, NEW n, NEW end,
           \A c \in Cluster : \A i : d2[c] = <<f, i>> <=> d[c] = <<f, i>>,
           \A c \in Cluster : \A i : d[c] = <<f, i>> => FatEntry(t2, c) = FatEntry(t, c),
           Whole(d, t, f, n, end)
    PROVE  Whole(d2, t2, f, n, end)
<1>1. \A i \in 1 .. n : \E c \in Cluster : d2[c] = <<f, i>>
  BY DEF Whole
<1>2. \A c \in Cluster : \A i \in 1 .. MaxCluster : d2[c] = <<f, i>> => i <= n
  BY DEF Whole
<1>3. ASSUME NEW c \in Cluster, NEW i \in 1 .. MaxCluster, d2[c] = <<f, i>>, i < n
      PROVE  FatEntry(t2, c) \in Cluster /\ d2[FatEntry(t2, c)] = <<f, i + 1>>
  <2>1. d[c] = <<f, i>>
    BY <1>3
  <2>2. FatEntry(t, c) \in Cluster /\ d[FatEntry(t, c)] = <<f, i + 1>>
    BY <1>3, <2>1 DEF Whole
  <2>3. FatEntry(t2, c) = FatEntry(t, c)
    BY <2>1
  <2> QED
    BY <2>2, <2>3
<1>4. \A c \in Cluster : d2[c] = <<f, n>> => FatEntry(t2, c) = end
  BY DEF Whole
<1> QED
  BY <1>1, <1>2, <1>3, <1>4 DEF Whole

(***************************************************************************)
(* A sector more, in the cluster the last entry named.                     *)
(***************************************************************************)
LEMMA WholeLonger ==
    ASSUME NEW d \in [Cluster -> Contents], NEW t, NEW t2, NEW f, NEW n \in 1 .. MaxCluster,
           NEW cl \in Cluster, NEW end, d[cl] = EmptySector, Whole(d, t, f, n - 1, cl),
           \A c \in Cluster : FatEntry(t2, c) = IF c = cl THEN end ELSE FatEntry(t, c)
    PROVE  Whole([d EXCEPT ![cl] = <<f, n>>], t2, f, n, end)
<1> DEFINE d2 == [d EXCEPT ![cl] = <<f, n>>]
<1>0. MaxCluster \in Nat
  BY MaxClusterAssumption
<1>1. d2[cl] = <<f, n>> /\ \A c \in Cluster : c # cl => d2[c] = d[c]
  OBVIOUS
<1>2. \A i : d[cl] # <<f, i>>
  BY Sectors
<1> HIDE DEF d2
<1>3. ASSUME NEW i \in 1 .. n PROVE \E c \in Cluster : d2[c] = <<f, i>>
  <2>1. CASE i = n
    BY <1>1, <2>1
  <2>2. CASE i # n
    <3>1. i \in 1 .. n - 1
      BY <2>2
    <3>2. PICK c \in Cluster : d[c] = <<f, i>>
      BY <3>1 DEF Whole
    <3>3. c # cl
      BY <1>2, <3>2
    <3> QED
      BY <1>1, <3>2, <3>3
  <2> QED
    BY <2>1, <2>2
<1>4. ASSUME NEW c \in Cluster, NEW i \in 1 .. MaxCluster, d2[c] = <<f, i>> PROVE i <= n
  <2>1. CASE c = cl
    <3>1. i = n
      BY <1>1, <1>4, <2>1, Sectors
    <3> QED
      BY <3>1
  <2>2. CASE c # cl
    <3>1. i <= n - 1
      BY <1>1, <1>4, <2>2 DEF Whole
    <3> QED
      BY <1>0, <3>1
  <2> QED
    BY <2>1, <2>2
<1>5. ASSUME NEW c \in Cluster, NEW i \in 1 .. MaxCluster, d2[c] = <<f, i>>, i < n
      PROVE  FatEntry(t2, c) \in Cluster /\ d2[FatEntry(t2, c)] = <<f, i + 1>>
  <2>1. c # cl
    <3>1. ASSUME c = cl PROVE i = n
      BY <1>1, <1>5, <3>1, Sectors
    <3> QED
      BY <1>5, <3>1
  <2>2. d[c] = <<f, i>> /\ FatEntry(t2, c) = FatEntry(t, c)
    BY <1>1, <1>5, <2>1
  <2>3. CASE i < n - 1
    <3>1. FatEntry(t, c) \in Cluster /\ d[FatEntry(t, c)] = <<f, i + 1>>
      BY <2>2, <2>3 DEF Whole
    <3>2. FatEntry(t, c) # cl
      BY <1>2, <3>1
    <3> QED
      BY <1>1, <2>2, <3>1, <3>2
  <2>4. CASE ~(i < n - 1)
    <3>1. i = n - 1 /\ i + 1 = n
      BY <1>0, <1>5, <2>4
    <3>2. FatEntry(t, c) = cl
      BY <2>2, <3>1 DEF Whole
    <3> QED
      BY <1>1, <2>2, <3>1, <3>2
  <2> QED
    BY <2>3, <2>4
<1>6. ASSUME NEW c \in Cluster, d2[c] = <<f, n>> PROVE FatEntry(t2, c) = end
  <2>1. CASE c # cl
    <3>1. d[c] = <<f, n>>
      BY <1>1, <1>6, <2>1
    <3>2. n <= n - 1
      BY <3>1 DEF Whole
    <3> QED
      BY <1>0, <3>2
  <2> QED
    BY <2>1
<1> QED
  BY <1>3, <1>4, <1>5, <1>6 DEF Whole, d2

(***************************************************************************)
(* A file that is not on the disk is one of no sectors.                    *)
(***************************************************************************)
LEMMA WholeNone ==
    ASSUME NEW d, NEW t, NEW f, NEW end, \A c \in Cluster : \A i : d[c] # <<f, i>>
    PROVE  Whole(d, t, f, 0, end)
BY DEF Whole

(***************************************************************************)
(* The sectors fread() gets whole, or the one that is not.                 *)
(***************************************************************************)
LEMMA Divided ==
    ASSUME NEW b \in Nat \ {0}, NEW n \in Nat, NEW s \in Nat, n * b <= s, s < (n + 1) * b
    PROVE  s \div b = n
OBVIOUS

LEMMA SectorsOf ==
    ASSUME NEW size \in Nat
    PROVE  /\ InImage(size) \in Nat \ {0}
           /\ \A n \in Nat \ {0} : (n = 1 \/ n * SectorBytes <= size) /\ ~((n + 1) * SectorBytes <= size)
                  => n = InImage(size)
<1>1. SectorBytes \in Nat \ {0}
  BY BytesAssumption
<1>2. InImage(size) \in Nat \ {0}
  <2>1. CASE size < SectorBytes
    BY <2>1 DEF InImage
  <2>2. CASE ~(size < SectorBytes)
    <3>1. size \div SectorBytes \in Nat /\ size \div SectorBytes # 0
      BY <1>1, <2>2
    <3> QED
      BY <2>2, <3>1 DEF InImage
  <2> QED
    BY <2>1, <2>2
<1>3. ASSUME NEW n \in Nat \ {0}, n = 1 \/ n * SectorBytes <= size, ~((n + 1) * SectorBytes <= size)
      PROVE  n = InImage(size)
  <2>1. CASE size < SectorBytes
    <3>1. n = 1
      <4>1. n # 1 => n * SectorBytes >= SectorBytes
        BY <1>1
      <4> QED
        BY <1>1, <1>3, <2>1, <4>1
    <3> QED
      BY <2>1, <3>1 DEF InImage
  <2>2. CASE ~(size < SectorBytes)
    <3>1. n * SectorBytes <= size
      BY <1>1, <1>3, <2>2
    <3>2. size < (n + 1) * SectorBytes
      BY <1>1, <1>3
    <3>3. size \div SectorBytes = n
      BY <1>1, <3>1, <3>2, Divided
    <3> QED
      BY <2>2, <3>3 DEF InImage
  <2> QED
    BY <2>1, <2>2
<1> QED
  BY <1>2, <1>3

-----------------------------------------------------------------------------
(* nucflop                                                                  *)

LEMMA FilesAre ==
    /\ Len(Files) \in Nat \ {0}
    /\ \A i \in 1 .. Len(Files) : Files[i] \in File /\ Files[i] # NoName
    /\ \A i, j \in 1 .. Len(Files) : Files[i] = Files[j] => i = j
    /\ \A f \in File : f # NoName
<1>1. Len(Files) \in Nat
  BY NamesAssumption
<1>2. Len(Files) # 0
  BY <1>1, LoaderAssumption DEF File
<1> QED
  BY <1>1, <1>2, NamesAssumption DEF File

\* What the invariant says of the file nucflop is at.
LEMMA ThisIs ==
    ASSUME ToolTypes, RootInv, tool \in {"format", "boot", "open", "write", "entry"}
    PROVE  /\ fileno \in 1 .. Len(Files) /\ fileno + 1 \in 1 .. Len(Files) + 1
           /\ This \in File /\ This # NoName
           /\ \A s \in Slot : root[s].name # This
<1>1. fileno \in 1 .. Len(Files) /\ fileno + 1 \in 1 .. Len(Files) + 1
  BY FilesAre DEF ToolTypes
<1>2. This \in File /\ This # NoName
  BY <1>1, FilesAre DEF This
<1>3. ASSUME NEW s \in Slot, root[s].name = This PROVE FALSE
  <2>1. PICK i \in 1 .. fileno - 1 : root[s].name = Files[i]
    BY <1>2, <1>3 DEF RootInv
  <2>2. i \in 1 .. Len(Files) /\ i # fileno
    BY <1>1, <2>1
  <2> QED
    BY <1>1, <1>3, <2>1, <2>2, FilesAre DEF This
<1> QED
  BY <1>1, <1>2, <1>3

LEMMA ToolInitInv == ASSUME ToolInit PROVE ToolInv
<1> USE DEF ToolInit
<1>1. MaxCluster \in Nat /\ MaxCluster >= 2
  BY MaxClusterAssumption
<1>2. ToolTypes
  <2>1. fat1 \in Table /\ fat2 = fat1
    BY EmptyTable
  <2>2. root \in [Slot -> [name : File \cup {NoName}, first : {0} \cup Cluster, size : Nat]]
    BY DEF FreeSlot
  <2>3. fileno \in 1 .. Len(Files) + 1 /\ fileno <= Len(Files)
    BY FilesAre
  <2> QED
    BY <2>1, <2>2, <2>3 DEF ToolTypes
<1>3. RootInv
  <2>1. \A s \in Slot : root[s] = FreeSlot /\ root[s].name = NoName
    BY DEF FreeSlot
  <2>2. {s \in Slot : root[s] # FreeSlot} = {}
    BY <2>1
  <2>3. Cardinality({s \in Slot : root[s] # FreeSlot}) = 0
    BY <2>2, FS_EmptySet
  <2> QED
    BY <2>1, <2>3 DEF RootInv
<1>4. DataInv
  <2>1. \A s \in Slot : root[s].name = NoName
    BY DEF FreeSlot
  <2>2. \A c \in Cluster : data[c] = EmptySector /\ FatEntry(fat1, c) = 0
    BY EmptyTable
  <2> QED
    BY <2>1, <2>2 DEF DataInv
<1>5. WriteInv
  BY DEF WriteInv, AtFile
<1> QED
  BY <1>2, <1>3, <1>4, <1>5 DEF ToolInv

\* The directory stays, and nucflop at its file or goes on to the next.
LEMMA RootKept ==
    ASSUME ToolTypes, RootInv, root' = root, fileno' \in {fileno, fileno + 1}
    PROVE  RootInv'
<1>1. fileno \in Nat
  BY FilesAre DEF ToolTypes
<1>2. \A s \in Slot : root'[s].name # NoName => \E i \in 1 .. fileno' - 1 : root'[s].name = Files[i]
  <2> SUFFICES ASSUME NEW s \in Slot, root[s].name # NoName
               PROVE  \E i \in 1 .. fileno' - 1 : root[s].name = Files[i]
    OBVIOUS
  <2>1. PICK i \in 1 .. fileno - 1 : root[s].name = Files[i]
    BY DEF RootInv
  <2>2. i \in Nat /\ 1 <= i /\ i <= fileno - 1
    BY <1>1, <2>1
  <2>3. fileno' \in Nat /\ fileno <= fileno'
    BY <1>1
  <2>4. i \in 1 .. fileno' - 1
    <3>1. \A a, b \in Nat : \A j \in Nat : 1 <= j /\ j <= a - 1 /\ a <= b => j \in 1 .. b - 1
      OBVIOUS
    <3> QED
      BY <1>1, <2>2, <2>3, <3>1
  <2> QED
    BY <2>1, <2>4
<1>3. Cardinality({s \in Slot : root'[s] # FreeSlot}) < fileno'
  <2>1. Cardinality({s \in Slot : root[s] # FreeSlot}) < fileno
    BY DEF RootInv
  <2>2. {s \in Slot : root[s] # FreeSlot} \subseteq Slot /\ IsFiniteSet(Slot)
    BY BytesAssumption, FS_Interval DEF Slot
  <2>3. Cardinality({s \in Slot : root[s] # FreeSlot}) \in Nat
    BY <2>2, FS_Subset, FS_CardinalityType
  <2> QED
    BY <1>1, <2>1, <2>3
<1> QED
  BY <1>2, <1>3 DEF RootInv

\* The data stay, and what the table says of them.
LEMMA DataKept ==
    ASSUME DataInv, data' = data, root' = root, ~AtFile,
           \A c \in Cluster : FatEntry(fat1', c) = FatEntry(fat1, c)
    PROVE  DataInv'
<1>1. \A c \in Cluster : data'[c] = EmptySector <=> FatEntry(fat1', c) = 0
  BY DEF DataInv
<1>2. \A c, d \in Cluster : data'[c] # EmptySector /\ data'[c] = data'[d] => c = d
  BY DEF DataInv
<1>3. \A c \in Cluster : data'[c] # EmptySector => \E s \in Slot : root'[s].name = data'[c][1]
  BY DEF DataInv
<1>4. ASSUME NEW s \in Slot, root'[s].name # NoName PROVE Filed(s)'
  <2>1. Filed(s)
    BY <1>4 DEF DataInv
  <2>2. Whole(data', fat1', root[s].name, InImage(root[s].size), EndOfFile)
    BY <2>1, WholeKept DEF Filed
  <2>3. Whole(data', fat1', root'[s].name, InImage(root'[s].size), EndOfFile)
    BY <2>2
  <2> QED
    BY <2>1, <2>3 DEF Filed, Whole
<1> QED
  BY <1>1, <1>2, <1>3, <1>4 DEF DataInv

LEMMA FormatDiskInv == ASSUME ToolInv, FormatDisk PROVE ToolInv'
<1> USE DEF ToolInv, FormatDisk, writeVars
<1>1. fat1 \in Table /\ fat2 = fat1
  BY DEF ToolTypes
<1>2. fat1' \in Table /\ fat2' = fat1' /\ \A c \in Cluster : FatEntry(fat1', c) = FatEntry(fat1, c)
  BY <1>1, HeadOfTable
<1>3. ToolTypes'
  BY <1>2 DEF ToolTypes
<1>4. RootInv'
  BY RootKept
<1>5. DataInv'
  BY <1>2, DataKept DEF AtFile
<1>6. WriteInv'
  BY DEF WriteInv, AtFile
<1> QED
  BY <1>3, <1>4, <1>5, <1>6

LEMMA LoadBootSectorInv == ASSUME ToolInv, LoadBootSector PROVE ToolInv'
<1> USE DEF ToolInv, LoadBootSector, writeVars
<1>3. ToolTypes'
  BY DEF ToolTypes
<1>4. RootInv'
  BY RootKept
<1>5. DataInv'
  BY DataKept DEF AtFile
<1>6. WriteInv'
  BY DEF WriteInv, AtFile
<1> QED
  BY <1>3, <1>4, <1>5, <1>6

LEMMA SaveImageInv == ASSUME ToolInv, SaveImage PROVE ToolInv'
<1> USE DEF ToolInv, SaveImage, writeVars
<1>3. ToolTypes'
  BY DEF ToolTypes
<1>4. RootInv'
  BY RootKept
<1>5. DataInv'
  BY DataKept DEF AtFile
<1>6. WriteInv'
  BY DEF WriteInv, AtFile
<1> QED
  BY <1>3, <1>4, <1>5, <1>6

\* find_dirlimit() finds an entry: fewer are in use than there are to look at.
LEMMA EntryFound ==
    ASSUME ToolTypes, RootInv, fileno <= Len(Files)
    PROVE  find_dirlimit \in Slot /\ root[find_dirlimit] = FreeSlot
<1>1. Seen \subseteq Slot /\ Slot \in SUBSET Nat /\ IsFiniteSet(Slot)
  BY BytesAssumption, FS_Interval DEF Seen, Slot
<1> DEFINE U == {s \in Slot : root[s] # FreeSlot}
<1>2. /\ IsFiniteSet(Seen) /\ IsFiniteSet(U)
      /\ Cardinality(Seen) \in Nat /\ Cardinality(U) \in Nat
  BY <1>1, FS_Subset, FS_CardinalityType
<1>3. Cardinality(U) < Cardinality(Seen)
  <2>1. Cardinality(U) < fileno
    BY DEF RootInv
  <2> QED
    BY <1>2, <2>1, FilesAre, RoomAssumption DEF ToolTypes
<1>4. SeenFree # {}
  <2>1. ASSUME SeenFree = {} PROVE FALSE
    <3>1. Seen \subseteq U
      BY <1>1, <2>1 DEF SeenFree
    <3>2. Cardinality(Seen) <= Cardinality(U)
      BY <1>2, <3>1, FS_Subset
    <3> QED
      BY <1>2, <1>3, <3>2
  <2> QED
    BY <2>1
<1>5. SeenFree \in SUBSET Nat
  BY <1>1 DEF SeenFree
<1>6. \E s \in SeenFree : \A r \in SeenFree : s <= r
  BY <1>4, <1>5, LeastNat
<1>7. find_dirlimit \in SeenFree
  BY <1>4, <1>6 DEF find_dirlimit
<1> QED
  BY <1>1, <1>7 DEF SeenFree

\* nucflop goes on to the next file.
LEMMA NextFileTypes ==
    ASSUME ToolTypes, RootInv, tool \in {"open", "write", "entry"}, NEW r, NextFile(r)
    PROVE  /\ fileno' \in 1 .. Len(Files) + 1 /\ fileno' = fileno + 1
           /\ tool' \in {"open", "save"}
           /\ tool' = "open" => fileno' <= Len(Files)
<1>1. fileno \in 1 .. Len(Files) /\ fileno + 1 \in 1 .. Len(Files) + 1
  BY ThisIs
<1>2. fileno' = fileno + 1 /\ tool' = IF fileno = Len(Files) THEN "save" ELSE "open"
  BY DEF NextFile
<1>3. fileno # Len(Files) => fileno + 1 <= Len(Files)
  BY <1>1, FilesAre
<1> QED
  BY <1>1, <1>2, <1>3

LEMMA OpenFileInv == ASSUME ToolInv, OpenFile PROVE ToolInv'
<1> USE DEF ToolInv
<1>1. tool = "open" /\ UNCHANGED imageVars
  BY DEF OpenFile
<1>2. UNCHANGED <<boot, fat1, fat2, root, data>>
  BY <1>1 DEF imageVars
<1>3. ~AtFile
  BY <1>1 DEF AtFile
<1>4. DataInv'
  BY <1>2, <1>3, DataKept
<1>5. CASE \E r : NextFile(r)
  <2>1. /\ fileno' \in 1 .. Len(Files) + 1 /\ fileno' = fileno + 1
        /\ tool' \in {"open", "save"}
        /\ tool' = "open" => fileno' <= Len(Files)
    BY <1>1, <1>5, NextFileTypes
  <2>2. ToolTypes'
    BY <1>2, <2>1 DEF ToolTypes
  <2>3. RootInv'
    BY <1>2, <2>1, RootKept
  <2>4. WriteInv'
    BY <2>1 DEF WriteInv, AtFile
  <2> QED
    BY <1>4, <2>2, <2>3, <2>4
<1>6. CASE \E size \in FileSizes :
            /\ Enough(size) /\ filesize' = size /\ got' = 1
            /\ cluster' = get_free_cluster(fat1) /\ first' = cluster' /\ slot' = find_dirlimit
            /\ tool' = "write" /\ UNCHANGED <<fileno, failed>>
  <2>1. PICK size \in FileSizes :
            /\ Enough(size) /\ filesize' = size /\ got' = 1
            /\ cluster' = get_free_cluster(fat1) /\ first' = cluster' /\ slot' = find_dirlimit
            /\ tool' = "write" /\ UNCHANGED <<fileno, failed>>
    BY <1>6
  <2>2. size \in Nat /\ SectorBytes \in Nat \ {0} /\ MaxCluster \in Nat /\ MaxCluster >= 2
    BY BytesAssumption, MaxClusterAssumption
  <2>3. fileno \in 1 .. Len(Files) /\ This \in File /\ \A s \in Slot : root[s].name # This
    BY <1>1, ThisIs
  <2>4. ToolTypes'
    BY <1>2, <2>1, <2>3 DEF ToolTypes
  <2>5. RootInv'
    BY <1>2, <2>1, RootKept
  <2> DEFINE n == get_disk_free(fat1)
  <2>6. n \in Nat /\ n <= MaxCluster - 1 /\ n = Cardinality(FreeClusters(fat1))
    BY FreeFinite DEF get_disk_free
  <2>7. n * SectorBytes >= size + SectorBytes
    BY <2>1 DEF Enough
  <2>8. FreeClusters(fat1) # {}
    <3>1. ASSUME FreeClusters(fat1) = {} PROVE FALSE
      <4>1. n = 0
        BY <2>6, <3>1, FS_EmptySet
      <4> QED
        BY <2>2, <2>7, <4>1
    <3> QED
      BY <3>1
  <2>9. cluster' \in FreeClusters(fat1) /\ cluster' \in Cluster
    BY <2>1, <2>8, FirstFreeIs DEF FreeClusters
  <2>10. slot' \in Slot /\ root'[slot'] = FreeSlot
    BY <1>2, <2>1, <2>3, EntryFound
  <2>11. \A c \in Cluster : \A i : data[c] # <<This, i>>
    <3> SUFFICES ASSUME NEW c \in Cluster, NEW i, data[c] = <<This, i>> PROVE FALSE
      OBVIOUS
    <3>1. \E s \in Slot : root[s].name = data[c][1]
      BY <1>3, Sectors DEF DataInv
    <3> QED
      BY <2>3, <3>1, Sectors
  <2>12. This' = This
    BY <2>1 DEF This
  <2>13. Whole(data', fat1', This', got' - 1, cluster')
    <3>1. Whole(data, fat1, This, 0, cluster')
      BY <2>11, WholeNone
    <3> QED
      BY <1>2, <2>1, <2>12, <3>1
  <2>14. (n + 1) * SectorBytes >= size + 2 * SectorBytes /\ n + 1 <= MaxCluster
    BY <2>2, <2>6, <2>7
  <2> HIDE DEF n
  <2>15. get_disk_free(fat1') = n
    BY <1>2 DEF n
  <2>16. cluster' \in FreeClusters(fat1')
    BY <1>2, <2>9
  <2>17. WriteInv'
    <3>1. AtFile' =>
          /\ slot' \in Slot /\ root'[slot'] = FreeSlot
          /\ filesize' \in Nat /\ got' \in Nat \ {0} /\ first' \in Cluster
          /\ got' = 1 \/ got' * SectorBytes <= filesize'
          /\ got' > 1 \/ tool' = "entry" => data'[first'] = <<This', 1>>
      BY <2>1, <2>2, <2>9, <2>10
    <3>2. /\ got' = 1 => first' = cluster'
          /\ (get_disk_free(fat1') + got') * SectorBytes >= filesize' + 2 * SectorBytes
          /\ get_disk_free(fat1') + got' <= MaxCluster
      BY <2>1, <2>14, <2>15
    <3> QED
      BY <2>1, <2>13, <2>16, <3>1, <3>2 DEF WriteInv, Whole, get_disk_free, FreeClusters
  <2> QED
    BY <1>4, <2>4, <2>5, <2>17
<1> QED
  BY <1>5, <1>6 DEF OpenFile

(***************************************************************************)
(* A round of write_file() puts a sector where the chain was to go on.     *)
(***************************************************************************)
LEMMA ClusterWritten ==
    ASSUME ToolInv, WriteCluster, NEW end, end # 0,
           \A c \in Cluster : FatEntry(fat1', c) = IF c = cluster THEN end ELSE FatEntry(fat1, c)
    PROVE  /\ data' \in [Cluster -> {EmptySector} \cup (File \X (1 .. MaxCluster))]
           /\ \A c \in Cluster : data'[c] = EmptySector <=> FatEntry(fat1', c) = 0
           /\ \A c, d \in Cluster : data'[c] # EmptySector /\ data'[c] = data'[d] => c = d
           /\ \A c \in Cluster : data'[c] # EmptySector =>
                (\E s \in Slot : root[s].name = data'[c][1]) \/ data'[c][1] = This
           /\ \A s \in Slot : root[s].name # NoName => Filed(s)'
           /\ Whole(data', fat1', This, got, end)
           /\ first \in Cluster /\ data'[first] = <<This, 1>>
           /\ FreeClusters(fat1') = FreeClusters(fat1) \ {cluster}
           /\ get_disk_free(fat1') = get_disk_free(fat1) - 1
           /\ get_disk_free(fat1) \in Nat /\ got \in Nat \ {0} /\ got <= MaxCluster
<1> USE DEF ToolInv
<1>1. tool = "write" /\ data' = [data EXCEPT ![cluster] = <<This, got>>] /\ root' = root
  BY DEF WriteCluster, This
<1>2. /\ fileno \in 1 .. Len(Files) /\ This \in File /\ This # NoName
      /\ \A s \in Slot : root[s].name # This
  BY <1>1, ThisIs
<1>3. /\ cluster \in FreeClusters(fat1) /\ first \in Cluster
      /\ got = 1 => first = cluster
      /\ got > 1 => data[first] = <<This, 1>>
      /\ got \in Nat \ {0}
      /\ get_disk_free(fat1) + got <= MaxCluster
      /\ Whole(data, fat1, This, got - 1, cluster)
  BY <1>1 DEF WriteInv, AtFile
<1>4. cluster \in Cluster /\ FatEntry(fat1, cluster) = 0
  BY <1>3 DEF FreeClusters
<1>5. data[cluster] = EmptySector
  BY <1>4 DEF DataInv
<1>6. /\ get_disk_free(fat1) \in Nat /\ IsFiniteSet(FreeClusters(fat1))
      /\ get_disk_free(fat1) = Cardinality(FreeClusters(fat1))
  BY FreeFinite DEF get_disk_free
<1>7. got \in 1 .. MaxCluster /\ got <= MaxCluster /\ MaxCluster \in Nat
  BY <1>3, <1>6, MaxClusterAssumption
<1>8. data \in [Cluster -> Contents]
  BY DEF ToolTypes, Contents
<1>9. <<This, got>> \in Contents
  BY <1>2, <1>7, ContentsAre
<1>10. data' \in [Cluster -> Contents]
  BY <1>1, <1>8, <1>9
<1>11. data'[cluster] = <<This, got>> /\ \A c \in Cluster : c # cluster => data'[c] = data[c]
  BY <1>1, <1>4, <1>8
<1>12. <<This, got>> # EmptySector /\ <<This, got>>[1] = This
  BY Sectors
<1>13. \A c \in Cluster : data[c] # <<This, got>>
  <2> SUFFICES ASSUME NEW c \in Cluster, data[c] = <<This, got>> PROVE FALSE
    OBVIOUS
  <2>1. got <= got - 1
    BY <1>3, <1>7 DEF Whole
  <2> QED
    BY <1>7, <2>1
<1>14. \A c \in Cluster : data'[c] = EmptySector <=> FatEntry(fat1', c) = 0
  <2>1. \A c \in Cluster : data[c] = EmptySector <=> FatEntry(fat1, c) = 0
    BY DEF DataInv
  <2> QED
    BY <1>11, <1>12, <2>1
<1>15. \A c, d \in Cluster : data'[c] # EmptySector /\ data'[c] = data'[d] => c = d
  <2>1. \A c, d \in Cluster : data[c] # EmptySector /\ data[c] = data[d] => c = d
    BY DEF DataInv
  <2> QED
    BY <1>11, <1>13, <2>1
<1>16. \A c \in Cluster : data'[c] # EmptySector =>
           (\E s \in Slot : root[s].name = data'[c][1]) \/ data'[c][1] = This
  <2>1. \A c \in Cluster : data[c] # EmptySector =>
           (\E s \in Slot : root[s].name = data[c][1]) \/ data[c][1] = This
    BY DEF DataInv
  <2> QED
    BY <1>11, <1>12, <2>1
<1>17. ASSUME NEW s \in Slot, root[s].name # NoName PROVE Filed(s)'
  <2>1. /\ root[s].first \in Cluster
        /\ data[root[s].first] = <<root[s].name, 1>>
        /\ InImage(root[s].size) \in 1 .. MaxCluster
        /\ Whole(data, fat1, root[s].name, InImage(root[s].size), EndOfFile)
    BY <1>17 DEF DataInv, Filed
  <2>2. root[s].first # cluster
    BY <1>5, <2>1, Sectors
  <2> DEFINE f == root[s].name
             n == InImage(root[s].size)
  <2>3. ASSUME NEW c \in Cluster, NEW i PROVE data'[c] = <<f, i>> <=> data[c] = <<f, i>>
    <3>1. CASE c = cluster
      <4>1. f # This
        BY <1>2
      <4>2. data'[c] # <<f, i>>
        BY <1>11, <3>1, <4>1, Sectors
      <4>3. data[c] # <<f, i>>
        BY <1>5, <3>1, Sectors
      <4> QED
        BY <4>2, <4>3
    <3>2. CASE c # cluster
      BY <1>11, <3>2
    <3> QED
      BY <3>1, <3>2
  <2>4. \A c \in Cluster : \A i : data[c] = <<f, i>> => FatEntry(fat1', c) = FatEntry(fat1, c)
    BY <1>5, Sectors
  <2>9. Whole(data, fat1, f, n, EndOfFile)
    BY <2>1
  <2> HIDE DEF f, n
  <2>10. Whole(data', fat1', f, n, EndOfFile)
    BY <2>3, <2>4, <2>9, WholeKept
  <2>5. Whole(data', fat1', root[s].name, InImage(root[s].size), EndOfFile)
    BY <2>10 DEF f, n
  <2>6. data'[root[s].first] = <<root[s].name, 1>>
    BY <1>11, <2>1, <2>2
  <2>7. Whole(data', fat1', root'[s].name, InImage(root'[s].size), EndOfFile)
    BY <1>1, <2>5
  <2>8. /\ root'[s].first \in Cluster
        /\ data'[root'[s].first] = <<root'[s].name, 1>>
        /\ InImage(root'[s].size) \in 1 .. MaxCluster
    BY <1>1, <2>1, <2>6
  <2> QED
    BY <2>7, <2>8 DEF Filed, Whole
<1>18. Whole(data', fat1', This, got, end)
  <2>1. Whole([data EXCEPT ![cluster] = <<This, got>>], fat1', This, got, end)
    BY <1>3, <1>4, <1>5, <1>7, <1>8, WholeLonger
  <2> QED
    BY <1>1, <2>1
<1>19. data'[first] = <<This, 1>>
  <2>1. CASE got = 1
    BY <1>3, <1>11, <2>1
  <2>2. CASE got # 1
    <3>1. data[first] = <<This, 1>>
      BY <1>3, <1>7, <2>2
    <3>2. first # cluster
      BY <1>5, <3>1, Sectors
    <3> QED
      BY <1>3, <1>11, <3>1, <3>2
  <2> QED
    BY <2>1, <2>2
<1>20. FreeClusters(fat1') = FreeClusters(fat1) \ {cluster}
  BY DEF FreeClusters
<1>21. get_disk_free(fat1') = get_disk_free(fat1) - 1
  BY <1>3, <1>6, <1>20, FS_RemoveElement DEF get_disk_free
<1> QED
  BY <1>3, <1>6, <1>7, <1>10, <1>14, <1>15, <1>16, <1>17, <1>18, <1>19, <1>20, <1>21 DEF Contents

\* The table with the last cluster ended, and with the next free one linked to it.
LEMMA TableWritten ==
    ASSUME ToolInv, tool = "write"
    PROVE  /\ Ended[1] \in Table /\ Ended[2] = Ended[1]
           /\ \A c \in Cluster :
                 FatEntry(Ended[1], c) = IF c = cluster THEN EndOfFile ELSE FatEntry(fat1, c)
           /\ FreeClusters(Ended[1]) = FreeClusters(fat1) \ {cluster}
           /\ \A e \in Cluster : LET u == write_fatentry(Ended[1], Ended[2], cluster, e)
              IN  /\ u[1] \in Table /\ u[2] = u[1]
                  /\ \A c \in Cluster :
                        FatEntry(u[1], c) = IF c = cluster THEN e ELSE FatEntry(fat1, c)
<1>1. fat1 \in Table /\ fat2 = fat1 /\ cluster \in Cluster
  BY DEF ToolInv, ToolTypes, WriteInv, FreeClusters
<1>2. EndOfFile \in Entry /\ EndOfFile # 0
  BY ClusterRange
<1>3. /\ Ended[1] \in Table /\ Ended[2] = Ended[1]
      /\ \A c \in Cluster :
            FatEntry(Ended[1], c) = IF c = cluster THEN EndOfFile ELSE FatEntry(fat1, c)
  BY <1>1, <1>2, WriteEntryIn DEF Ended
<1>4. FreeClusters(Ended[1]) = FreeClusters(fat1) \ {cluster}
  BY <1>2, <1>3 DEF FreeClusters
<1>5. PICK v : v = Ended[1]
  OBVIOUS
<1>6. ASSUME NEW e \in Cluster
      PROVE  LET u == write_fatentry(v, v, cluster, e)
             IN  /\ u[1] \in Table /\ u[2] = u[1]
                 /\ \A c \in Cluster : FatEntry(u[1], c) = IF c = cluster THEN e ELSE FatEntry(fat1, c)
  <2> DEFINE u == write_fatentry(v, v, cluster, e)
  <2>1. e \in Entry
    BY ClusterRange
  <2>2. /\ u[1] \in Table /\ u[2] = u[1]
        /\ \A d \in Cluster : FatEntry(u[1], d) = IF d = cluster THEN e ELSE FatEntry(v, d)
    BY <1>1, <1>3, <1>5, <2>1, WriteEntryIn
  <2> HIDE DEF u
  <2>3. \A c \in Cluster : FatEntry(u[1], c) = IF c = cluster THEN e ELSE FatEntry(fat1, c)
    BY <1>3, <1>5, <2>2
  <2> QED
    BY <2>2, <2>3 DEF u
<1> QED
  BY <1>3, <1>4, <1>5, <1>6

\* Room is left for what is still to be read.
LEMMA RoomLeft ==
    ASSUME ToolInv, tool = "write", MoreToRead(got)
    PROVE  get_free_cluster(Ended[1]) \in FreeClusters(fat1) \ {cluster}
           /\ get_free_cluster(Ended[1]) # -1
<1>1. /\ filesize \in Nat /\ got \in Nat \ {0} /\ cluster \in FreeClusters(fat1)
      /\ (get_disk_free(fat1) + got) * SectorBytes >= filesize + 2 * SectorBytes
  BY DEF ToolInv, WriteInv, AtFile
<1>2. /\ get_disk_free(fat1) \in Nat /\ IsFiniteSet(FreeClusters(fat1))
      /\ get_disk_free(fat1) = Cardinality(FreeClusters(fat1))
  BY FreeFinite DEF get_disk_free
<1>3. SectorBytes \in Nat \ {0} /\ (got + 1) * SectorBytes <= filesize
  BY BytesAssumption DEF MoreToRead
<1>4. get_disk_free(fat1) # 1
  <2>1. ASSUME get_disk_free(fat1) = 1 PROVE FALSE
    <3>1. (1 + got) * SectorBytes >= filesize + 2 * SectorBytes
      BY <1>1, <2>1
    <3> QED
      BY <1>1, <1>3, <3>1
  <2> QED
    BY <2>1
<1>5. FreeClusters(fat1) \ {cluster} # {}
  <2>1. ASSUME FreeClusters(fat1) \ {cluster} = {} PROVE FALSE
    <3>1. FreeClusters(fat1) = {cluster}
      BY <1>1, <2>1
    <3> QED
      BY <1>2, <1>4, <3>1, FS_Singleton
  <2> QED
    BY <2>1
<1> QED
  BY <1>5, TableWritten, FirstFreeIs

LEMMA WriteClusterInv == ASSUME ToolInv, WriteCluster PROVE ToolInv'
<1>1. tool = "write" /\ UNCHANGED <<boot, root, filesize, slot, first>>
  BY DEF WriteCluster
<1>2. ToolTypes /\ RootInv /\ fileno \in 1 .. Len(Files) /\ fileno + 1 \in 1 .. Len(Files) + 1
  BY <1>1, ThisIs DEF ToolInv
<1>3. /\ slot \in Slot /\ root[slot] = FreeSlot
      /\ filesize \in Nat /\ got \in Nat \ {0} /\ first \in Cluster
      /\ got = 1 \/ got * SectorBytes <= filesize
      /\ (get_disk_free(fat1) + got) * SectorBytes >= filesize + 2 * SectorBytes
      /\ get_disk_free(fat1) + got <= MaxCluster
  BY <1>1 DEF ToolInv, WriteInv, AtFile
<1>4. SectorBytes \in Nat \ {0} /\ MaxCluster \in Nat
  BY BytesAssumption, MaxClusterAssumption
<1>5. CASE MoreToRead(got)
  <2> DEFINE c == get_free_cluster(Ended[1])
             u == write_fatentry(Ended[1], Ended[2], cluster, c)
  <2>1. c \in FreeClusters(fat1) \ {cluster} /\ c # -1
    BY <1>1, <1>5, RoomLeft
  <2>2. c \in Cluster /\ c # 0
    BY <2>1, ClusterRange DEF FreeClusters
  <2>3. fat1' = u[1] /\ fat2' = u[2] /\ got' = got + 1 /\ cluster' = c /\ UNCHANGED <<tool, fileno, failed>>
    BY <1>5, <2>1 DEF WriteCluster
  <2>4. /\ u[1] \in Table /\ u[2] = u[1]
        /\ \A b \in Cluster : FatEntry(u[1], b) = IF b = cluster THEN c ELSE FatEntry(fat1, b)
    BY <1>1, <2>2, TableWritten
  <2> HIDE DEF u, c
  <2>5. /\ data' \in [Cluster -> {EmptySector} \cup (File \X (1 .. MaxCluster))]
        /\ \A b \in Cluster : data'[b] = EmptySector <=> FatEntry(fat1', b) = 0
        /\ \A b, d \in Cluster : data'[b] # EmptySector /\ data'[b] = data'[d] => b = d
        /\ \A b \in Cluster : data'[b] # EmptySector =>
             (\E s \in Slot : root[s].name = data'[b][1]) \/ data'[b][1] = This
        /\ \A s \in Slot : root[s].name # NoName => Filed(s)'
        /\ Whole(data', fat1', This, got, c)
        /\ first \in Cluster /\ data'[first] = <<This, 1>>
        /\ FreeClusters(fat1') = FreeClusters(fat1) \ {cluster}
        /\ get_disk_free(fat1') = get_disk_free(fat1) - 1
        /\ get_disk_free(fat1) \in Nat /\ got \in Nat \ {0} /\ got <= MaxCluster
    BY <2>2, <2>3, <2>4, ClusterWritten
  <2>6. ToolTypes'
    BY <1>1, <1>2, <2>3, <2>4, <2>5 DEF ToolTypes
  <2>7. RootInv'
    BY <1>1, <1>2, <2>3, RootKept
  <2>8. This' = This /\ AtFile'
    BY <1>1, <2>3 DEF This, AtFile
  <2>9. DataInv'
    BY <1>1, <2>5, <2>8 DEF DataInv
  <2>10. /\ got' \in Nat \ {0} /\ got' > 1 /\ got' * SectorBytes <= filesize
         /\ (get_disk_free(fat1') + got') * SectorBytes >= filesize + 2 * SectorBytes
         /\ get_disk_free(fat1') + got' <= MaxCluster
         /\ got' - 1 = got
    <3>1. got' = got + 1 /\ (got + 1) * SectorBytes <= filesize
      BY <1>5, <2>3 DEF MoreToRead
    <3>2. get_disk_free(fat1') + got' = get_disk_free(fat1) + got
      BY <2>5, <3>1
    <3>3. got' \in Nat \ {0} /\ got' > 1 /\ got' - 1 = got
      BY <1>3, <3>1
    <3> QED
      BY <1>3, <3>1, <3>2, <3>3
  <2>11. cluster' \in FreeClusters(fat1')
    BY <2>1, <2>3, <2>5
  <2>12. Whole(data', fat1', This', got' - 1, cluster')
    BY <2>3, <2>5, <2>8, <2>10
  <2>13. tool' = "write" /\ got' # 1
    BY <1>1, <2>3, <2>10
  <2>14. AtFile' =>
          /\ slot' \in Slot /\ root'[slot'] = FreeSlot
          /\ filesize' \in Nat /\ got' \in Nat \ {0} /\ first' \in Cluster
          /\ got' = 1 \/ got' * SectorBytes <= filesize'
          /\ got' > 1 \/ tool' = "entry" => data'[first'] = <<This', 1>>
    BY <1>1, <1>3, <2>5, <2>8, <2>10
  <2>15. WriteInv'
    BY <1>1, <2>10, <2>11, <2>12, <2>13, <2>14 DEF WriteInv, Whole, get_disk_free, FreeClusters
  <2> QED
    BY <2>6, <2>7, <2>9, <2>15 DEF ToolInv
<1>6. CASE ~MoreToRead(got)
  <2>1. /\ fat1' = Ended[1] /\ fat2' = Ended[2] /\ tool' = "entry"
        /\ UNCHANGED <<fileno, failed>> /\ UNCHANGED <<got, cluster>>
    BY <1>6 DEF WriteCluster
  <2>2. /\ Ended[1] \in Table /\ Ended[2] = Ended[1]
        /\ \A c \in Cluster :
              FatEntry(Ended[1], c) = IF c = cluster THEN EndOfFile ELSE FatEntry(fat1, c)
    BY <1>1, TableWritten
  <2>3. EndOfFile # 0
    BY ClusterRange
  <2>5. /\ data' \in [Cluster -> {EmptySector} \cup (File \X (1 .. MaxCluster))]
        /\ \A b \in Cluster : data'[b] = EmptySector <=> FatEntry(fat1', b) = 0
        /\ \A b, d \in Cluster : data'[b] # EmptySector /\ data'[b] = data'[d] => b = d
        /\ \A b \in Cluster : data'[b] # EmptySector =>
             (\E s \in Slot : root[s].name = data'[b][1]) \/ data'[b][1] = This
        /\ \A s \in Slot : root[s].name # NoName => Filed(s)'
        /\ Whole(data', fat1', This, got, EndOfFile)
        /\ first \in Cluster /\ data'[first] = <<This, 1>>
        /\ got \in Nat \ {0} /\ got <= MaxCluster
    BY <2>1, <2>2, <2>3, ClusterWritten
  <2>6. ToolTypes'
    BY <1>1, <1>2, <2>1, <2>2, <2>5 DEF ToolTypes
  <2>7. RootInv'
    BY <1>1, <1>2, <2>1, RootKept
  <2>8. This' = This /\ AtFile'
    BY <1>1, <2>1 DEF This, AtFile
  <2>9. DataInv'
    BY <1>1, <2>5, <2>8 DEF DataInv
  <2>10. got = InImage(filesize)
    BY <1>3, <1>6, SectorsOf DEF MoreToRead
  <2>12. Whole(data', fat1', This', got', EndOfFile)
    BY <2>1, <2>5, <2>8
  <2>14. /\ slot' \in Slot /\ root'[slot'] = FreeSlot
         /\ filesize' \in Nat /\ got' \in Nat \ {0} /\ first' \in Cluster
         /\ got' = 1 \/ got' * SectorBytes <= filesize'
         /\ data'[first'] = <<This', 1>>
         /\ got' <= MaxCluster /\ got' = InImage(filesize')
    BY <1>1, <1>3, <2>1, <2>5, <2>8, <2>10
  <2>15. WriteInv'
    BY <2>1, <2>12, <2>14 DEF WriteInv, Whole
  <2> QED
    BY <2>6, <2>7, <2>9, <2>15 DEF ToolInv
<1> QED
  BY <1>5, <1>6

LEMMA WriteEntryInv == ASSUME ToolInv, WriteEntry PROVE ToolInv'
<1> DEFINE e == [name |-> This, first |-> first, size |-> filesize]
           U == {s \in Slot : root[s] # FreeSlot}
<1>1. tool = "entry" /\ UNCHANGED <<boot, fat1, fat2>>
  BY DEF WriteEntry
<1>2. /\ ToolTypes /\ RootInv /\ DataInv
      /\ fileno \in 1 .. Len(Files) /\ fileno + 1 \in 1 .. Len(Files) + 1
      /\ This \in File /\ This # NoName
      /\ \A s \in Slot : root[s].name # This
  BY <1>1, ThisIs DEF ToolInv
<1>3. /\ slot \in Slot /\ root[slot] = FreeSlot
      /\ filesize \in Nat /\ got \in Nat \ {0} /\ first \in Cluster
      /\ data[first] = <<This, 1>>
      /\ got <= MaxCluster /\ got = InImage(filesize)
      /\ Whole(data, fat1, This, got, EndOfFile)
  BY <1>1 DEF ToolInv, WriteInv, AtFile
<1>4. root' = [root EXCEPT ![slot] = e] /\ data' = data /\ NextFile("written")
  BY <1>3 DEF WriteEntry, This
<1>5. /\ fileno' \in 1 .. Len(Files) + 1 /\ fileno' = fileno + 1
      /\ tool' \in {"open", "save"}
      /\ tool' = "open" => fileno' <= Len(Files)
  BY <1>1, <1>2, <1>4, NextFileTypes
<1>6. /\ root \in [Slot -> [name : File \cup {NoName}, first : {0} \cup Cluster, size : Nat]]
      /\ e.name = This /\ e.first = first /\ e.size = filesize
      /\ e \in [name : File \cup {NoName}, first : {0} \cup Cluster, size : Nat]
  BY <1>2, <1>3 DEF ToolTypes
<1> HIDE DEF e
<1>7. root'[slot] = e /\ \A s \in Slot : s # slot => root'[s] = root[s]
  BY <1>3, <1>4, <1>6
<1>8. ToolTypes'
  <2>1. root' \in [Slot -> [name : File \cup {NoName}, first : {0} \cup Cluster, size : Nat]]
    BY <1>4, <1>6
  <2> QED
    BY <1>1, <1>2, <1>4, <1>5, <2>1 DEF ToolTypes
<1>9. FreeSlot.name = NoName
  BY DEF FreeSlot
<1>10. RootInv'
  <2>1. ASSUME NEW s \in Slot, root'[s].name = NoName PROVE root'[s] = FreeSlot
    BY <1>2, <1>6, <1>7, <2>1 DEF RootInv
  <2>2. ASSUME NEW s \in Slot, root'[s].name # NoName
        PROVE  \E i \in 1 .. fileno' - 1 : root'[s].name = Files[i]
    <3>1. CASE s = slot
      <4>1. root'[s].name = Files[fileno] /\ fileno \in 1 .. fileno' - 1
        BY <1>2, <1>5, <1>6, <1>7, <3>1 DEF This
      <4> QED
        BY <4>1
    <3>2. CASE s # slot
      <4>1. PICK i \in 1 .. fileno - 1 : root[s].name = Files[i]
        BY <1>2, <1>7, <2>2, <3>2 DEF RootInv
      <4>2. i \in 1 .. fileno' - 1
        BY <1>2, <1>5, <4>1
      <4> QED
        BY <1>7, <3>2, <4>1, <4>2
    <3> QED
      BY <3>1, <3>2
  <2>3. ASSUME NEW r \in Slot, NEW s \in Slot, root'[r].name = root'[s].name, root'[r].name # NoName
        PROVE  r = s
    <3>1. CASE r = slot /\ s # slot
      BY <1>2, <1>6, <1>7, <2>3, <3>1
    <3>2. CASE r # slot /\ s = slot
      BY <1>2, <1>6, <1>7, <2>3, <3>2
    <3>3. CASE r # slot /\ s # slot
      BY <1>2, <1>7, <2>3, <3>3 DEF RootInv
    <3> QED
      BY <3>1, <3>2, <3>3
  <2>4. Cardinality({s \in Slot : root'[s] # FreeSlot}) < fileno'
    <3>1. IsFiniteSet(Slot) /\ U \subseteq Slot
      BY BytesAssumption, FS_Interval DEF Slot
    <3>2. IsFiniteSet(U) /\ Cardinality(U) \in Nat
      BY <3>1, FS_Subset, FS_CardinalityType
    <3>3. slot \notin U
      BY <1>3
    <3>4. e # FreeSlot
      BY <1>2, <1>6, <1>9
    <3>5. {s \in Slot : root'[s] # FreeSlot} = U \cup {slot}
      BY <1>3, <1>7, <3>4
    <3>6. Cardinality(U) < fileno
      BY <1>2 DEF RootInv
    <3> HIDE DEF U
    <3>7. Cardinality(U \cup {slot}) = Cardinality(U) + 1
      BY <3>2, <3>3, FS_AddElement
    <3>8. Cardinality({s \in Slot : root'[s] # FreeSlot}) = Cardinality(U) + 1
      BY <3>5, <3>7, Zenon
    <3>9. Cardinality(U) + 1 < fileno + 1
      BY <1>2, <3>2, <3>6
    <3> QED
      BY <1>5, <3>8, <3>9
  <2> QED
    BY <2>1, <2>2, <2>3, <2>4 DEF RootInv
<1>11. DataInv'
  <2>1. \A c \in Cluster : data'[c] = EmptySector <=> FatEntry(fat1', c) = 0
    BY <1>1, <1>2, <1>4 DEF DataInv
  <2>2. \A c, d \in Cluster : data'[c] # EmptySector /\ data'[c] = data'[d] => c = d
    BY <1>2, <1>4 DEF DataInv
  <2>3. ASSUME NEW c \in Cluster, data'[c] # EmptySector
        PROVE  \E s \in Slot : root'[s].name = data'[c][1]
    <3>1. data[c] \in Contents
      BY <1>2 DEF ToolTypes, Contents
    <3>2. data[c] # EmptySector
      BY <1>4, <2>3
    <3>3. PICK f \in File, i \in 1 .. MaxCluster : data[c] = <<f, i>>
      BY <3>1, <3>2, ContentsAre
    <3>4. data[c][1] = f /\ f # NoName
      BY <3>3, Sectors, FilesAre
    <3>5. (\E s \in Slot : root[s].name = f) \/ f = This
      BY <1>2, <3>2, <3>4 DEF DataInv
    <3>6. CASE f = This
      BY <1>3, <1>4, <1>6, <1>7, <3>4, <3>6
    <3>7. ASSUME NEW s \in Slot, root[s].name = f PROVE root'[s].name = f
      <4>1. s # slot
        BY <1>3, <1>9, <3>4, <3>7
      <4> QED
        BY <1>7, <3>7, <4>1
    <3> QED
      BY <1>4, <3>4, <3>5, <3>6, <3>7
  <2>4. ASSUME NEW s \in Slot, root'[s].name # NoName PROVE Filed(s)'
    <3>1. CASE s = slot
      <4>1. Whole(data', fat1', root'[s].name, InImage(root'[s].size), EndOfFile)
        BY <1>1, <1>3, <1>4, <1>6, <1>7, <3>1
      <4>2. /\ root'[s].first \in Cluster
            /\ data'[root'[s].first] = <<root'[s].name, 1>>
            /\ InImage(root'[s].size) \in 1 .. MaxCluster
        BY <1>3, <1>4, <1>6, <1>7, <3>1, MaxClusterAssumption
      <4> QED
        BY <4>1, <4>2 DEF Filed, Whole
    <3>2. CASE s # slot
      <4>1. root'[s] = root[s]
        BY <1>7, <3>2
      <4>2. Filed(s)
        BY <1>2, <2>4, <4>1 DEF DataInv
      <4>3. Whole(data', fat1', root'[s].name, InImage(root'[s].size), EndOfFile)
        BY <1>1, <1>4, <4>1, <4>2 DEF Filed
      <4>4. /\ root'[s].first \in Cluster
            /\ data'[root'[s].first] = <<root'[s].name, 1>>
            /\ InImage(root'[s].size) \in 1 .. MaxCluster
        BY <1>4, <4>1, <4>2 DEF Filed
      <4> QED
        BY <4>3, <4>4 DEF Filed, Whole
    <3> QED
      BY <3>1, <3>2
  <2> QED
    BY <2>1, <2>2, <2>3, <2>4 DEF DataInv
<1>12. WriteInv'
  BY <1>5 DEF WriteInv, AtFile
<1> QED
  BY <1>8, <1>10, <1>11, <1>12 DEF ToolInv

\* The boot sector and the loader change nothing the tool wrote.
LEMMA ToolKept == ASSUME ToolInv, UNCHANGED toolVars PROVE ToolInv'
<1> USE DEF ToolInv, toolVars
<1>1. ToolTypes'
  BY DEF ToolTypes
<1>2. RootInv'
  BY DEF RootInv
<1>3. DataInv'
  <2>1. \A c \in Cluster : data'[c] = EmptySector <=> FatEntry(fat1', c) = 0
    BY DEF DataInv
  <2>2. \A c, d \in Cluster : data'[c] # EmptySector /\ data'[c] = data'[d] => c = d
    BY DEF DataInv
  <2>3. \A c \in Cluster : data'[c] # EmptySector =>
          (\E s \in Slot : root'[s].name = data'[c][1]) \/ (AtFile' /\ data'[c][1] = This')
    BY DEF DataInv, AtFile, This
  <2>4. ASSUME NEW s \in Slot, root'[s].name # NoName PROVE Filed(s)'
    <3>1. Filed(s)
      BY <2>4 DEF DataInv
    <3>2. Whole(data', fat1', root'[s].name, InImage(root'[s].size), EndOfFile)
      BY <3>1 DEF Filed
    <3> QED
      BY <3>1, <3>2 DEF Filed, Whole
  <2> QED
    BY <2>1, <2>2, <2>3, <2>4 DEF DataInv
<1>4. WriteInv'
  <2>1. WriteInv
    OBVIOUS
  <2>2. tool' = "write" => Whole(data', fat1', This', got' - 1, cluster')
    BY <2>1 DEF WriteInv, This
  <2>3. tool' = "entry" => Whole(data', fat1', This', got', EndOfFile)
    BY <2>1 DEF WriteInv, This
  <2> QED
    BY <2>1, <2>2, <2>3 DEF WriteInv, Whole, AtFile, This, get_disk_free, FreeClusters
<1> QED
  BY <1>1, <1>2, <1>3, <1>4

LEMMA ToolNextInv == ASSUME ToolInv, ToolNext PROVE ToolInv'
BY FormatDiskInv, LoadBootSectorInv, OpenFileInv, WriteClusterInv, WriteEntryInv, SaveImageInv DEF ToolNext

-----------------------------------------------------------------------------
(* The chains                                                               *)

\* What the invariant says of a file in the directory.
LEMMA Entered ==
    ASSUME ToolInv, NEW f \in File, Entries(f) # {}
    PROVE  \E s \in Slot :
              /\ root[s].name = f /\ Entries(f) = {s} /\ FirstEntry(f) = s
              /\ root[s].first \in Cluster /\ root[s].size \in Nat
              /\ data[root[s].first] = <<f, 1>>
              /\ InImage(root[s].size) \in 1 .. MaxCluster
              /\ Whole(data, fat1, f, InImage(root[s].size), EndOfFile)
<1>1. PICK s \in Slot : root[s].name = f
  BY DEF Entries
<1>2. f # NoName
  BY FilesAre
<1>3. Entries(f) = {s}
  BY <1>1, <1>2 DEF Entries, ToolInv, RootInv
<1>4. FirstEntry(f) = s
  <2>1. \A r : r \in Entries(f) <=> r = s
    BY <1>3
  <2>2. s <= s
    BY <1>1, BytesAssumption DEF Slot
  <2> QED
    BY <2>1, <2>2 DEF FirstEntry
<1>5. Filed(s)
  BY <1>1, <1>2 DEF ToolInv, DataInv
<1>6. root[s].size \in Nat
  BY <1>1 DEF ToolInv, ToolTypes
<1> QED
  BY <1>1, <1>3, <1>4, <1>5, <1>6 DEF Filed

LEMMA LinksAre ==
    ASSUME fat1 \in Table
    PROVE  /\ Within(Links, Entry)
           /\ \A c \in Cluster : Links[c] = FatEntry(fat1, c)
<1>1. \A c \in Cluster : ReadFat(fat1, c) = FatEntry(fat1, c) /\ FatEntry(fat1, c) \in Entry /\ c \in Entry
  BY EntryType, ClusterRange
<1>2. \A e \in Entry : Links[e] = IF e \in Cluster THEN ReadFat(fat1, e) ELSE e
  BY DEF Links
<1>3. \A e \in Entry : Links[e] \in Entry
  BY <1>1, <1>2
<1> QED
  BY <1>1, <1>2, <1>3 DEF Within

(***************************************************************************)
(* Following the links from the first cluster of a file that is whole      *)
(* gives its sectors one by one, and then leaves the disk.                 *)
(***************************************************************************)
LEMMA ChainIs ==
    ASSUME ToolInv, NEW f \in File, Entries(f) # {}
    PROVE  LET n == InImage(root[FirstEntry(f)].size)
           IN  /\ n \in 1 .. MaxCluster
               /\ ChainOf(f) \in [1 .. n -> Cluster]
               /\ \A i \in 1 .. n : data[ChainOf(f)[i]] = <<f, i>>
               /\ \A c \in Cluster : \A i : data[c] = <<f, i>> => i \in 1 .. n /\ c = ChainOf(f)[i]
<1>1. PICK s \in Slot :
              /\ root[s].name = f /\ Entries(f) = {s} /\ FirstEntry(f) = s
              /\ root[s].first \in Cluster /\ root[s].size \in Nat
              /\ data[root[s].first] = <<f, 1>>
              /\ InImage(root[s].size) \in 1 .. MaxCluster
              /\ Whole(data, fat1, f, InImage(root[s].size), EndOfFile)
  BY Entered
<1>2. PICK n \in 1 .. MaxCluster : n = InImage(root[s].size)
  BY <1>1
<1>3. PICK x \in Cluster : x = root[s].first
  BY <1>1
<1>4. PICK at : at = Walk(Links, x)
  OBVIOUS
<1>5. fat1 \in Table /\ x \in Entry /\ MaxCluster \in Nat
  BY ClusterRange, MaxClusterAssumption DEF ToolInv, ToolTypes
<1>6. at \in [Nat -> Entry] /\ at[0] = x /\ \A k \in Nat : at[k + 1] = Links[at[k]]
  <2>1. /\ Walk(Links, x) \in [Nat -> Entry] /\ Walk(Links, x)[0] = x
        /\ \A k \in Nat : Walk(Links, x)[k + 1] = Links[Walk(Links, x)[k]]
    BY <1>5, LinksAre, WalkFacts
  <2> QED
    BY <1>4, <2>1
<1>7. /\ data[x] = <<f, 1>>
      /\ Whole(data, fat1, f, n, EndOfFile)
  BY <1>1, <1>2, <1>3
<1> DEFINE Here(k) == at[k] \in Cluster /\ data[at[k]] = <<f, k + 1>>
           T == {k \in Nat : k < n /\ ~Here(k)}
<1>8. T = {}
  <2> SUFFICES ASSUME T # {} PROVE FALSE
    OBVIOUS
  <2>1. PICK k \in T : \A y \in T : k <= y
    BY LeastNat
  <2>2. k # 0
    BY <1>6, <1>7, <2>1
  <2>8. k \in Nat /\ k < n
    BY <2>1
  <2>9. k - 1 \in Nat /\ k - 1 + 1 = k /\ ~(k <= k - 1) /\ k - 1 < n
    BY <1>5, <2>2, <2>8
  <2>3. k - 1 \in Nat /\ k - 1 \notin T /\ k - 1 + 1 = k /\ k \in Nat /\ k < n /\ k - 1 < n
    BY <2>1, <2>8, <2>9
  <2>4. at[k - 1] \in Cluster /\ data[at[k - 1]] = <<f, k>>
    BY <2>3
  <2>5. at[k] = FatEntry(fat1, at[k - 1])
    BY <1>5, <1>6, <2>3, <2>4, LinksAre
  <2>6. k \in 1 .. MaxCluster
    BY <1>5, <2>2, <2>3
  <2>7. at[k] \in Cluster /\ data[at[k]] = <<f, k + 1>>
    BY <1>7, <2>3, <2>4, <2>5, <2>6 DEF Whole
  <2> QED
    BY <2>1, <2>7
<1>9. \A k \in Nat : k < n => Here(k)
  BY <1>8
<1> HIDE DEF T, Here
<1>10. at[n] \notin Cluster
  <2>1. n - 1 \in Nat /\ n - 1 < n /\ n - 1 + 1 = n
    OBVIOUS
  <2>2. at[n - 1] \in Cluster /\ data[at[n - 1]] = <<f, n>>
    BY <1>9, <2>1 DEF Here
  <2>3. at[n] = FatEntry(fat1, at[n - 1])
    BY <1>5, <1>6, <2>1, <2>2, LinksAre
  <2>4. at[n] = EndOfFile
    BY <1>7, <2>2, <2>3 DEF Whole
  <2> QED
    BY <2>4, ClusterRange
<1>11. \A m \in 0 .. n - 1 : at[m] \in Cluster
  BY <1>9 DEF Here
<1>12. Steps(at) = n
  <2> DEFINE Leaves(m) == /\ m = MaxCluster \/ at[m] \notin Cluster
                          /\ \A k \in 0 .. m - 1 : at[k] \in Cluster
  <2>1. Leaves(n) /\ n \in 0 .. MaxCluster
    BY <1>10, <1>11
  <2>2. ASSUME NEW m \in 0 .. MaxCluster, Leaves(m) PROVE m = n
    <3>1. ~(m < n)
      <4>1. m < n => at[m] \in Cluster /\ m # MaxCluster
        BY <1>5, <1>11
      <4> QED
        BY <2>2, <4>1
    <3>2. ~(n < m)
      <4>1. n < m => n \in 0 .. m - 1
        BY <1>5
      <4> QED
        BY <1>10, <2>2, <4>1
    <3> QED
      BY <1>5, <3>1, <3>2
  <2>3. Steps(at) = CHOOSE m \in 0 .. MaxCluster : Leaves(m)
    BY DEF Steps
  <2> HIDE DEF Leaves
  <2> QED
    BY <2>1, <2>2, <2>3
<1>13. ChainOf(f) = [i \in 1 .. n |-> at[i - 1]]
  BY <1>1, <1>3, <1>4, <1>12 DEF ChainOf
<1>14. ASSUME NEW i \in 1 .. n PROVE at[i - 1] \in Cluster /\ data[at[i - 1]] = <<f, i>>
  <2>1. i - 1 \in Nat /\ i - 1 < n /\ i - 1 + 1 = i
    BY <1>5
  <2> QED
    BY <1>9, <2>1 DEF Here
<1>15. ASSUME NEW c \in Cluster, NEW i, data[c] = <<f, i>> PROVE i \in 1 .. n /\ c = at[i - 1]
  <2>1. data[c] \in Contents /\ data[c] # EmptySector
    BY <1>15, Sectors DEF ToolInv, ToolTypes, Contents
  <2>2. i \in 1 .. MaxCluster
    BY <1>15, <2>1, ContentsAre, Sectors
  <2>3. i <= n
    BY <1>7, <1>15, <2>2 DEF Whole
  <2>4. i \in 1 .. n
    BY <1>5, <2>2, <2>3
  <2>5. data[at[i - 1]] = data[c] /\ at[i - 1] \in Cluster
    BY <1>14, <1>15, <2>4
  <2> QED
    BY <2>1, <2>4, <2>5 DEF ToolInv, DataInv
<1>16. PICK ch : ch = ChainOf(f)
  OBVIOUS
<1>17. ch \in [1 .. n -> Cluster] /\ \A i \in 1 .. n : ch[i] = at[i - 1]
  BY <1>13, <1>14, <1>16
<1>18. \A i \in 1 .. n : data[ch[i]] = <<f, i>>
  BY <1>14, <1>17
<1>19. \A c \in Cluster : \A i : data[c] = <<f, i>> => i \in 1 .. n /\ c = ch[i]
  BY <1>15, <1>17
<1>20. n = InImage(root[FirstEntry(f)].size)
  BY <1>1, <1>2
<1> QED
  BY <1>16, <1>17, <1>18, <1>19, <1>20

LEMMA MembersAre ==
    ASSUME ToolInv, NEW f \in Listed
    PROVE  \A c : c \in Members(ChainOf(f)) <=> c \in Cluster /\ \E i : data[c] = <<f, i>>
<1>1. f \in File /\ Entries(f) # {}
  BY DEF Listed
<1>2. PICK n : n = InImage(root[FirstEntry(f)].size)
  OBVIOUS
<1>3. PICK ch : ch = ChainOf(f)
  OBVIOUS
<1>4. /\ ch \in [1 .. n -> Cluster]
      /\ \A i \in 1 .. n : data[ch[i]] = <<f, i>>
      /\ \A c \in Cluster : \A i : data[c] = <<f, i>> => i \in 1 .. n /\ c = ch[i]
  <2> DEFINE m == InImage(root[FirstEntry(f)].size)
             w == ChainOf(f)
  <2>1. /\ w \in [1 .. m -> Cluster]
        /\ \A i \in 1 .. m : data[w[i]] = <<f, i>>
        /\ \A c \in Cluster : \A i : data[c] = <<f, i>> => i \in 1 .. m /\ c = w[i]
    BY <1>1, ChainIs
  <2> HIDE DEF m, w
  <2>2. n = m /\ ch = w
    BY <1>2, <1>3 DEF m, w
  <2> QED
    BY <2>1, <2>2
<1>5. ASSUME NEW c PROVE c \in {ch[i] : i \in DOMAIN ch} <=> c \in Cluster /\ \E i : data[c] = <<f, i>>
  BY <1>4
<1> QED
  BY <1>3, <1>5 DEF Members

(***************************************************************************)
(* No cluster is lost and none is in two chains.                           *)
(***************************************************************************)
LEMMA InvNothingLost == ASSUME ToolInv PROVE NothingLost
<1> DEFINE used == Cluster \ FreeClusters(fat1)
           unlisted == IF tool \in {"write", "entry"}
                       THEN {c \in used : data[c] # EmptySector /\ data[c][1] = Files[fileno]} \cup
                            {c \in {cluster} : tool = "write"}
                       ELSE {}
           chains == {Members(ChainOf(f)) : f \in Listed}
<1>1. \A c \in Cluster : c \in used <=> data[c] # EmptySector
  BY DEF ToolInv, DataInv, FreeClusters
<1>2. ASSUME NEW c \in used PROVE c \in unlisted \/ c \in UNION chains
  <2>1. c \in Cluster /\ data[c] # EmptySector
    BY <1>1
  <2>2. data[c] \in Contents
    BY <2>1 DEF ToolInv, ToolTypes, Contents
  <2>3. PICK f \in File, i \in 1 .. MaxCluster : data[c] = <<f, i>>
    BY <2>1, <2>2, ContentsAre
  <2>4. data[c][1] = f
    BY <2>3, Sectors
  <2>5. (\E s \in Slot : root[s].name = f) \/ (AtFile /\ f = This)
    BY <2>1, <2>4 DEF ToolInv, DataInv
  <2>6. CASE \E s \in Slot : root[s].name = f
    <3>1. f \in Listed
      BY <2>6 DEF Listed, Entries
    <3>2. c \in Members(ChainOf(f))
      BY <2>1, <2>3, <3>1, MembersAre
    <3> QED
      BY <3>1, <3>2
  <2>7. CASE AtFile /\ f = This
    BY <2>1, <2>4, <2>7 DEF AtFile, This
  <2> QED
    BY <2>5, <2>6, <2>7
<1>3. UNION chains \subseteq used
  <2> SUFFICES ASSUME NEW f \in Listed, NEW c \in Members(ChainOf(f)) PROVE c \in used
    OBVIOUS
  <2>1. PICK i : c \in Cluster /\ data[c] = <<f, i>>
    BY MembersAre
  <2> QED
    BY <1>1, <2>1, Sectors
<1>4. ASSUME NEW f \in Listed, NEW g \in Listed, f # g
      PROVE  Members(ChainOf(f)) \cap Members(ChainOf(g)) = {}
  <2> SUFFICES ASSUME NEW c \in Members(ChainOf(f)), c \in Members(ChainOf(g)) PROVE FALSE
    OBVIOUS
  <2>1. PICK i : data[c] = <<f, i>>
    BY MembersAre
  <2>2. PICK j : data[c] = <<g, j>>
    BY MembersAre
  <2> QED
    BY <1>4, <2>1, <2>2, Sectors
<1>5. ASSUME NEW f \in Listed PROVE unlisted \cap Members(ChainOf(f)) = {}
  <2> SUFFICES ASSUME NEW c \in unlisted, c \in Members(ChainOf(f)) PROVE FALSE
    OBVIOUS
  <2>1. PICK i : c \in Cluster /\ data[c] = <<f, i>>
    BY MembersAre
  <2>2. tool \in {"write", "entry"}
    OBVIOUS
  <2>3. CASE data[c][1] = Files[fileno]
    <3>1. f = This
      BY <2>1, <2>3, Sectors DEF This
    <3>2. \A s \in Slot : root[s].name # This
      BY <2>2, ThisIs DEF ToolInv
    <3> QED
      BY <3>1, <3>2 DEF Listed, Entries
  <2>4. CASE c = cluster /\ tool = "write"
    <3>1. cluster \in FreeClusters(fat1)
      BY <2>4 DEF ToolInv, WriteInv
    <3>2. c \notin used
      BY <2>4, <3>1
    <3> QED
      BY <1>1, <2>1, <3>2, Sectors
  <2> QED
    BY <2>3, <2>4
<1>6. used \cup unlisted = (UNION chains) \cup unlisted
  BY <1>2, <1>3
<1> HIDE DEF used, unlisted, chains
<1> QED
  BY <1>4, <1>5, <1>6 DEF NothingLost, used, unlisted, chains

(***************************************************************************)
(* The store of files that the disk implements.                            *)
(***************************************************************************)
Store == [f \in Listed |-> [i \in DOMAIN ChainOf(f) |-> data[ChainOf(f)[i]]]]

\* Each file of the directory with its sectors in order.
StoreWhole ==
    /\ DOMAIN Store = Listed
    /\ \A f \in Listed : Store[f] = [i \in 1 .. InImage(root[FirstEntry(f)].size) |-> <<f, i>>]

LEMMA StoreIs == ToolInv => StoreWhole
<1> SUFFICES ASSUME ToolInv PROVE StoreWhole
  OBVIOUS
<1>1. ASSUME NEW f \in Listed
      PROVE  Store[f] = [i \in 1 .. InImage(root[FirstEntry(f)].size) |-> <<f, i>>]
  <2>1. f \in File /\ Entries(f) # {}
    BY DEF Listed
  <2>2. PICK n : n = InImage(root[FirstEntry(f)].size)
    OBVIOUS
  <2>3. PICK ch : ch = ChainOf(f)
    OBVIOUS
  <2>4. ch \in [1 .. n -> Cluster] /\ \A i \in 1 .. n : data[ch[i]] = <<f, i>>
    BY <2>1, <2>2, <2>3, ChainIs
  <2>5. [i \in DOMAIN ch |-> data[ch[i]]] = [i \in 1 .. n |-> <<f, i>>]
    BY <2>4
  <2>6. Store[f] = [i \in DOMAIN ChainOf(f) |-> data[ChainOf(f)[i]]]
    BY DEF Store
  <2> QED
    BY <2>2, <2>3, <2>5, <2>6
<1> QED
  BY <1>1 DEF Store, StoreWhole

LEMMA StoreInitIs == ASSUME ToolInit PROVE Store = <<>>
<1>1. ASSUME NEW f \in File PROVE Entries(f) = {}
  BY <1>1, FilesAre DEF ToolInit, Entries, FreeSlot
<1>2. Listed = {}
  BY <1>1 DEF Listed
<1>3. Store = [f \in {} |-> [i \in DOMAIN ChainOf(f) |-> data[ChainOf(f)[i]]]]
  BY <1>2 DEF Store
<1> QED
  BY <1>3

(***************************************************************************)
(* A directory entry publishes its file; nothing else is seen of nucflop's *)
(* steps.                                                                  *)
(***************************************************************************)
LEMMA StoreSame ==
    ASSUME ToolInv, ToolInv', root' = root
    PROVE  Store' = Store
<1>1. Listed' = Listed
  BY DEF Listed, Entries
<1>2. \A f : FirstEntry(f)' = FirstEntry(f)
  BY DEF FirstEntry, Entries
<1>3. StoreWhole /\ StoreWhole'
  BY StoreIs, PTL
<1>4. DOMAIN Store' = Listed /\ DOMAIN Store = Listed
  BY <1>1, <1>3 DEF StoreWhole
<1>5. ASSUME NEW f \in Listed PROVE Store'[f] = Store[f]
  <2>1. Store[f] = [i \in 1 .. InImage(root[FirstEntry(f)].size) |-> <<f, i>>]
    BY <1>3 DEF StoreWhole
  <2>2. Store'[f] = [i \in 1 .. InImage(root'[FirstEntry(f)'].size) |-> <<f, i>>]
    BY <1>1, <1>3 DEF StoreWhole
  <2> QED
    BY <1>2, <2>1, <2>2
<1>6. Store = [f \in Listed |-> Store[f]] /\ Store' = [f \in Listed |-> Store'[f]]
  BY <1>1 DEF Store
<1> HIDE DEF Store
<1> QED
  BY <1>5, <1>6

LEMMA Single ==
    ASSUME NEW S, NEW s \in Slot, S = {s}
    PROVE  (CHOOSE x \in S : \A r \in S : x <= r) = s
<1>1. \A r : r \in S <=> r = s
  OBVIOUS
<1>2. s <= s
  BY BytesAssumption DEF Slot
<1> QED
  BY <1>1, <1>2

LEMMA StorePublished ==
    ASSUME ToolInv, ToolInv', WriteEntry
    PROVE  /\ This \in File /\ This \notin DOMAIN Store
           /\ DOMAIN Store' = DOMAIN Store \cup {This}
           /\ \E n \in 1 .. MaxCluster : Store'[This] = [i \in 1 .. n |-> <<This, i>>]
           /\ \A g \in DOMAIN Store : Store'[g] = Store[g]
<1>0. PICK f : f = This
  OBVIOUS
<1> DEFINE e == [name |-> f, first |-> first, size |-> filesize]
<1>1. tool = "entry"
  BY DEF WriteEntry
<1>2. f \in File /\ f # NoName /\ \A s \in Slot : root[s].name # f
  BY <1>0, <1>1, ThisIs DEF ToolInv
<1>3. /\ slot \in Slot /\ root[slot] = FreeSlot /\ got \in 1 .. MaxCluster /\ got = InImage(filesize)
  BY <1>1, MaxClusterAssumption DEF ToolInv, WriteInv, AtFile
<1>4. root' = [root EXCEPT ![slot] = e]
  BY <1>0, <1>3 DEF WriteEntry, This
<1>5. e.name = f /\ e.size = filesize /\ FreeSlot.name = NoName /\ DOMAIN root = Slot
  BY DEF FreeSlot, ToolInv, ToolTypes
<1> HIDE DEF e
<1>6. root'[slot] = e /\ \A s \in Slot : s # slot => root'[s] = root[s]
  BY <1>3, <1>4, <1>5
<1>7. Entries(f)' = {slot}
  BY <1>2, <1>3, <1>5, <1>6 DEF Entries
<1>8. ASSUME NEW g \in File, g # f PROVE Entries(g)' = Entries(g)
  <2>1. g # NoName
    BY FilesAre
  <2> QED
    BY <1>3, <1>5, <1>6, <1>8, <2>1 DEF Entries
<1>9. Listed' = Listed \cup {f} /\ f \notin Listed
  BY <1>2, <1>7, <1>8 DEF Listed, Entries
<1>10. StoreWhole /\ StoreWhole'
  BY StoreIs, PTL
<1>11. DOMAIN Store = Listed /\ DOMAIN Store' = Listed \cup {f}
  BY <1>9, <1>10 DEF StoreWhole
<1>12. Store'[f] = [i \in 1 .. got |-> <<f, i>>]
  <2>1. Store'[f] = [i \in 1 .. InImage(root'[FirstEntry(f)'].size) |-> <<f, i>>]
    BY <1>9, <1>10 DEF StoreWhole
  <2>2. FirstEntry(f)' = slot
    BY <1>3, <1>7, Single DEF FirstEntry
  <2> QED
    BY <1>3, <1>5, <1>6, <2>1, <2>2
<1>13. ASSUME NEW g \in Listed PROVE Store'[g] = Store[g]
  <2>1. g \in File /\ Entries(g) # {} /\ g # f
    BY <1>9 DEF Listed
  <2>2. PICK s \in Slot : root[s].name = g /\ Entries(g) = {s} /\ FirstEntry(g) = s
    BY <2>1, Entered
  <2>3. s # slot
    BY <1>3, <1>5, <2>1, <2>2, FilesAre
  <2>4. FirstEntry(g)' = s
    BY <1>8, <2>1, <2>2, Single DEF FirstEntry
  <2>5. root'[FirstEntry(g)'] = root[FirstEntry(g)]
    BY <1>6, <2>2, <2>3, <2>4
  <2>6. Store[g] = [i \in 1 .. InImage(root[FirstEntry(g)].size) |-> <<g, i>>]
    BY <1>10 DEF StoreWhole
  <2>7. Store'[g] = [i \in 1 .. InImage(root'[FirstEntry(g)'].size) |-> <<g, i>>]
    BY <1>9, <1>10 DEF StoreWhole
  <2> QED
    BY <2>5, <2>6, <2>7
<1> HIDE DEF Store
<1> QED
  BY <1>0, <1>2, <1>3, <1>9, <1>11, <1>12, <1>13

-----------------------------------------------------------------------------
(* The boot sector and the loader                                           *)

\* At a cluster of a file: the next one, or the end.
LEMMA ChainGoesOn ==
    ASSUME ToolInv, tool = "saved", NEW f \in File, NEW c \in Cluster, NEW i \in 1 .. MaxCluster,
           data[c] = <<f, i>>
    PROVE  /\ ReadFat(fat1, c) = FatEntry(fat1, c) /\ NextCluster(fat1, c) = FatEntry(fat1, c)
           /\ \E s \in Slot :
                /\ root[s].name = f
                /\ \/ /\ FatEntry(fat1, c) \in Cluster /\ i + 1 \in 1 .. MaxCluster
                      /\ data[FatEntry(fat1, c)] = <<f, i + 1>>
                   \/ i = InImage(root[s].size) /\ FatEntry(fat1, c) = EndOfFile
<1>1. data[c] # EmptySector /\ data[c][1] = f
  BY Sectors
<1>2. PICK s \in Slot : root[s].name = f
  BY <1>1 DEF ToolInv, DataInv, AtFile
<1>3. f # NoName
  BY FilesAre
<1>4. /\ InImage(root[s].size) \in 1 .. MaxCluster
      /\ Whole(data, fat1, f, InImage(root[s].size), EndOfFile)
  BY <1>2, <1>3 DEF ToolInv, DataInv, Filed
<1>5. PICK n \in 1 .. MaxCluster : n = InImage(root[s].size)
  BY <1>4
<1>6. i <= n
  BY <1>4, <1>5 DEF Whole
<1>7. MaxCluster \in Nat
  BY MaxClusterAssumption
<1>8. CASE i = n
  BY <1>2, <1>4, <1>5, <1>8, EntryType DEF Whole, ToolInv, ToolTypes
<1>9. CASE i < n
  <2>1. FatEntry(fat1, c) \in Cluster /\ data[FatEntry(fat1, c)] = <<f, i + 1>>
    BY <1>4, <1>5, <1>9 DEF Whole
  <2>2. i + 1 \in 1 .. MaxCluster
    BY <1>7, <1>9
  <2> QED
    BY <1>2, <2>1, <2>2, EntryType DEF ToolInv, ToolTypes
<1> QED
  BY <1>6, <1>7, <1>8, <1>9

LEMMA BootInitInv == ASSUME BootInit, A20Init, LoadInit PROVE StageInv /\ GateInv
<1> USE DEF BootInit, A20Init, LoadInit
<1>1. StageInv
  BY LoaderAssumption DEF StageInv, Stages, Reading, Copying, Copied
<1>2. GateInv
  BY DEF GateInv, Methods
<1> QED
  BY <1>1, <1>2

\* A try more or a sector more of what is being read.
LEMMA TrySectorInv ==
    ASSUME StageInv, GateInv, UNCHANGED <<tool, root, data, fat1>>, NEW g \in {"rom", "halted"},
           stage \in Reading, TrySector(g), UNCHANGED a20Vars, UNCHANGED loadVars
    PROVE  StageInv' /\ GateInv'
<1>1. tries \in 1 .. Tries /\ Tries \in Nat /\ tries' = tries - 1
  BY LoaderAssumption DEF StageInv, TrySector
<1>2. tries' \in 0 .. Tries /\ (tries # 1 => tries' # 0)
  BY <1>1
<1>3. stage' = stage \/ (tries = 1 /\ stage' = g)
  BY DEF TrySector
<1>4. tries = 1 => stage' = g
  BY DEF TrySector
<1>5. UNCHANGED <<cur, high, purpose, wrapped, a20_vec, switches, board, probe, intr>>
  BY DEF TrySector, a20Vars, loadVars
<1>6. CASE stage' = g
  <2>1. StageInv'
    BY <1>2, <1>5, <1>6 DEF StageInv, Stages, Reading, Copying, Copied
  <2>2. GateInv'
    BY <1>5, <1>6 DEF GateInv, Open, EnabledBy
  <2> QED
    BY <2>1, <2>2
<1>7. CASE stage' = stage /\ tries # 1
  <2>1. StageInv'
    BY <1>2, <1>5, <1>7 DEF StageInv, Copying, Copied
  <2>2. GateInv'
    BY <1>5, <1>7 DEF GateInv, Open, EnabledBy
  <2> QED
    BY <2>1, <2>2
<1> QED
  BY <1>3, <1>4, <1>6, <1>7

LEMMA NextSectorInv ==
    ASSUME StageInv, GateInv, UNCHANGED <<tool, root, data, fat1>>, NextSector,
           UNCHANGED a20Vars, UNCHANGED loadVars
    PROVE  StageInv' /\ GateInv'
<1>1. tries' = Tries /\ Tries \in Nat \ {0}
  BY LoaderAssumption DEF NextSector, StartReading
<1>2. UNCHANGED <<stage, cur, high, purpose, wrapped, a20_vec, switches, board, probe, intr>>
  BY DEF NextSector, a20Vars, loadVars
<1>3. StageInv'
  BY <1>1, <1>2 DEF StageInv, Copying, Copied
<1>4. GateInv'
  BY <1>2 DEF GateInv, Open, EnabledBy
<1> QED
  BY <1>3, <1>4

LEMMA BootSectorInv ==
    ASSUME ToolInv, StageInv, GateInv, BootSectorNext, UNCHANGED toolVars,
           UNCHANGED a20Vars, UNCHANGED loadVars
    PROVE  StageInv' /\ GateInv'
<1>1. UNCHANGED <<tool, root, data, fat1>>
  BY DEF toolVars
<1>2. UNCHANGED <<high, purpose, wrapped, a20_vec, switches, board, probe, intr>>
  BY DEF a20Vars, loadVars
<1>3. Tries \in Nat \ {0} /\ Loader \in File /\ Loader # NoName /\ MaxCluster \in Nat
  BY LoaderAssumption, FilesAre, MaxClusterAssumption
<1>4. CASE stage \in {"root", "fat", "image"} /\ TrySector("rom")
  BY <1>1, <1>4, TrySectorInv DEF Reading
<1>5. CASE stage \in {"root", "fat"} /\ NextSector
  BY <1>1, <1>5, NextSectorInv
<1>6. ASSUME stage' \in {"off", "wild", "noloader", "root", "fat", "image", "loader"} PROVE GateInv'
  BY <1>2, <1>6 DEF GateInv, Open, EnabledBy
<1>7. ASSUME stage' \in {"off", "wild", "noloader", "root", "loader"}, stage' # "off" => tool = "saved",
             tries' \in 0 .. Tries, stage' = "root" => tries' # 0
      PROVE  StageInv'
  BY <1>1, <1>2, <1>7 DEF StageInv, Stages, Reading, Copying, Copied
<1>8. CASE PowerOn
  <2>1. stage' \in {"root", "wild"} /\ tool = "saved" /\ tries' = Tries
    BY <1>8 DEF PowerOn, StartReading
  <2> QED
    BY <1>3, <1>6, <1>7, <2>1
<1>9. CASE BrowseRoot
  <2>1. stage = "root" /\ tool = "saved" /\ tries \in 0 .. Tries
    BY <1>9 DEF BrowseRoot, StageInv
  <2>2. CASE Entries(Loader) = {}
    <3>1. stage' = "noloader" /\ tries' = tries
      BY <1>9, <2>2 DEF BrowseRoot
    <3> QED
      BY <1>6, <1>7, <2>1, <3>1
  <2>3. CASE Entries(Loader) # {}
    <3>1. stage' = "fat" /\ tries' = Tries /\ cur' = root[FirstEntry(Loader)].first
      BY <1>9, <2>3 DEF BrowseRoot, StartReading
    <3>2. cur' \in Cluster /\ data'[cur'] = <<Loader, 1>>
      BY <1>1, <1>3, <2>3, <3>1, Entered
    <3>3. 1 \in 1 .. MaxCluster
      BY MaxClusterAssumption
    <3>4. StageInv'
      BY <1>1, <1>2, <1>3, <2>1, <3>1, <3>2, <3>3 DEF StageInv, Stages, Copying, Copied
    <3> QED
      BY <1>6, <3>1, <3>4
  <2> QED
    BY <2>2, <2>3
<1>10. CASE FatLoaded
  <2>1. stage = "fat" /\ stage' = "image" /\ tries' = Tries /\ cur' = cur
    BY <1>10 DEF FatLoaded, StartReading
  <2>2. StageInv'
    BY <1>1, <1>2, <1>3, <2>1 DEF StageInv, Stages, Copying, Copied
  <2> QED
    BY <1>6, <2>1, <2>2
<1>11. CASE LoadImage
  <2>1. /\ stage = "image" /\ tool = "saved" /\ tries' = Tries
        /\ cur' = NextCluster(fat1, cur)
        /\ stage' = IF cur' < 4080 THEN "image" ELSE "loader"
    BY <1>11 DEF LoadImage, StartReading, StageInv
  <2>2. PICK i \in 1 .. MaxCluster : cur \in Cluster /\ data[cur] = <<Loader, i>>
    BY <2>1 DEF StageInv
  <2>3. \/ cur' \in Cluster /\ i + 1 \in 1 .. MaxCluster /\ data[cur'] = <<Loader, i + 1>>
        \/ cur' = EndOfFile
    BY <1>3, <2>1, <2>2, ChainGoesOn
  <2>4. CASE cur' = EndOfFile
    <3>1. stage' = "loader"
      BY <2>1, <2>4, ClusterRange
    <3> QED
      BY <1>3, <1>6, <1>7, <2>1, <3>1
  <2>5. CASE cur' \in Cluster /\ i + 1 \in 1 .. MaxCluster /\ data[cur'] = <<Loader, i + 1>>
    <3>1. stage' = "image"
      BY <2>1, <2>5, ClusterRange
    <3>2. StageInv'
      BY <1>1, <1>2, <1>3, <2>1, <2>5, <3>1 DEF StageInv, Stages, Copying, Copied
    <3> QED
      BY <1>6, <3>1, <3>2
  <2> QED
    BY <2>3, <2>4, <2>5
<1>12. CASE Reboot
  <2>1. stage = "noloader" /\ stage' = "off" /\ tries' = tries
    BY <1>12 DEF Reboot
  <2>2. tries \in 0 .. Tries
    BY DEF StageInv
  <2> QED
    BY <1>6, <1>7, <2>1, <2>2
<1> QED
  BY <1>4, <1>5, <1>8, <1>9, <1>10, <1>11, <1>12 DEF BootSectorNext

LEMMA KernelIs == Kernel \in File /\ Kernel # NoName
BY KernelAssumption, FilesAre

\* Sectors of the kernel, one more of them, and none.
LEMMA KernelSectorsMore ==
    /\ KernelSectors(0) = <<>>
    /\ \A i \in Nat \ {0} : Append(KernelSectors(i - 1), <<Kernel, i>>) = KernelSectors(i)
<1>1. KernelSectors(0) = <<>>
  BY DEF KernelSectors
<1>2. ASSUME NEW i \in Nat \ {0} PROVE Append(KernelSectors(i - 1), <<Kernel, i>>) = KernelSectors(i)
  <2> DEFINE S == {<<Kernel, j>> : j \in Nat}
             s == KernelSectors(i - 1)
             t == KernelSectors(i)
  <2>1. s \in Seq(S) /\ Len(s) = i - 1 /\ \A j \in 1 .. i - 1 : s[j] = <<Kernel, j>>
    BY DEF KernelSectors
  <2>2. t \in Seq(S) /\ Len(t) = i /\ \A j \in 1 .. i : t[j] = <<Kernel, j>>
    BY DEF KernelSectors
  <2>3. <<Kernel, i>> \in S
    OBVIOUS
  <2> HIDE DEF S, s, t
  <2>4. /\ Append(s, <<Kernel, i>>) \in Seq(S) /\ Len(Append(s, <<Kernel, i>>)) = i
        /\ \A j \in 1 .. i : Append(s, <<Kernel, i>>)[j] = <<Kernel, j>>
    BY <2>1, <2>3
  <2>5. Append(s, <<Kernel, i>>) = t
    BY <2>2, <2>4, SeqEqual
  <2> QED
    BY <2>5 DEF s, t
<1> QED
  BY <1>1, <1>2

\* The loader reads: footer, parameters, directory, table.
LEMMA ReadCHSInv ==
    ASSUME ToolInv, StageInv, GateInv, ReadCHS, UNCHANGED toolVars,
           UNCHANGED a20Vars, UNCHANGED loadVars
    PROVE  StageInv' /\ GateInv'
<1>1. UNCHANGED <<tool, root, data, fat1>>
  BY DEF toolVars
<1>2. UNCHANGED <<high, purpose, wrapped, a20_vec, switches, board, probe, intr>>
  BY DEF a20Vars, loadVars
<1>3. Tries \in Nat \ {0} /\ MaxCluster \in Nat /\ 1 \in 1 .. MaxCluster
  BY LoaderAssumption, MaxClusterAssumption
<1>4. CASE stage \in {"bootsect", "dir", "table", "cluster"} /\ TrySector("halted")
  BY <1>1, <1>4, TrySectorInv DEF Reading
<1>5. CASE stage \in {"dir", "table"} /\ NextSector
  BY <1>1, <1>5, NextSectorInv
<1>6. ASSUME stage' \in {"dir", "table", "cluster", "halted"} PROVE GateInv'
  BY <1>2, <1>6 DEF GateInv, Open, EnabledBy
<1>7. CASE BootSectorRead
  <2>1. stage = "bootsect" /\ stage' = "dir" /\ tries' = Tries
    BY <1>7 DEF BootSectorRead, StartReading
  <2>2. StageInv'
    BY <1>1, <1>2, <1>3, <2>1 DEF StageInv, Stages, Copying, Copied
  <2> QED
    BY <1>6, <2>1, <2>2
<1>8. CASE DirectoryRead
  <2>1. stage = "dir" /\ stage' = "table" /\ tries' = Tries
    BY <1>8 DEF DirectoryRead, StartReading
  <2>2. StageInv'
    BY <1>1, <1>2, <1>3, <2>1 DEF StageInv, Stages, Copying, Copied
  <2> QED
    BY <1>6, <2>1, <2>2
<1>9. CASE FindKernel
  <2>1. stage = "table" /\ tries' = Tries /\ tool = "saved" /\ high' = <<>>
    BY <1>2, <1>9 DEF FindKernel, StartReading, StageInv
  <2>2. CASE Entries(Kernel) = {}
    <3>1. stage' = "halted"
      BY <1>9, <2>2 DEF FindKernel
    <3>2. StageInv'
      BY <1>1, <1>2, <1>3, <2>1, <3>1 DEF StageInv, Stages, Reading, Copying, Copied
    <3> QED
      BY <1>6, <3>1, <3>2
  <2>3. CASE Entries(Kernel) # {}
    <3>1. stage' = "cluster" /\ cur' = root[FirstEntry(Kernel)].first
      BY <1>9, <2>3 DEF FindKernel
    <3>2. cur' \in Cluster /\ data'[cur'] = <<Kernel, 1>>
      BY <1>1, <2>3, <3>1, Entered, KernelIs
    <3>3. high' = KernelSectors(1 - 1)
      BY <2>1, KernelSectorsMore
    <3>4. stage' \in Stages /\ purpose' \in {"copy", "kernel"}
      BY <1>2, <3>1 DEF Stages, StageInv
    <3>5. StageInv'
      BY <1>1, <1>3, <2>1, <3>1, <3>2, <3>3, <3>4 DEF StageInv, Copying, Copied
    <3> QED
      BY <1>6, <3>1, <3>5
  <2> QED
    BY <2>2, <2>3
<1> QED
  BY <1>4, <1>5, <1>7, <1>8, <1>9 DEF ReadCHS

LEMMA CopyInv ==
    ASSUME ToolInv, StageInv, GateInv, UNCHANGED toolVars, UNCHANGED a20Vars,
           CheckFooter \/ ClusterRead \/ CopyToExt \/ EnterKernel
    PROVE  StageInv' /\ GateInv'
<1>1. UNCHANGED <<tool, root, data, fat1>>
  BY DEF toolVars
<1>2. UNCHANGED <<a20_vec, switches, board, probe, intr>>
  BY DEF a20Vars
<1>3. Tries \in Nat \ {0} /\ MaxCluster \in Nat
  BY LoaderAssumption, MaxClusterAssumption
<1>4. CASE CheckFooter
  <2>1. /\ stage = "loader" /\ stage' \in {"bootsect", "halted"} /\ tries' = Tries /\ high' = <<>>
        /\ UNCHANGED <<cur, low, wrapped, purpose>>
    BY <1>4 DEF CheckFooter, StartReading
  <2>2. StageInv'
    BY <1>1, <1>3, <2>1 DEF StageInv, Stages, Copying, Copied
  <2>3. GateInv'
    BY <1>2, <2>1 DEF GateInv, Open, EnabledBy
  <2> QED
    BY <2>2, <2>3
<1>5. CASE ClusterRead
  <2>1. /\ stage = "cluster" /\ stage' = "enable" /\ purpose' = "copy"
        /\ UNCHANGED <<left, tries, cur, low, high, wrapped>>
    BY <1>5 DEF ClusterRead
  <2>2. PICK i \in 1 .. MaxCluster : cur \in Cluster /\ data[cur] = <<Kernel, i>> /\ high = KernelSectors(i - 1)
    BY <2>1 DEF StageInv, Copying
  <2>3. StageInv'
    BY <1>1, <1>3, <2>1, <2>2 DEF StageInv, Stages, Reading, Copying, Copied
  <2>4. GateInv'
    BY <1>2, <2>1 DEF GateInv, Open, EnabledBy
  <2> QED
    BY <2>3, <2>4
<1>6. CASE CopyToExt
  <2>1. /\ stage = "copy" /\ stage' = "disable" /\ Open(switches)
        /\ high' = Append(high, data[cur])
        /\ UNCHANGED <<left, tries, cur, low, purpose, wrapped>>
    BY <1>6 DEF CopyToExt, GateInv
  <2>2. PICK i \in 1 .. MaxCluster : cur \in Cluster /\ data[cur] = <<Kernel, i>> /\ high = KernelSectors(i - 1)
    BY <2>1 DEF StageInv, Copying
  <2>3. high' = KernelSectors(i)
    <3>2. i \in Nat \ {0}
      BY <1>3
    <3>1. Append(KernelSectors(i - 1), <<Kernel, i>>) = KernelSectors(i)
      BY <3>2, KernelSectorsMore
    <3> QED
      BY <2>1, <2>2, <3>1, Zenon
  <2>4. StageInv'
    BY <1>1, <1>3, <2>1, <2>2, <2>3 DEF StageInv, Stages, Reading, Copying, Copied
  <2>5. GateInv'
    BY <1>2, <2>1 DEF GateInv, Open, EnabledBy
  <2> QED
    BY <2>4, <2>5
<1>7. CASE EnterKernel
  <2>1. /\ stage = "kernel" /\ stage' = "main"
        /\ UNCHANGED <<left, tries, cur, low, high, wrapped, purpose>>
    BY <1>7 DEF EnterKernel
  <2>2. StageInv'
    BY <1>1, <1>3, <2>1 DEF StageInv, Stages, Reading, Copying, Copied
  <2>3. GateInv'
    BY <1>2, <2>1 DEF GateInv, Open, EnabledBy
  <2> QED
    BY <2>2, <2>3
<1> QED
  BY <1>4, <1>5, <1>6, <1>7

(***************************************************************************)
(* The gate: a method is chosen when it opens the gate, whatever switches  *)
(* are left from those tried before, and it does so every time.            *)
(***************************************************************************)
LEMMA EnableInv ==
    ASSUME ToolInv, StageInv, GateInv, UNCHANGED toolVars, EnableA20
    PROVE  StageInv' /\ GateInv'
<1>1. UNCHANGED <<tool, root, data, fat1>>
  BY DEF toolVars
<1>2. stage = "enable" /\ UNCHANGED <<left, tries, cur, low, high, wrapped, purpose>>
  BY DEF EnableA20, loadVars
<1>3. ASSUME stage' = "enable" PROVE StageInv'
  BY <1>1, <1>2, <1>3 DEF StageInv, Copying, Copied
<1>4. CASE NoMethodLeft /\ stage' = "wild" /\ UNCHANGED a20Vars
  <2>1. UNCHANGED <<a20_vec, switches, board, probe, intr>>
    BY <1>4 DEF a20Vars
  <2>2. StageInv'
    BY <1>1, <1>2, <1>4 DEF StageInv, Stages, Reading, Copying, Copied
  <2>3. GateInv'
    BY <1>2, <1>4, <2>1 DEF GateInv, Open, EnabledBy
  <2> QED
    BY <2>2, <2>3
<1>5. CASE a20_vec = "unset" /\ Detect /\ UNCHANGED stage
  <2>1. Len(Methods) = 6
    BY DEF Methods
  <2>2. ~wrapped' /\ stage' = "enable"
    BY <1>2, <1>5 DEF GateInv
  <2> SUFFICES GateInv'
    BY <1>3, <2>2
  <2>3. ASSUME probe' \in 0 .. Len(Methods) + 1,
               a20_vec' # "unset" => OpenOn(board', switches' \cup Switches(a20_vec'))
        PROVE  GateInv'
    BY <2>2, <2>3 DEF GateInv, Open, OpenOn, EnabledBy
  <2>4. CASE DetectStart
    <3>1. CASE OpenOn(board', switches)
      <4>1. a20_vec' = "null" /\ probe' = 0 /\ switches' = switches
        BY <2>4, <3>1 DEF DetectStart, Chosen
      <4>2. switches' \cup Switches(a20_vec') = switches
        BY <4>1 DEF Switches
      <4> QED
        BY <2>1, <2>3, <3>1, <4>1, <4>2
    <3>2. CASE ~OpenOn(board', switches)
      BY <1>5, <2>1, <2>3, <2>4, <3>2 DEF DetectStart
    <3> QED
      BY <3>1, <3>2
  <2>5. CASE ProbeBIOS /\ UNCHANGED board
    <3>1. CASE Chosen("bios") /\ UNCHANGED switches
      <4>1. a20_vec' = "bios" /\ probe' = 0
        BY <3>1 DEF Chosen
      <4>2. "bios" \in switches' \cup Switches(a20_vec')
        BY <4>1 DEF Switches
      <4> QED
        BY <2>1, <2>3, <4>1, <4>2 DEF OpenOn
    <3>2. CASE probe' = 2 /\ UNCHANGED a20_vec
      BY <1>5, <2>1, <2>3, <3>2
    <3> QED
      BY <2>5, <3>1, <3>2 DEF ProbeBIOS
  <2>6. CASE Probe /\ UNCHANGED board
    <3> DEFINE m == Methods[probe]
    <3>1. probe \in 2 .. 6
      BY <2>1, <2>6 DEF Probe
    <3>2. CASE Open(EnabledBy(m))
      <4>1. a20_vec' = m /\ probe' = 0 /\ switches' = DisabledBy(m)
        BY <2>6, <3>2 DEF Probe, Chosen
      <4>2. switches' \cup Switches(a20_vec') = EnabledBy(m)
        BY <4>1 DEF DisabledBy, EnabledBy
      <4>3. OpenOn(board', EnabledBy(m))
        BY <2>6, <3>2 DEF Open
      <4> QED
        BY <2>1, <2>3, <4>1, <4>2, <4>3
    <3>3. CASE ~Open(EnabledBy(m))
      <4>1. probe' = probe + 1 /\ UNCHANGED a20_vec
        BY <2>6, <3>3 DEF Probe
      <4> QED
        BY <1>5, <2>1, <2>3, <3>1, <4>1
    <3> QED
      BY <3>2, <3>3
  <2> QED
    BY <1>5, <2>4, <2>5, <2>6 DEF Detect
<1>6. CASE a20_vec # "unset" /\ EnableWith(a20_vec) /\ stage' = purpose
           /\ UNCHANGED <<board, a20_vec, probe>>
  <2>1. switches' = EnabledBy(a20_vec) /\ intr' = FALSE
    BY <1>6 DEF EnableWith
  <2>2. Open(EnabledBy(a20_vec))
    BY <1>6 DEF GateInv
  <2>3. Open(switches)'
    BY <1>6, <2>1, <2>2 DEF Open, OpenOn
  <2>4. EnabledBy(a20_vec)' = switches'
    BY <1>6, <2>1 DEF EnabledBy
  <2>5. GateInv'
    BY <1>2, <1>6, <2>1, <2>3, <2>4 DEF GateInv, Open
  <2>6. purpose \in {"copy", "kernel"}
    BY DEF StageInv
  <2>7. StageInv'
    BY <1>1, <1>2, <1>6, <2>6 DEF StageInv, Stages, Reading, Copying, Copied
  <2> QED
    BY <2>5, <2>7
<1> QED
  BY <1>4, <1>5, <1>6 DEF EnableA20

LEMMA DisableInv ==
    ASSUME ToolInv, StageInv, GateInv, UNCHANGED toolVars, DisableA20
    PROVE  StageInv' /\ GateInv'
<1>1. UNCHANGED <<tool, root, data, fat1>>
  BY DEF toolVars
<1>2. /\ stage = "disable" /\ UNCHANGED <<board, a20_vec, probe, low, high, wrapped>>
      /\ cur' = ReadFat(fat1, cur) /\ tries' = Tries
      /\ switches' = DisabledBy(a20_vec)
      /\ stage' \in {"enable", "cluster"}
  BY DEF DisableA20, DisableWith, StartReading
<1>3. Tries \in Nat \ {0} /\ MaxCluster \in Nat
  BY LoaderAssumption, MaxClusterAssumption
<1>4. GateInv'
  <2>1. a20_vec # "unset" /\ Open(EnabledBy(a20_vec))
    BY <1>2 DEF GateInv
  <2>2. EnabledBy(a20_vec)' = EnabledBy(a20_vec)
    BY <1>2 DEF EnabledBy, DisabledBy
  <2>3. Open(EnabledBy(a20_vec))'
    BY <1>2, <2>1, <2>2 DEF Open, OpenOn
  <2> QED
    BY <1>2, <2>3 DEF GateInv
<1>5. StageInv'
  <2>1. PICK i \in 1 .. MaxCluster : cur \in Cluster /\ data[cur] = <<Kernel, i>> /\ high = KernelSectors(i)
    BY <1>2 DEF StageInv, Copying
  <2>2. tool = "saved"
    BY <1>2 DEF StageInv
  <2>3. PICK s \in Slot :
           /\ root[s].name = Kernel
           /\ \/ cur' \in Cluster /\ i + 1 \in 1 .. MaxCluster /\ data[cur'] = <<Kernel, i + 1>>
              \/ i = InImage(root[s].size) /\ cur' = EndOfFile
    BY <1>2, <2>1, <2>2, ChainGoesOn, KernelIs
  <2>4. CASE cur' \in Cluster /\ i + 1 \in 1 .. MaxCluster /\ data[cur'] = <<Kernel, i + 1>>
    <3>1. cur' # EndOfFile
      BY <2>4, ClusterRange
    <3>2. stage' = "cluster" /\ purpose' = purpose
      BY <3>1 DEF DisableA20
    <3>3. high' = KernelSectors((i + 1) - 1)
      BY <1>2, <2>1
    <3> QED
      BY <1>1, <1>2, <1>3, <2>2, <2>4, <3>2, <3>3 DEF StageInv, Stages, Copying, Copied
  <2>5. CASE i = InImage(root[s].size) /\ cur' = EndOfFile
    <3>1. stage' = "enable" /\ purpose' = "kernel"
      BY <2>5 DEF DisableA20
    <3>2. root'[s].name = Kernel /\ high' = KernelSectors(InImage(root'[s].size))
      BY <1>1, <1>2, <2>1, <2>3, <2>5
    <3> QED
      BY <1>1, <1>2, <1>3, <2>2, <3>1, <3>2 DEF StageInv, Stages, Reading, Copying, Copied
  <2> QED
    BY <2>3, <2>4, <2>5
<1> QED
  BY <1>4, <1>5

-----------------------------------------------------------------------------

LEMMA InitIInv == Init => IInv
BY ToolInitInv, BootInitInv DEF Init, IInv

LEMMA NextIInv == IInv /\ [Next]_vars => IInv'
<1> SUFFICES ASSUME IInv, [Next]_vars PROVE IInv'
  OBVIOUS
<1> USE DEF IInv
<1>1. CASE ToolNext /\ UNCHANGED <<bootVars, a20Vars, loadVars>>
  <2>1. ToolInv'
    BY <1>1, ToolNextInv
  <2>2. stage = "off"
    BY <1>1 DEF StageInv, ToolNext, FormatDisk, LoadBootSector, OpenFile, WriteCluster, WriteEntry, SaveImage
  <2>3. UNCHANGED <<stage, left, tries, cur, low>> /\ UNCHANGED <<board, switches, a20_vec, probe, intr>>
        /\ UNCHANGED <<high, wrapped, purpose>>
    BY <1>1 DEF bootVars, a20Vars, loadVars
  <2>4. StageInv'
    BY <2>2, <2>3 DEF StageInv, Copying, Copied, Reading
  <2>5. GateInv'
    BY <2>3 DEF GateInv, Open, EnabledBy
  <2> QED
    BY <2>1, <2>4, <2>5
<1>2. CASE BootSectorNext /\ UNCHANGED <<toolVars, a20Vars, loadVars>>
  <2>1. UNCHANGED toolVars /\ UNCHANGED a20Vars /\ UNCHANGED loadVars
    BY <1>2
  <2> QED
    BY <1>2, <2>1, ToolKept, BootSectorInv
<1>3. CASE LoadNext /\ UNCHANGED toolVars
  <2>1. CASE (CheckFooter \/ ClusterRead \/ CopyToExt \/ EnterKernel) /\ UNCHANGED a20Vars
    BY <1>3, <2>1, ToolKept, CopyInv
  <2>2. CASE ReadCHS /\ UNCHANGED loadVars /\ UNCHANGED a20Vars
    BY <1>3, <2>2, ToolKept, ReadCHSInv
  <2>3. CASE EnableA20
    BY <1>3, <2>3, ToolKept, EnableInv
  <2>4. CASE DisableA20
    BY <1>3, <2>4, ToolKept, DisableInv
  <2> QED
    BY <1>3, <2>1, <2>2, <2>3, <2>4 DEF LoadNext
<1>4. CASE UNCHANGED vars
  <2>1. UNCHANGED toolVars /\ UNCHANGED bootVars /\ UNCHANGED a20Vars /\ UNCHANGED loadVars
    BY <1>4 DEF vars
  <2>2. UNCHANGED <<stage, left, tries, cur, low>> /\ UNCHANGED <<board, switches, a20_vec, probe, intr>>
        /\ UNCHANGED <<high, wrapped, purpose>> /\ UNCHANGED <<tool, root, data>>
    BY <2>1 DEF bootVars, a20Vars, loadVars, toolVars
  <2>3. StageInv'
    BY <2>2 DEF StageInv, Copying, Copied, Reading
  <2>4. GateInv'
    BY <2>2 DEF GateInv, Open, EnabledBy
  <2> QED
    BY <2>1, <2>3, <2>4, ToolKept
<1> QED
  BY <1>1, <1>2, <1>3, <1>4 DEF Next

(***************************************************************************)
(* The inductive invariant holds: the tool's half of it while nucflop      *)
(* writes the image, the rest while boot sector and loader read it.        *)
(***************************************************************************)
THEOREM SpecIInv == Spec => []IInv
BY InitIInv, NextIInv, PTL DEF Spec

(***************************************************************************)
(* Every value has its type, and every cluster that is read is one.        *)
(***************************************************************************)
LEMMA InvTypeOK == IInv => TypeOK
<1> SUFFICES ASSUME IInv PROVE TypeOK
  OBVIOUS
<1>1. ToolTypes /\ StageInv /\ GateInv
  BY DEF IInv, ToolInv
<1>2. stage \in {"image", "cluster", "copy", "disable"} => cur \in Cluster
  BY <1>1 DEF StageInv, Copying
<1> QED
  BY <1>1, <1>2 DEF TypeOK, ToolTypes, StageInv, GateInv

LEMMA InvKernelAsWritten == IInv => KernelAsWritten
<1> SUFFICES ASSUME IInv PROVE KernelAsWritten
  OBVIOUS
<1>1. ToolInv /\ StageInv /\ GateInv
  BY DEF IInv
<1>2. ASSUME stage \in {"kernel", "main"}
      PROVE  high = [i \in 1 .. InImage(root[FirstEntry(Kernel)].size) |-> <<Kernel, i>>]
  <2>1. PICK s \in Slot : root[s].name = Kernel /\ high = KernelSectors(InImage(root[s].size))
    BY <1>1, <1>2 DEF StageInv, Copied
  <2>2. Entries(Kernel) # {}
    BY <2>1 DEF Entries
  <2>3. FirstEntry(Kernel) = s
    <3>1. PICK r : Entries(Kernel) = {r} /\ FirstEntry(Kernel) = r
      BY <1>1, <2>2, Entered, KernelIs
    <3>2. s \in Entries(Kernel)
      BY <2>1 DEF Entries
    <3> QED
      BY <3>1, <3>2
  <2> QED
    BY <2>1, <2>3 DEF KernelSectors
<1> QED
  BY <1>1, <1>2 DEF KernelAsWritten, GateInv

(***************************************************************************)
(* Types; every cluster that is read is one of the disk, and both copies of*)
(* the table say the same (write_fatentry(), LOAD_IMAGE, ReadFat()).       *)
(***************************************************************************)
THEOREM TypeCorrectness == Spec => []TypeOK
BY SpecIInv, InvTypeOK, PTL

(***************************************************************************)
(* An entry of the table that is in use belongs to exactly one chain, and  *)
(* write_file() never gives a file up half way: the free space it asks for *)
(* is enough.                                                              *)
(***************************************************************************)
THEOREM NoClusterLost == Spec => []NothingLost
<1>1. IInv => NothingLost
  BY InvNothingLost DEF IInv
<1> QED
  BY <1>1, SpecIInv, PTL

(***************************************************************************)
(* A kernel that EnterKernel() enters is the file nucflop was given, sector*)
(* by sector, with the gate of line 20 open and interrupts off, and no copy*)
(* has gone to low memory, on any board.                                   *)
(***************************************************************************)
THEOREM KernelEntered == Spec => []KernelAsWritten
BY SpecIInv, InvKernelAsWritten, PTL

LEMMA StoreStep ==
    IInv /\ IInv' /\ [Next]_vars => [\E f \in File : Abstract!Publish(f)]_Store
<1> SUFFICES ASSUME IInv, IInv', [Next]_vars
             PROVE  (\E f \in File : Abstract!Publish(f)) \/ Store' = Store
  OBVIOUS
<1>1. ToolInv /\ ToolInv'
  BY DEF IInv
<1>2. CASE WriteEntry
  BY <1>1, <1>2, StorePublished DEF Abstract!Publish, Store
<1>3. CASE ~WriteEntry
  <2>1. root' = root
    BY <1>3 DEF Next, ToolNext, FormatDisk, LoadBootSector, OpenFile, WriteCluster, SaveImage,
                imageVars, toolVars, vars
  <2> QED
    BY <1>1, <2>1, StoreSame
<1> QED
  BY <1>2, <1>3

(***************************************************************************)
(* nucflop's bytes implement the store of files: the one step that is seen *)
(* from outside is the directory entry, which publishes its file whole and *)
(* takes nothing from another.                                             *)
(***************************************************************************)
THEOREM FilesStored == Spec => ImplementsFileStore
<1>1. Init => Abstract!StoreInit
  BY StoreInitIs DEF Init, Abstract!StoreInit, Store
<1> QED
  BY <1>1, SpecIInv, StoreStep, PTL DEF Spec, ImplementsFileStore, Abstract!StoreSpec, Store
=============================================================================
