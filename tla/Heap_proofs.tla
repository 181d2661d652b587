---------------------------- MODULE Heap_proofs -----------------------------
(***************************************************************************)
(* Proofs about HeapStacks, for every page size, every size of the stacks, *)
(* any number of clients and any disk that fit its assumptions.            *)
(***************************************************************************)
EXTENDS HeapStacks, MallocLoop, NaturalFacts, FiniteSetTheorems

K == Cardinality(Client)

LEMMA KType == K \in Nat
  BY EnoughMemory, FS_CardinalityType DEF K

-----------------------------------------------------------------------------
(* The grid *)

(***************************************************************************)
(* Multiples of n are at least n apart.                                    *)
(***************************************************************************)
LEMMA Multiples ==
    ASSUME NEW k \in Nat, NEW l \in Nat, NEW n \in Nat, k < l
    PROVE  /\ k * n \in Nat
           /\ l * n \in Nat
           /\ k * n + n <= l * n
<1> DEFINE m == l - k - 1
<1>1. m \in Nat /\ l = k + 1 + m
  OBVIOUS
<1>2. l * n = k * n + n + m * n
  BY <1>1
<1>3. m * n \in Nat /\ k * n \in Nat
  BY <1>1
<1> QED
  BY <1>2, <1>3

(***************************************************************************)
(* Where the grid starts, and that its slots are a stack apart.            *)
(***************************************************************************)
LEMMA GridOK ==
    /\ Base \in Nat
    /\ Grid(0) = Base - 1
    /\ \A k \in Nat : Grid(k) \in Int /\ Grid(k) >= Base - 1
    /\ \A j, k \in Nat : j < k => Grid(j) + StackPages <= Grid(k)
    /\ \A k \in Nat : Grid(k + 1) = Grid(k) + StackPages
<1>1. Base \in Nat
  BY BuffersSmaller DEF Base
<1>2. StackPages \in Nat
  BY UniformStacks
<1>3. ASSUME NEW k \in Nat
      PROVE  /\ k * StackPages \in Nat
             /\ (k + 1) * StackPages = k * StackPages + StackPages
  BY <1>2
<1>4. 0 * StackPages = 0
  BY <1>2
<1>5. ASSUME NEW j \in Nat, NEW k \in Nat, j < k
      PROVE  Grid(j) + StackPages <= Grid(k)
  BY <1>1, <1>2, <1>5, Multiples DEF Grid
<1> QED
  BY <1>1, <1>2, <1>3, <1>4, <1>5 DEF Grid

(***************************************************************************)
(* A stack in any of the first K slots is inside the memory, and free()    *)
(* on it does not go round the end of the list.                            *)
(***************************************************************************)
LEMMA SlotInMemory ==
    ASSUME NEW k \in 1 .. K
    PROVE  /\ Grid(k) \in Node
           /\ Grid(k) + StackPages <= UserPages
           /\ Base + StackPages <= Grid(k) + 1
<1>1. K \in Nat /\ StackPages \in Nat /\ UserPages \in Nat
  BY KType, UniformStacks, SizesAssumption
<1>2. Grid(k) <= Grid(K)
  BY <1>1, GridOK
<1>3. Grid(K) = Base - 1 + K * StackPages /\ K * StackPages \in Nat
  BY <1>1 DEF Grid
<1>4. Base <= FatPages + RootPages
  BY BuffersSmaller DEF Base
<1>5. Grid(K) + StackPages <= UserPages
  BY <1>1, <1>3, <1>4, GridOK, EnoughMemory, BuffersSmaller DEF K
<1>6. Grid(0) + StackPages <= Grid(k)
  BY <1>1, GridOK
<1>7. Base \in Nat /\ Grid(0) = Base - 1 /\ Grid(k) \in Int /\ Grid(K) \in Int
  BY <1>1, GridOK
<1>8. Grid(k) + StackPages <= UserPages /\ Base + StackPages <= Grid(k) + 1
  BY <1>1, <1>2, <1>5, <1>6, <1>7
<1>9. Grid(k) \in 0 .. UserPages
  BY <1>1, <1>7, <1>8, UniformStacks
<1> QED
  BY <1>8, <1>9 DEF Node

-----------------------------------------------------------------------------
(* Where blocks are *)

(***************************************************************************)
(* A used node is behind the buffers in a slot of the grid that a client   *)
(* has, or it is the node of a buffer.                                     *)
(***************************************************************************)
LEMMA UsedNodes ==
    ASSUME IInv, NEW e \in Node, status[e] = "USED"
    PROVE  \/ /\ block[FatBuf] # NoBlock
              /\ e = FatPages - 1
              /\ e < Base
           \/ /\ block[Root] # NoBlock
              /\ e = FatPages + RootPages - 1
              /\ e = Base - 1
           \/ \E c \in Client, k \in 1 .. K :
                 block[c] # NoBlock /\ block[c].page = e /\ e = Grid(k)
<1>1. PICK o \in Live : e = block[o].page
  BY DEF IInv, UsedIffLive
<1>2. CASE o = FatBuf
  BY <1>1, <1>2, BuffersSmaller DEF IInv, BuffersPlaced, Live, Base
<1>3. CASE o = Root
  BY <1>1, <1>3, BuffersSmaller DEF IInv, BuffersPlaced, Live, Base
<1>4. CASE o \in Client
  BY <1>1, <1>4 DEF IInv, StacksOnGrid, Live, K
<1> QED
  BY <1>1, <1>2, <1>3, <1>4 DEF Live, Owner

(***************************************************************************)
(* While a client has no stack, one of the first K slots is free: the      *)
(* other clients are fewer than the slots.  Take the first one.            *)
(***************************************************************************)
LEMMA FreeSlot ==
    ASSUME IInv, NEW c \in Client, block[c] = NoBlock
    PROVE  \E k \in 1 .. K : /\ status[Grid(k)] = "FREE"
                             /\ \A j \in 1 .. k - 1 : status[Grid(j)] = "USED"
<1>1. \A k \in 1 .. K : Grid(k) \in Node /\ status[Grid(k)] \in {"FREE", "USED"}
  BY SlotInMemory DEF IInv, TypeOK
<1>2. \E k \in 1 .. K : status[Grid(k)] = "FREE"
  <2> SUFFICES ASSUME \A k \in 1 .. K : status[Grid(k)] = "USED" PROVE FALSE
    BY <1>1
  <2> DEFINE Others == Client \ {c}
             Has(d, k) == block[d] # NoBlock /\ block[d].page = Grid(k)
             owner == [k \in 1 .. K |-> CHOOSE d \in Others : Has(d, k)]
  <2>1. ASSUME NEW k \in 1 .. K
        PROVE  \E d \in Others : Has(d, k)
    <3>1. Grid(k) >= Base /\ Base \in Int /\ Grid(k) \in Node
      BY SlotInMemory, UniformStacks, GridOK, KType
    <3>2. \E d \in Client, l \in 1 .. K : /\ block[d] # NoBlock
                                          /\ block[d].page = Grid(k)
                                          /\ Grid(k) = Grid(l)
      <4>1. Grid(k) # Base - 1 /\ ~(Grid(k) < Base)
        BY <3>1, SizesAssumption DEF Node
      <4> QED
        BY <3>1, <4>1, UsedNodes
    <3> QED
      BY <3>2
  <2>2. \A k \in 1 .. K : owner[k] \in Others /\ Has(owner[k], k)
    BY <2>1
  <2>3. owner \in [1 .. K -> Others]
    BY <2>2
  <2>4. IsFiniteSet(Others) /\ Cardinality(Others) = K - 1
    BY EnoughMemory, FS_RemoveElement DEF K
  <2>5. IsFiniteSet(1 .. K) /\ Cardinality(1 .. K) = K
    BY KType, FS_Interval
  <2> HIDE DEF owner, Others
  <2>6. \E x, y \in 1 .. K : x # y /\ owner[x] = owner[y]
    BY <2>3, <2>4, <2>5, KType, FS_PigeonHole
  <2>7. PICK x \in 1 .. K, y \in 1 .. K : x < y /\ owner[x] = owner[y]
    BY <2>6, KType
  <2>8. Grid(x) = Grid(y)
    BY <2>2, <2>7
  <2> QED
    BY <2>7, <2>8, GridOK, KType, UniformStacks
<1>3. PICK k \in 1 .. K : /\ status[Grid(k)] = "FREE"
                          /\ \A j \in 1 .. K : status[Grid(j)] = "FREE" => k <= j
  <2> DEFINE T == {k \in 1 .. K : status[Grid(k)] = "FREE"}
  <2>1. T \in SUBSET Nat /\ T # {}
    BY <1>2, KType
  <2> QED
    BY <2>1, LeastNat
<1>4. ASSUME NEW j \in 1 .. k - 1 PROVE status[Grid(j)] = "USED"
  BY <1>1, <1>3, KType
<1> QED
  BY <1>3, <1>4

(***************************************************************************)
(* malloc() called for such a client finds a run, and stops at a free slot *)
(* of the grid: the nodes between two slots are free, and no run of that   *)
(* length ends before the first free slot.                                 *)
(***************************************************************************)
LEMMA MallocOnGrid ==
    ASSUME IInv, NEW c \in Client, block[c] = NoBlock
    PROVE  \E k \in 1 .. K : /\ Grid(k) \in RunEnds(status, StackPages)
                             /\ FirstFit(status, StackPages) = Grid(k)
                             /\ status[Grid(k)] = "FREE"
<1>1. PICK k \in 1 .. K : /\ status[Grid(k)] = "FREE"
                          /\ \A j \in 1 .. k - 1 : status[Grid(j)] = "USED"
  BY FreeSlot
<1>2. /\ k \in Nat /\ 1 <= k /\ k - 1 \in Nat /\ K \in Nat
      /\ StackPages \in Nat /\ 2 <= StackPages /\ UserPages \in Nat
      /\ Base \in Nat
      /\ Grid(k) \in Node /\ Grid(k - 1) \in Int
      /\ Grid(k) = Grid(k - 1) + StackPages
      /\ Base - 1 <= Grid(k - 1)
  <2>1. k - 1 \in Nat /\ k = (k - 1) + 1
    BY KType
  <2> QED
    BY <2>1, KType, UniformStacks, SizesAssumption, SlotInMemory, GridOK
<1>3. ASSUME NEW i \in Grid(k) - StackPages + 1 .. Grid(k)
      PROVE  i \in Node /\ status[i] = "FREE"
  <2>1. i \in Node /\ Base - 1 < i /\ Grid(k - 1) < i /\ i <= Grid(k)
    BY <1>2, <1>3 DEF Node
  <2>2. SUFFICES ASSUME status[i] = "USED" PROVE FALSE
    BY <2>1 DEF IInv, TypeOK
  <2>3. PICK j \in 1 .. K : i = Grid(j)
    <3>1. i # Base - 1 /\ ~(i < Base)
      BY <1>2, <2>1 DEF Node
    <3> QED
      BY <2>1, <2>2, <3>1, UsedNodes
  <2>4. CASE j < k
    <3>1. j = k - 1 \/ j < k - 1
      BY <1>2, <2>4
    <3>2. j \in Nat /\ k - 1 \in Nat /\ Grid(j) \in Int
      BY <1>2, GridOK
    <3>3. j < k - 1 => Grid(j) + StackPages <= Grid(k - 1)
      BY <3>2, GridOK
    <3> QED
      BY <1>2, <2>1, <2>3, <3>1, <3>2, <3>3 DEF Node
  <2>5. CASE k < j
    <3>1. j \in Nat /\ k \in Nat /\ Grid(j) \in Int
      BY <1>2, GridOK
    <3>2. Grid(k) + StackPages <= Grid(j)
      BY <2>5, <3>1, GridOK
    <3> QED
      BY <1>2, <2>1, <2>3, <3>1, <3>2 DEF Node
  <2>6. CASE j = k
    BY <1>1, <2>2, <2>3, <2>6
  <2> QED
    BY <1>2, <2>4, <2>5, <2>6
<1>4. Grid(k) \in RunEnds(status, StackPages)
  <2>1. Grid(k) + 1 >= StackPages
    BY <1>2 DEF Node
  <2> QED
    BY <1>2, <1>3, <2>1 DEF RunEnds
<1>5. ASSUME NEW f \in RunEnds(status, StackPages), f < Grid(k)
      PROVE  FALSE
  <2>1. /\ f \in Node /\ f \in Nat /\ f + 1 >= StackPages
        /\ \A i \in f - StackPages + 1 .. f : status[i] = "FREE"
    BY <1>5, SizesAssumption DEF RunEnds, Node
  <2>2. CASE f < Base - 1
    <3>1. block[FatBuf] # NoBlock \/ block[Root] # NoBlock
      BY <2>1, <2>2 DEF Base
    <3>2. /\ block[FatBuf] # NoBlock
          /\ block[FatBuf].page = FatPages - 1
      BY <3>1 DEF IInv, BuffersPlaced
    <3>3. status[FatPages - 1] = "USED"
      BY <3>2 DEF IInv, UsedIffLive, Live, Owner
    <3>4. Base <= FatPages + RootPages
      BY BuffersSmaller DEF Base
    <3>5. FatPages - 1 \in f - StackPages + 1 .. f
      BY <1>2, <2>1, <2>2, <3>4, BuffersSmaller
    <3> QED
      BY <2>1, <3>3, <3>5
  <2>3. CASE f >= Base - 1
    <3> DEFINE T == {j \in Nat : f < Grid(j)}
    <3>1. k \in T
      BY <1>2, <1>5
    <3>2. PICK j \in T : \A l \in T : j <= l
      BY <3>1, LeastNat
    <3> HIDE DEF T
    <3>3. j \in Nat /\ f < Grid(j) /\ j <= k /\ Grid(j) \in Int
      BY <3>1, <3>2, GridOK DEF T
    <3>4. j # 0
      BY <2>1, <2>3, <3>3, GridOK
    <3>5. j - 1 \in Nat /\ Grid(j - 1) \in Int /\ Grid(j) = Grid(j - 1) + StackPages
      <4>1. j - 1 \in Nat /\ j = (j - 1) + 1
        BY <3>3, <3>4
      <4> QED
        BY <4>1, GridOK
    <3>6. Grid(j - 1) <= f
      BY <2>1, <3>2, <3>5 DEF T
    <3>7. Grid(j - 1) \in f - StackPages + 1 .. f
      BY <1>2, <2>1, <3>3, <3>5, <3>6
    <3>8. CASE j - 1 >= 1
      <4>1. j - 1 \in 1 .. k - 1
        BY <1>2, <3>3, <3>5, <3>8
      <4> QED
        BY <1>1, <2>1, <3>7, <4>1
    <3>9. CASE j - 1 = 0
      <4>1. Grid(j - 1) = Base - 1
        BY <3>9, GridOK
      <4>2. Base # 0
        BY <1>2, <2>1, <3>3, <3>5, <4>1
      <4>3. \E o \in {FatBuf, Root} : block[o] # NoBlock /\ block[o].page = Base - 1
        <5>1. BuffersPlaced
          BY DEF IInv
        <5>2. CASE block[Root] # NoBlock
          <6>1. Base = FatPages + RootPages /\ block[Root].page = FatPages + RootPages - 1
            BY <5>1, <5>2 DEF Base, BuffersPlaced
          <6>2. block[Root].page = Base - 1
            BY <1>2, <6>1, BuffersSmaller
          <6> QED
            BY <5>2, <6>2
        <5>3. CASE block[Root] = NoBlock
          BY <4>2, <5>1, <5>3 DEF Base, BuffersPlaced
        <5> QED
          BY <5>2, <5>3
      <4>4. status[Base - 1] = "USED"
        BY <4>3 DEF IInv, UsedIffLive, Live, Owner
      <4> QED
        BY <2>1, <3>7, <4>1, <4>4
    <3> QED
      BY <3>3, <3>5, <3>8, <3>9
  <2> QED
    BY <1>2, <2>1, <2>2, <2>3
<1>6. FirstFit(status, StackPages) = Grid(k)
  <2>1. RunEnds(status, StackPages) \subseteq Int
    BY SizesAssumption DEF RunEnds, Node
  <2>2. \A f \in RunEnds(status, StackPages) : Grid(k) <= f
    BY <1>2, <1>5, <2>1, GridOK
  <2> QED
    BY <1>4, <2>1, <2>2 DEF FirstFit
<1> QED
  BY <1>1, <1>4, <1>6

(***************************************************************************)
(* The buffers of fs_fat_init() are the first n pages and the m after them.*)
(***************************************************************************)
LEMMA FirstBuffer ==
    ASSUME NEW st, \A e \in Node : st[e] = "FREE", NEW n \in Node, 1 <= n
    PROVE  n - 1 \in RunEnds(st, n) /\ FirstFit(st, n) = n - 1
<1>1. UserPages \in Nat /\ n \in Nat /\ n - 1 \in Node
  BY SizesAssumption DEF Node
<1>2. n - 1 \in RunEnds(st, n)
  BY <1>1 DEF RunEnds, Node
<1>3. \A f \in RunEnds(st, n) : f \in Int /\ n - 1 <= f
  BY <1>1 DEF RunEnds, Node
<1> QED
  BY <1>1, <1>2, <1>3 DEF FirstFit

LEMMA SecondBuffer ==
    ASSUME NEW n \in Nat, NEW m \in Nat, 1 <= n, n <= m, n + m <= UserPages,
           NEW st \in [Node -> {"FREE", "USED"}],
           \A e \in Node : st[e] = IF e = n - 1 THEN "USED" ELSE "FREE"
    PROVE  n + m - 1 \in RunEnds(st, m) /\ FirstFit(st, m) = n + m - 1
<1>1. UserPages \in Nat /\ n - 1 \in Node /\ n + m - 1 \in Node
  BY SizesAssumption DEF Node
<1>2. n + m - 1 \in RunEnds(st, m)
  <2>1. \A i \in n + m - 1 - m + 1 .. n + m - 1 : i \in Node /\ i # n - 1
    BY <1>1 DEF Node
  <2>2. n + m - 1 + 1 >= m
    OBVIOUS
  <2> QED
    BY <1>1, <2>1, <2>2 DEF RunEnds
<1>3. ASSUME NEW f \in RunEnds(st, m) PROVE f \in Int /\ n + m - 1 <= f
  <2>1. f \in Nat /\ f \in Node /\ f + 1 >= m /\ \A i \in f - m + 1 .. f : st[i] = "FREE"
    BY <1>1, <1>3 DEF RunEnds, Node
  <2>2. n - 1 \notin f - m + 1 .. f
    BY <1>1, <2>1
  <2> QED
    BY <2>1, <2>2
<1> QED
  BY <1>1, <1>2, <1>3 DEF FirstFit

-----------------------------------------------------------------------------
(* The invariant is inductive *)

LEMMA InitInvariant == ASSUME Init PROVE IInv
<1>1. TypeOK
  BY DEF Init, TypeOK
<1>2. Live = {}
  BY DEF Init, Live
<1>3. UsedIffLive
  BY <1>2 DEF Init, UsedIffLive
<1> QED
  BY <1>1, <1>3 DEF Init, IInv, BuffersPlaced, StacksOnGrid, StacksApart, Owner

LEMMA FatInitStep == ASSUME IInv, FatInit PROVE IInv'
<1> DEFINE fat == [page |-> FatPages - 1, pages |-> FatPages]
           rt == [page |-> FatPages + RootPages - 1, pages |-> RootPages]
<1>1. /\ TypeOK /\ ~mounted /\ mounted' = TRUE
      /\ \A o \in Owner : block[o] = NoBlock
      /\ \A e \in Node : status[e] = "FREE"
  BY DEF IInv, FatInit, TypeOK, UsedIffLive, Live
<1>2. /\ FatPages \in Nat /\ RootPages \in Nat /\ 1 <= FatPages /\ FatPages <= RootPages
      /\ FatPages + RootPages <= UserPages /\ UserPages \in Nat
      /\ FatPages \in Node
      /\ FatPages - 1 \in Node /\ FatPages + RootPages - 1 \in Node
      /\ FatPages - 1 # FatPages + RootPages - 1
  <2>1. StackPages \in Nat /\ K * StackPages \in Nat
    BY KType, UniformStacks
  <2>2. FatPages + RootPages <= UserPages
    BY <2>1, UniformStacks, BuffersSmaller, EnoughMemory, SizesAssumption DEF K
  <2> QED
    BY <2>2, BuffersSmaller, SizesAssumption DEF Node
<1>3. FirstFit(status, FatPages) = FatPages - 1
  BY <1>1, <1>2, FirstBuffer
<1>4. fat \in Block /\ rt \in Block /\ fat # NoBlock /\ rt # NoBlock
  BY <1>2, NoBlockAssumption DEF Block
<1>5. FatBuf \in Owner /\ Root \in Owner /\ Client \subseteq Owner
      /\ FatBuf # Root /\ FatBuf \notin Client /\ Root \notin Client
  BY OwnersAssumption DEF Owner
<1>6. CASE UNCHANGED <<status, size, block>>
  <2>1. Live' = {} /\ Live = {}
    BY <1>1, <1>6 DEF Live
  <2> QED
    BY <1>1, <1>5, <1>6, <2>1
       DEF IInv, TypeOK, BuffersPlaced, StacksOnGrid, StacksApart, UsedIffLive
<1>7. CASE Malloc(FatBuf, FatBytes)
  <2>1. /\ status' = [status EXCEPT ![FatPages - 1] = "USED"]
        /\ size' = [size EXCEPT ![FatPages - 1] = FatPages]
        /\ block' = [block EXCEPT ![FatBuf] = fat]
    BY <1>3, <1>7 DEF Malloc, MarkedStatus, MarkedSize, FatPages
  <2>2. TypeOK'
    BY <1>1, <1>2, <1>4, <2>1 DEF TypeOK
  <2>3. block'[FatBuf] = fat /\ \A o \in Owner : o # FatBuf => block'[o] = NoBlock
    BY <1>1, <1>5, <2>1 DEF TypeOK
  <2>4. Live' = {FatBuf}
    BY <1>4, <1>5, <2>3 DEF Live
  <2>5. UsedIffLive'
    <3>1. {block'[o].page : o \in Live'} = {FatPages - 1}
      BY <2>3, <2>4
    <3>2. {e \in Node : status'[e] = "USED"} = {FatPages - 1}
      BY <1>1, <1>2, <2>1 DEF TypeOK
    <3>3. size'[FatPages - 1] = FatPages
      BY <1>1, <1>2, <2>1 DEF TypeOK
    <3> QED
      BY <2>3, <2>4, <3>1, <3>2, <3>3 DEF UsedIffLive
  <2> QED
    BY <1>1, <1>5, <2>2, <2>3, <2>5
       DEF IInv, BuffersPlaced, StacksOnGrid, StacksApart
<1>8. CASE /\ status' = MarkedStatus(MarkedStatus(status, FatPages - 1), FatPages + RootPages - 1)
           /\ size' = MarkedSize(MarkedSize(size, FatPages - 1, FatPages),
                                 FatPages + RootPages - 1, RootPages)
           /\ block' = [block EXCEPT ![FatBuf] = fat, ![Root] = rt]
  <2>1. TypeOK'
    BY <1>1, <1>2, <1>4, <1>8 DEF TypeOK, MarkedStatus, MarkedSize
  <2>2. /\ block'[FatBuf] = fat /\ block'[Root] = rt
        /\ \A o \in Owner : o # FatBuf /\ o # Root => block'[o] = NoBlock
    BY <1>1, <1>5, <1>8 DEF TypeOK
  <2>3. Live' = {FatBuf, Root}
    BY <1>4, <1>5, <2>2 DEF Live
  <2>4. /\ \A e \in Node : status'[e] = IF e \in {FatPages - 1, FatPages + RootPages - 1}
                                        THEN "USED" ELSE "FREE"
        /\ size'[FatPages - 1] = FatPages
        /\ size'[FatPages + RootPages - 1] = RootPages
    BY <1>1, <1>2, <1>8 DEF TypeOK, MarkedStatus, MarkedSize
  <2>5. UsedIffLive'
    <3>1. {block'[o].page : o \in Live'} = {FatPages - 1, FatPages + RootPages - 1}
      BY <2>2, <2>3
    <3>2. {e \in Node : status'[e] = "USED"} = {FatPages - 1, FatPages + RootPages - 1}
      BY <1>2, <2>4
    <3> QED
      BY <2>2, <2>3, <2>4, <3>1, <3>2 DEF UsedIffLive
  <2>6. BuffersPlaced' /\ \A c \in Client : block'[c] = NoBlock
    BY <1>4, <1>5, <2>2 DEF BuffersPlaced
  <2> QED
    BY <1>1, <2>1, <2>5, <2>6 DEF IInv, StacksOnGrid, StacksApart
<1>9. FirstFit(MarkedStatus(status, FatPages - 1), RootPages) = FatPages + RootPages - 1
  <2>1. /\ MarkedStatus(status, FatPages - 1) \in [Node -> {"FREE", "USED"}]
        /\ \A e \in Node : MarkedStatus(status, FatPages - 1)[e]
                              = IF e = FatPages - 1 THEN "USED" ELSE "FREE"
    BY <1>1, <1>2 DEF TypeOK, MarkedStatus
  <2> QED
    BY <1>2, <2>1, SecondBuffer
<1> QED
  BY <1>3, <1>6, <1>7, <1>8, <1>9 DEF FatInit, FatPages, RootPages

LEMMA GetStackStep ==
    ASSUME IInv, NEW c \in Client, GetStack(c)
    PROVE  IInv'
<1>1. TypeOK /\ block[c] = NoBlock /\ mounted /\ mounted' = mounted
  BY DEF IInv, GetStack
<1>2. PICK k \in 1 .. K : /\ FirstFit(status, StackPages) = Grid(k)
                          /\ status[Grid(k)] = "FREE"
  BY <1>1, MallocOnGrid
<1> DEFINE e == Grid(k)
           new == [page |-> e, pages |-> StackPages]
<1>3. PICK bytes \in StackBytes : Malloc(c, bytes)
  BY DEF GetStack
<1>4. /\ status' = [status EXCEPT ![e] = "USED"]
      /\ size' = [size EXCEPT ![e] = StackPages]
      /\ block' = [block EXCEPT ![c] = new]
  BY <1>2, <1>3, UniformStacks DEF Malloc, MarkedStatus, MarkedSize
<1>5. e \in Node /\ StackPages \in Nat
  BY SlotInMemory, UniformStacks
<1>6. new \in Block /\ new # NoBlock
  BY <1>5, NoBlockAssumption DEF Block
<1>7. /\ Client \subseteq Owner /\ FatBuf \in Owner /\ Root \in Owner
      /\ c # FatBuf /\ c # Root
  BY OwnersAssumption DEF Owner
<1>8. TypeOK'
  BY <1>1, <1>4, <1>5, <1>6 DEF TypeOK
<1>9. block'[c] = new /\ \A o \in Owner : o # c => block'[o] = block[o]
  BY <1>1, <1>4, <1>7 DEF TypeOK
<1> HIDE DEF new
<1>10. BuffersPlaced'
  BY <1>7, <1>9 DEF IInv, BuffersPlaced
<1>11. Base' = Base /\ \A j \in 1 .. K : Grid(j)' = Grid(j)
  <2>1. Base' = Base
    BY <1>7, <1>9 DEF Base
  <2> QED
    BY <2>1 DEF Grid
<1>12. StacksOnGrid'
  <2> SUFFICES ASSUME NEW d \in Client, block'[d] # NoBlock
               PROVE  /\ block'[d].pages = StackPages
                      /\ \E j \in 1 .. K : block'[d].page = Grid(j)'
    BY DEF StacksOnGrid, K
  <2>1. CASE d = c
    BY <1>9, <1>11, <2>1 DEF new
  <2>2. CASE d # c
    <3>1. block'[d] = block[d]
      BY <1>7, <1>9, <2>2
    <3>2. /\ block[d].pages = StackPages
          /\ \E j \in 1 .. K : block[d].page = Grid(j)
      BY <3>1 DEF IInv, StacksOnGrid, K
    <3> QED
      BY <1>11, <3>1, <3>2
  <2> QED
    BY <2>1, <2>2
<1>13. \A o \in Live : block[o].page # e
  <2>1. \A o \in Live : block[o].page \in {n \in Node : status[n] = "USED"}
    BY DEF IInv, UsedIffLive
  <2> QED
    BY <1>2, <2>1
<1>14. StacksApart'
  BY <1>7, <1>9, <1>13 DEF IInv, StacksApart, Live, new
<1>15. Live' = Live \cup {c}
  BY <1>6, <1>7, <1>9 DEF Live
<1>16. UsedIffLive'
  <2>1. {n \in Node : status'[n] = "USED"} = {n \in Node : status[n] = "USED"} \cup {e}
    BY <1>1, <1>4, <1>5 DEF TypeOK
  <2>2. c \notin Live /\ Live \subseteq Owner
    BY <1>1 DEF Live
  <2>3. {block'[o].page : o \in Live'} = {block[o].page : o \in Live} \cup {e}
    BY <1>9, <1>15, <2>2 DEF new
  <2>4. ASSUME NEW o \in Live'
        PROVE  size'[block'[o].page] = block'[o].pages
    <3>1. CASE o = c
      BY <1>1, <1>4, <1>5, <1>9, <3>1 DEF TypeOK, new
    <3>2. CASE o # c
      <4>1. o \in Live /\ block'[o] = block[o]
        BY <1>9, <1>15, <2>2, <3>2
      <4>2. block[o].page \in Node /\ block[o].page # e /\ size[block[o].page] = block[o].pages
        BY <1>13, <4>1 DEF IInv, TypeOK, UsedIffLive, Block, Live
      <4> QED
        BY <1>1, <1>4, <4>1, <4>2 DEF TypeOK
    <3> QED
      BY <3>1, <3>2
  <2> QED
    BY <2>1, <2>3, <2>4 DEF IInv, UsedIffLive
<1> QED
  BY <1>1, <1>8, <1>10, <1>12, <1>14, <1>16 DEF IInv

LEMMA SmallRemainder ==
    ASSUME NEW a \in Nat, NEW b \in Nat, a < b
    PROVE  a % b = a
  OBVIOUS

(***************************************************************************)
(* Where the blocks of two owners, one of them a client, can be.           *)
(***************************************************************************)
LEMMA StackPlace ==
    ASSUME IInv, NEW c \in Client, c \in Live, NEW o \in Live, o # c
    PROVE  \E k \in 1 .. K :
              /\ block[c].page = Grid(k) /\ block[c].pages = StackPages
              /\ \/ o \in {FatBuf, Root} /\ block[o].page + block[o].pages <= Grid(k)
                 \/ /\ o \in Client /\ block[o].pages = StackPages
                    /\ \E l \in 1 .. K : /\ block[o].page = Grid(l)
                                         /\ \/ Grid(l) + StackPages <= Grid(k)
                                            \/ Grid(k) + StackPages <= Grid(l)
<1>1. PICK k \in 1 .. K : block[c].page = Grid(k) /\ block[c].pages = StackPages
  BY DEF IInv, StacksOnGrid, Live, K
<1>2. CASE o \in {FatBuf, Root}
  <2>1. /\ Base + StackPages <= Grid(k) + 1 /\ Grid(k) \in Int /\ Base \in Nat
        /\ k \in Nat /\ StackPages \in Nat
    BY SlotInMemory, GridOK, KType, UniformStacks
  <2>2. CASE o = FatBuf
    <3>1. block[o] = [page |-> FatPages - 1, pages |-> FatPages]
      BY <2>2 DEF IInv, BuffersPlaced, Live
    <3>2. FatPages <= Base
      BY <2>2, BuffersSmaller DEF Base, Live
    <3>3. block[o].page + block[o].pages = FatPages - 1 + FatPages
      BY <3>1
    <3> QED
      BY <1>1, <1>2, <2>1, <3>2, <3>3, BuffersSmaller
  <2>3. CASE o = Root
    <3>1. block[o] = [page |-> FatPages + RootPages - 1, pages |-> RootPages]
      BY <2>3 DEF IInv, BuffersPlaced, Live
    <3>2. Base = FatPages + RootPages
      BY <2>3 DEF Base, Live
    <3>3. block[o].page + block[o].pages = FatPages + RootPages - 1 + RootPages
      BY <3>1
    <3> QED
      BY <1>1, <1>2, <2>1, <3>2, <3>3, BuffersSmaller
  <2> QED
    BY <1>2, <2>2, <2>3
<1>3. CASE o \in Client
  <2>1. PICK l \in 1 .. K : block[o].page = Grid(l) /\ block[o].pages = StackPages
    BY <1>3 DEF IInv, StacksOnGrid, Live, K
  <2>2. l # k
    BY <1>1, <1>3, <2>1 DEF IInv, StacksApart, Live
  <2>3. l \in Nat /\ k \in Nat /\ (l < k \/ k < l)
    BY <2>2, KType
  <2>4. Grid(l) + StackPages <= Grid(k) \/ Grid(k) + StackPages <= Grid(l)
    BY <2>3, GridOK
  <2> QED
    BY <1>1, <1>3, <2>1, <2>4
<1> QED
  BY <1>2, <1>3 DEF Live, Owner

LEMMA FreeStackStep ==
    ASSUME IInv, NEW c \in Client, FreeStack(c)
    PROVE  IInv'
<1> DEFINE e == block[c].page
           S == Cleared(e, size[e])
<1>1. /\ TypeOK /\ block[c] # NoBlock /\ mounted' = mounted /\ mounted
      /\ status' = [n \in Node |-> IF n \in S THEN "FREE" ELSE status[n]]
      /\ size' = [n \in Node |-> IF n \in S THEN 0 ELSE size[n]]
      /\ block' = [block EXCEPT ![c] = NoBlock]
  BY DEF IInv, FreeStack, Free, FreeAt, Owner
<1>2. /\ Client \subseteq Owner /\ FatBuf \in Owner /\ Root \in Owner
      /\ c # FatBuf /\ c # Root /\ c \in Live
  BY <1>1, OwnersAssumption DEF Owner, Live
<1>3. PICK k \in 1 .. K : e = Grid(k) /\ block[c].pages = StackPages
  BY <1>1 DEF IInv, StacksOnGrid, K
<1>4. size[e] = StackPages
  BY <1>2, <1>3 DEF IInv, UsedIffLive
<1>5. /\ e \in Node /\ e \in Nat /\ e + StackPages <= UserPages
      /\ UserPages \in Nat /\ StackPages \in Nat /\ 2 <= StackPages
  BY <1>3, SlotInMemory, SizesAssumption, UniformStacks DEF Node
<1>6. S = e .. e + StackPages - 2
  <2>1. ASSUME NEW i \in 0 .. StackPages - 2
        PROVE  (e + i) % (UserPages + 1) = e + i
    <3>1. e + i \in Nat /\ UserPages + 1 \in Nat /\ e + i < UserPages + 1
      BY <1>5
    <3> QED
      BY <3>1, SmallRemainder
  <2>2. S = {e + i : i \in 0 .. StackPages - 2}
    BY <1>4, <2>1 DEF Cleared
  <2>3. ASSUME NEW n \in e .. e + StackPages - 2
        PROVE  \E i \in 0 .. StackPages - 2 : n = e + i
    <3>1. n - e \in 0 .. StackPages - 2 /\ n = e + (n - e)
      BY <1>5
    <3> QED
      BY <3>1
  <2>4. \A i \in 0 .. StackPages - 2 : e + i \in e .. e + StackPages - 2
    BY <1>5
  <2> HIDE DEF S
  <2> QED
    BY <2>2, <2>3, <2>4
<1> HIDE DEF e, S
<1>7. TypeOK'
  BY <1>1 DEF TypeOK
<1>8. block'[c] = NoBlock /\ \A o \in Owner : o # c => block'[o] = block[o]
  BY <1>1, <1>2 DEF TypeOK
<1>9. Live' = Live \ {c}
  BY <1>2, <1>8 DEF Live
<1>10. BuffersPlaced'
  BY <1>2, <1>8 DEF IInv, BuffersPlaced
<1>11. Base' = Base /\ \A j \in 1 .. K : Grid(j)' = Grid(j)
  <2>1. Base' = Base
    BY <1>2, <1>8 DEF Base
  <2> QED
    BY <2>1 DEF Grid
<1>12. StacksOnGrid'
  <2> SUFFICES ASSUME NEW d \in Client, block'[d] # NoBlock
               PROVE  /\ block'[d].pages = StackPages
                      /\ \E j \in 1 .. K : block'[d].page = Grid(j)'
    BY DEF StacksOnGrid, K
  <2>1. block'[d] = block[d]
    BY <1>2, <1>8
  <2>2. /\ block[d].pages = StackPages
        /\ \E j \in 1 .. K : block[d].page = Grid(j)
    BY <2>1 DEF IInv, StacksOnGrid, K
  <2> QED
    BY <1>11, <2>1, <2>2
<1>13. StacksApart'
  BY <1>2, <1>8 DEF IInv, StacksApart
<1>14. ASSUME NEW o \in Live, o # c
       PROVE  block[o].page \in Node /\ block[o].page \notin S
  <2>1. block[o] \in Block
    BY <1>1 DEF TypeOK, Live
  <2>2. block[o].page \in Nat /\ block[o].pages \in Nat /\ block[o].page \in Node
    BY <2>1, SizesAssumption DEF Block, Node
  <2>3. CASE o \in {FatBuf, Root}
    <3>1. block[o].page + block[o].pages <= e /\ block[o].pages # 0
      <4>1. block[o].page + block[o].pages <= e
        BY <1>2, <1>14, <2>3, StackPlace, OwnersAssumption DEF e
      <4>2. block[o].pages \in {FatPages, RootPages}
        BY <2>3 DEF IInv, BuffersPlaced, Live
      <4> QED
        BY <4>1, <4>2, BuffersSmaller
    <3> QED
      BY <1>5, <1>6, <2>2, <3>1
  <2>4. CASE o \in Client
    <3>1. block[o].page + StackPages <= e \/ e + StackPages <= block[o].page
      BY <1>2, <1>14, <2>4, StackPlace, OwnersAssumption DEF e
    <3> QED
      BY <1>5, <1>6, <2>2, <3>1
  <2> QED
    BY <2>2, <2>3, <2>4 DEF Live, Owner
<1>15. UsedIffLive'
  <2>1. {block'[o].page : o \in Live'} = {block[o].page : o \in Live} \ {e}
    <3>1. e \in S
      BY <1>5, <1>6
    <3>2. \A o \in Live' : o \in Live /\ o # c /\ block'[o] = block[o]
      BY <1>8, <1>9 DEF Live
    <3> QED
      BY <1>9, <1>14, <3>1, <3>2 DEF e
  <2>2. {n \in Node : status'[n] = "USED"} = {n \in Node : status[n] = "USED"} \ {e}
    <3>1. e \in S
      BY <1>5, <1>6
    <3>2. \A n \in Node : n # e /\ status[n] = "USED" => n \notin S
      BY <1>14 DEF IInv, UsedIffLive, e
    <3> QED
      BY <1>1, <3>1, <3>2
  <2>3. ASSUME NEW o \in Live'
        PROVE  size'[block'[o].page] = block'[o].pages
    <3>1. o \in Live /\ o # c /\ block'[o] = block[o]
      BY <1>8, <1>9 DEF Live
    <3>2. block[o].page \in Node /\ block[o].page \notin S /\ size[block[o].page] = block[o].pages
      BY <1>14, <3>1 DEF IInv, UsedIffLive
    <3> QED
      BY <1>1, <3>1, <3>2
  <2> QED
    BY <2>1, <2>2, <2>3 DEF IInv, UsedIffLive
<1> QED
  BY <1>1, <1>7, <1>10, <1>12, <1>13, <1>15 DEF IInv

LEMMA NextStep == ASSUME IInv, [Next]_vars PROVE IInv'
<1>1. CASE UNCHANGED vars
  BY <1>1 DEF vars, IInv, TypeOK, BuffersPlaced, StacksOnGrid, Grid, Base, StacksApart,
              UsedIffLive, Live
<1> QED
  BY <1>1, FatInitStep, GetStackStep, FreeStackStep DEF Next

-----------------------------------------------------------------------------
(* Theorems *)

(***************************************************************************)
(* The stacks stay on the grid, and the list says so.                      *)
(***************************************************************************)
THEOREM Invariance == Spec => []IInv
  BY InitInvariant, NextStep, PTL DEF Spec

(***************************************************************************)
(* The list and the blocks keep their types.                               *)
(***************************************************************************)
THEOREM TypeCorrectness == Spec => []TypeOK
<1>1. IInv => TypeOK
  BY DEF IInv
<1> QED
  BY <1>1, Invariance, PTL

(***************************************************************************)
(* No two stacks, and no stack and buffer, ever overlap.                   *)
(***************************************************************************)
THEOREM Disjointness == Spec => []BlocksDisjoint
<1>1. ASSUME IInv, NEW o \in Live, NEW p \in Live, o # p
      PROVE  PagesOf(o) \cap PagesOf(p) = {}
  <2>1. block[o] \in Block /\ block[p] \in Block
    BY <1>1 DEF IInv, TypeOK, Live
  <2>2. /\ block[o].page \in Nat /\ block[o].pages \in Nat
        /\ block[p].page \in Nat /\ block[p].pages \in Nat
    BY <2>1, SizesAssumption DEF Block, Node
  <2>3. \/ block[o].page + block[o].pages <= block[p].page
        \/ block[p].page + block[p].pages <= block[o].page
    <3>1. CASE p \in Client
      BY <1>1, <3>1, StackPlace
    <3>2. CASE o \in Client
      BY <1>1, <3>2, StackPlace
    <3>3. CASE o \in {FatBuf, Root} /\ p \in {FatBuf, Root}
      <4>1. FatBuf \in Live /\ Root \in Live /\ {o, p} = {FatBuf, Root}
        BY <1>1, <3>3
      <4>2. /\ block[FatBuf].page = FatPages - 1 /\ block[FatBuf].pages = FatPages
            /\ block[Root].page = FatPages + RootPages - 1
        BY <1>1, <4>1 DEF IInv, BuffersPlaced, Live
      <4>3. block[FatBuf].page + block[FatBuf].pages <= block[Root].page
        BY <4>2, BuffersSmaller
      <4> QED
        BY <4>1, <4>3
    <3> QED
      BY <3>1, <3>2, <3>3 DEF Live, Owner
  <2> QED
    BY <2>2, <2>3 DEF PagesOf
<1>2. IInv => BlocksDisjoint
  BY <1>1 DEF BlocksDisjoint
<1> QED
  BY <1>2, Invariance, PTL

(***************************************************************************)
(* Used nodes are those of the blocks in use: nothing is leaked, and no    *)
(* free() gives up the memory of another one.                              *)
(***************************************************************************)
THEOREM NothingLeaked == Spec => []UsedIffLive
<1>1. IInv => UsedIffLive
  BY DEF IInv
<1> QED
  BY <1>1, Invariance, PTL

(***************************************************************************)
(* Every block is inside the memory of the machine.                        *)
(***************************************************************************)
THEOREM InMemory == Spec => []BlocksInMemory
<1>1. ASSUME IInv, NEW o \in Live PROVE PagesOf(o) \subseteq 0 .. UserPages - 1
  <2>1. block[o] \in Block /\ block[o].page \in Nat /\ block[o].pages \in Nat
    BY <1>1, SizesAssumption DEF IInv, TypeOK, Live, Block, Node
  <2>2. block[o].page + block[o].pages <= UserPages
    <3>1. CASE o \in Client
      <4>1. PICK k \in 1 .. K : block[o].page = Grid(k) /\ block[o].pages = StackPages
        BY <1>1, <3>1 DEF IInv, StacksOnGrid, Live, K
      <4> QED
        BY <4>1, SlotInMemory
    <3>2. CASE o \in {FatBuf, Root}
      <4>1. /\ block[o].pages \in {FatPages, RootPages}
            /\ block[o].page \in {FatPages - 1, FatPages + RootPages - 1}
        BY <1>1, <3>2 DEF IInv, BuffersPlaced, Live
      <4>2. StackPages \in Nat /\ K * StackPages \in Nat /\ UserPages \in Nat
        BY KType, UniformStacks, SizesAssumption
      <4>3. FatPages + RootPages + StackPages - 1 <= UserPages
        BY <4>2, EnoughMemory, BuffersSmaller DEF K
      <4> QED
        BY <4>1, <4>2, <4>3, BuffersSmaller
    <3> QED
      BY <3>1, <3>2 DEF Live, Owner
  <2> QED
    BY <2>1, <2>2, SizesAssumption DEF PagesOf
<1>2. IInv => BlocksInMemory
  BY <1>1 DEF BlocksInMemory
<1> QED
  BY <1>2, Invariance, PTL

(***************************************************************************)
(* Whoever has no stack finds one: the heap does not fragment.             *)
(***************************************************************************)
THEOREM NoFragmentation == Spec => []StackAvailable
<1>1. ASSUME IInv, ~(Client \subseteq Live), NEW bytes \in StackBytes
      PROVE  RunEnds(status, PagesFor(bytes)) # {}
  <2>1. PICK c \in Client : block[c] = NoBlock
    BY <1>1 DEF Live, Owner
  <2> QED
    BY <1>1, <2>1, MallocOnGrid, UniformStacks
<1>2. IInv => StackAvailable
  BY <1>1 DEF StackAvailable
<1> QED
  BY <1>2, Invariance, PTL
-----------------------------------------------------------------------------
(* The loops of malloc() *)

\* The first loop has counted the free nodes up to here, and no run that is
\* long enough ends before.
Searching(t) ==
    /\ ml = counter[t]
    /\ found[t] <= counter[t]
    /\ found[t] < pages[t]
    /\ \A i \in counter[t] - found[t] .. counter[t] - 1 : status[i] = "FREE"
    /\ found[t] < counter[t] => status[counter[t] - found[t] - 1] # "FREE"
    /\ \A e \in RunEnds(status, pages[t]) : counter[t] <= e

\* The second loop has as far to go as ml is short of the node that was found.
Walking(t) ==
    /\ ml + counter[t] = mem_addr[t]
    /\ mem_addr[t] \in RunEnds(status, pages[t])
    /\ \A e \in RunEnds(status, pages[t]) : mem_addr[t] <= e

\* What is known of a call that nobody has come into.
OnCourse(t) ==
    /\ \E bytes \in StackBytes : pages[t] = PagesFor(bytes)
    /\ pc[t] = "search" => Searching(t)
    /\ pc[t] = "walk" => Walking(t)

LoopInv ==
    /\ LoopTypeOK
    /\ \A t \in Thread : quiet[t] /\ pc[t] # "idle" => OnCourse(t)

(***************************************************************************)
(* malloc() asks for at least one page.                                    *)
(***************************************************************************)
LEMMA SomePages ==
    ASSUME NEW bytes \in Nat
    PROVE  PagesFor(bytes) \in Nat /\ PagesFor(bytes) >= 1
<1>1. bytes + SIZE \in Nat /\ bytes + SIZE >= 1
  BY DEF SIZE
<1> DEFINE x == bytes + SIZE
           d == x \div PAGE_SIZE
           r == x % PAGE_SIZE
<1>2. PAGE_SIZE \in Nat \ {0}
  BY SizesAssumption
<1>3. x \in Nat /\ x >= 1
  BY <1>1
<1> HIDE DEF x
<1>4. d \in Nat /\ r \in 0 .. PAGE_SIZE - 1 /\ x = PAGE_SIZE * d + r
  BY <1>2, <1>3
<1>5. PagesFor(bytes) = d + (IF r # 0 THEN 1 ELSE 0)
  BY DEF PagesFor, x
<1>6. d = 0 => r # 0
  BY <1>2, <1>3, <1>4
<1> QED
  BY <1>4, <1>5, <1>6

LEMMA LoopBound == UserPages \in Nat /\ MaxCounter \in Nat /\ UserPages <= MaxCounter
  BY SizesAssumption DEF MaxCounter

(***************************************************************************)
(* The types are kept by fs_fat_init() and by free(), whether or not       *)
(* blocks overlap.                                                         *)
(***************************************************************************)
LEMMA FatInitTypes ==
    ASSUME LoopTypeOK, LoopFatInit
    PROVE  LoopTypeOK'
<1> DEFINE nf == PagesFor(FatBytes)
           nr == PagesFor(RootBytes)
           ef == FirstFit(status, nf)
           er == FirstFit(MarkedStatus(status, ef), nr)
           B == [page : 0 .. MaxCounter, pages : Nat]
<1>1. ASSUME NEW st, NEW n, RunEnds(st, n) # {}
      PROVE  FirstFit(st, n) \in Node
  <2>1. RunEnds(st, n) \in SUBSET Nat
    BY SizesAssumption DEF RunEnds, Node
  <2>2. \E e \in RunEnds(st, n) : \A f \in RunEnds(st, n) : e <= f
    BY <1>1, <2>1, LeastNat
  <2>3. FirstFit(st, n) \in RunEnds(st, n)
    BY <2>2 DEF FirstFit
  <2> QED
    BY <2>3 DEF RunEnds
<1>2. nf \in Nat /\ nr \in Nat /\ FatBuf \in Owner /\ Root \in Owner
  BY SomePages, SizesAssumption DEF Owner
<1>3. \A e \in Node, n \in Nat : [page |-> e, pages |-> n] \in B
  BY LoopBound DEF Node
<1>4. FatInit /\ mounted' \in BOOLEAN
  BY DEF LoopFatInit, FatInit
<1> HIDE DEF nf, nr, ef, er, B
<1>5. status' \in [Node -> {"FREE", "USED"}] /\ size' \in [Node -> Nat]
      /\ block' \in [Owner -> B \cup {NoBlock}]
  <2>0. /\ status \in [Node -> {"FREE", "USED"}] /\ size \in [Node -> Nat]
        /\ block \in [Owner -> B \cup {NoBlock}]
    BY DEF LoopTypeOK, B
  <2>1. CASE UNCHANGED <<status, size, block>>
    BY <2>0, <2>1
  <2>2. CASE Malloc(FatBuf, FatBytes)
    <3>1. ef \in Node
      BY <1>1, <2>2 DEF Malloc, ef, nf
    <3>2. /\ status' = MarkedStatus(status, ef) /\ size' = MarkedSize(size, ef, nf)
          /\ block' = [block EXCEPT ![FatBuf] = [page |-> ef, pages |-> nf]]
      BY <2>2 DEF Malloc, ef, nf
    <3>3. [page |-> ef, pages |-> nf] \in B
      BY <1>2, <1>3, <3>1
    <3> QED
      BY <1>2, <2>0, <3>1, <3>2, <3>3 DEF MarkedStatus, MarkedSize
  <2>3. CASE /\ RunEnds(status, nf) # {}
             /\ RunEnds(MarkedStatus(status, ef), nr) # {}
             /\ status' = MarkedStatus(MarkedStatus(status, ef), er)
             /\ size' = MarkedSize(MarkedSize(size, ef, nf), er, nr)
             /\ block' = [block EXCEPT ![FatBuf] = [page |-> ef, pages |-> nf],
                                       ![Root] = [page |-> er, pages |-> nr]]
    <3>1. ef \in Node /\ er \in Node
      BY <1>1, <2>3 DEF ef, er
    <3>2. [page |-> ef, pages |-> nf] \in B /\ [page |-> er, pages |-> nr] \in B
      BY <1>2, <1>3, <3>1
    <3>3. status' \in [Node -> {"FREE", "USED"}] /\ size' \in [Node -> Nat]
      BY <1>2, <2>0, <2>3, <3>1 DEF MarkedStatus, MarkedSize
    <3>4. block' \in [Owner -> B \cup {NoBlock}]
      BY <1>2, <2>0, <2>3, <3>2
    <3> QED
      BY <3>3, <3>4
  <2> QED
    BY <1>4, <2>1, <2>2, <2>3 DEF FatInit, nf, nr, ef, er
<1> QED
  BY <1>4, <1>5 DEF LoopFatInit, LoopTypeOK, locals, DisturbAll, B

LEMMA FreeTypes ==
    ASSUME LoopTypeOK, NEW c \in Client, LoopFree(c)
    PROVE  LoopTypeOK'
<1> DEFINE e == block[c].page % (UserPages + 1)
           k == IF size[e] > 1 THEN size[e] - 1 ELSE 0
<1>1. block[c] \in [page : 0 .. MaxCounter, pages : Nat]
  BY DEF LoopFree, LoopTypeOK, Owner
<1>2. block[c].page \in Nat
  BY <1>1, LoopBound
<1>3. e \in Node
  BY <1>2, LoopBound DEF Node
<1>4. e \in Nat /\ size[e] \in Nat
  BY <1>3, LoopBound DEF LoopTypeOK, Node
<1>5. k \in Nat /\ e + k \in Nat
  BY <1>4
<1>6. ml' = (e + k) % (UserPages + 1)
  BY DEF LoopFree
<1> HIDE DEF e, k
<1>7. ml' \in Node
  BY <1>5, <1>6, LoopBound DEF Node
<1>8. /\ status' \in [Node -> {"FREE", "USED"}] /\ size' \in [Node -> Nat]
      /\ block' \in [Owner -> [page : 0 .. MaxCounter, pages : Nat] \cup {NoBlock}]
  BY DEF LoopFree, FreeAt, LoopTypeOK, Owner
<1> QED
  BY <1>7, <1>8 DEF LoopFree, LoopTypeOK, locals, DisturbAll

(***************************************************************************)
(* What is known of a thread's own variables.                              *)
(***************************************************************************)
LEMMA OwnTypes ==
    ASSUME LoopInv, NEW t \in Thread
    PROVE  /\ ml \in 0 .. UserPages
           /\ pc[t] \in {"idle", "search", "walk"}
           /\ found[t] \in Nat /\ counter[t] \in Nat /\ pages[t] \in Nat
           /\ mem_addr[t] \in Nat
           /\ quiet[t] /\ pc[t] # "idle" => pages[t] >= 1
<1>1. /\ ml \in 0 .. UserPages
      /\ pc[t] \in {"idle", "search", "walk"}
      /\ found[t] \in Nat /\ counter[t] \in Nat /\ pages[t] \in Nat
      /\ mem_addr[t] \in Nat
  BY LoopBound DEF LoopInv, LoopTypeOK, Node
<1>2. quiet[t] /\ pc[t] # "idle" => pages[t] >= 1
  BY SomePages, SizesAssumption DEF LoopInv, OnCourse
<1> QED
  BY <1>1, <1>2

(***************************************************************************)
(* A step of a thread has to do with no other one's quiet call.            *)
(***************************************************************************)
LEMMA OnlyOwn ==
    ASSUME NEW t \in Thread, LoopTypeOK', Disturb(t),
           quiet[t] /\ pc'[t] # "idle" => OnCourse(t)'
    PROVE  LoopInv'
<1>1. \A u \in Thread : quiet'[u] => u = t /\ quiet[t]
  BY DEF Disturb
<1> QED
  BY <1>1 DEF LoopInv

LEMMA EnterStep ==
    ASSUME LoopInv, NEW t \in Thread,
           NEW c \in Client, NEW bytes \in StackBytes, EnterMalloc(t, c, bytes)
    PROVE  LoopInv'
<1>1. PagesFor(bytes) \in Nat /\ PagesFor(bytes) >= 1 /\ 0 \in Node /\ 0 \in 0 .. MaxCounter
  BY SomePages, SizesAssumption, LoopBound DEF Node
<1>2. LoopTypeOK'
  BY <1>1 DEF LoopInv, LoopTypeOK, EnterMalloc, Goto, ml_start, vars
<1>3. /\ pc'[t] = "search" /\ pages'[t] = PagesFor(bytes)
      /\ counter'[t] = 0 /\ found'[t] = 0 /\ ml' = 0
  BY DEF LoopInv, LoopTypeOK, EnterMalloc, Goto, ml_start
<1>4. \A e \in RunEnds(status', pages'[t]) : 0 <= e
  BY SizesAssumption DEF RunEnds, Node
<1>5. Searching(t)'
  BY <1>1, <1>3, <1>4 DEF Searching
<1>6. \A u \in Thread : quiet'[u] => u = t
  BY DEF EnterMalloc
<1> QED
  BY <1>2, <1>3, <1>5, <1>6 DEF LoopInv, OnCourse

LEMMA SearchOnStep ==
    ASSUME LoopInv, NEW t \in Thread, SearchOn(t)
    PROVE  LoopInv'
<1> DEFINE n == counter[t]
           p == pages[t]
           f == found[t]
<1>1. ml \in 0 .. UserPages /\ f \in Nat /\ n \in Nat /\ p \in Nat /\ pc[t] = "search"
      /\ LoopTypeOK /\ UserPages \in Nat
  BY OwnTypes, LoopBound DEF SearchOn, Look, LoopInv
<1>2. LoopTypeOK'
  <2>1. NextNode(ml) \in Node
    BY <1>1 DEF NextNode, Node
  <2>2. Counted(t) \in Nat /\ n + 1 \in 0 .. MaxCounter
    BY <1>1, LoopBound DEF Counted, SearchOn
  <2> QED
    BY <1>1, <2>1, <2>2 DEF SearchOn, Look, Disturb, LoopTypeOK, vars
<1> SUFFICES ASSUME quiet[t]
             PROVE  OnCourse(t)'
  BY <1>2, OnlyOwn DEF SearchOn, Look
<1>3. OnCourse(t) /\ Searching(t) /\ p >= 1
  BY <1>1, OwnTypes DEF LoopInv, OnCourse
<1>4. ml = n /\ NextNode(ml) = n + 1
  <2>1. ml = n
    BY <1>3 DEF Searching
  <2>2. n # UserPages
    BY <1>1, <2>1 DEF SearchOn, NextNode, ml_start
  <2> QED
    BY <1>1, <2>1, <2>2 DEF NextNode
<1>5. /\ ml' = n + 1 /\ counter'[t] = n + 1 /\ pages' = pages
      /\ found'[t] = (IF status[n] = "FREE" THEN f + 1 ELSE 0)
      /\ pc' = pc /\ UNCHANGED vars
      /\ status[n] = "FREE" => f + 1 # p
  BY <1>1, <1>4 DEF SearchOn, Look, Counted, LoopTypeOK
<1>7. /\ f <= n /\ f < p
      /\ \A i \in n - f .. n - 1 : status[i] = "FREE"
      /\ f < n => status[n - f - 1] # "FREE"
      /\ \A e \in RunEnds(status, p) : n <= e
  BY <1>3 DEF Searching
<1>8. n \notin RunEnds(status, p)
  <2> SUFFICES ASSUME n + 1 >= p, \A i \in n - p + 1 .. n : status[i] = "FREE"
               PROVE  FALSE
    BY DEF RunEnds
  <2>1. status[n] = "FREE"
    BY <1>1, <1>3
  <2>2. f + 1 < p
    BY <1>1, <1>5, <1>7, <2>1
  <2>3. f < n /\ n - f - 1 \in n - p + 1 .. n
    BY <1>1, <1>7, <2>2
  <2> QED
    BY <1>7, <2>3
<1>9. \A e \in RunEnds(status, p) : n + 1 <= e
  <2>1. \A e \in RunEnds(status, p) : e \in Nat
    BY <1>1 DEF RunEnds, Node
  <2> QED
    BY <1>1, <1>7, <1>8, <2>1
<1>10. Searching(t)'
  <2>1. CASE status[n] = "FREE"
    <3>1. found'[t] = f + 1 /\ f + 1 <= n + 1 /\ f + 1 < p
      BY <1>1, <1>5, <1>7, <2>1
    <3>2. \A i \in (n + 1) - (f + 1) .. (n + 1) - 1 : status[i] = "FREE"
      <4> TAKE i \in (n + 1) - (f + 1) .. (n + 1) - 1
      <4>1. i = n \/ i \in n - f .. n - 1
        BY <1>1
      <4> QED
        BY <1>7, <2>1, <4>1
    <3>3. f + 1 < n + 1 => status[(n + 1) - (f + 1) - 1] # "FREE"
      <4>1. (n + 1) - (f + 1) - 1 = n - f - 1
        BY <1>1
      <4> QED
        BY <1>1, <1>7, <4>1
    <3> QED
      BY <1>5, <1>9, <3>1, <3>2, <3>3 DEF Searching, vars
  <2>2. CASE status[n] # "FREE"
    <3>1. found'[t] = 0 /\ 0 <= n + 1 /\ 0 < p
      BY <1>1, <1>3, <1>5, <2>2
    <3>2. (n + 1) - 0 .. (n + 1) - 1 = {} /\ (n + 1) - 0 - 1 = n
      BY <1>1
    <3> QED
      BY <1>5, <1>9, <2>2, <3>1, <3>2 DEF Searching, vars
  <2> QED
    BY <2>1, <2>2
<1> QED
  BY <1>1, <1>3, <1>5, <1>10 DEF OnCourse

LEMMA SearchEndsStep ==
    ASSUME LoopInv, NEW t \in Thread, SearchEnds(t)
    PROVE  LoopInv'
<1> DEFINE n == counter[t]
           p == pages[t]
           f == found[t]
<1>1. ml \in 0 .. UserPages /\ f \in Nat /\ n \in Nat /\ p \in Nat /\ pc[t] = "search"
      /\ LoopTypeOK /\ UserPages \in Nat /\ 0 \in Node
  BY OwnTypes, LoopBound DEF SearchEnds, Look, LoopInv, Node
<1>2. LoopTypeOK'
  <2>1. Counted(t) \in Nat
    BY <1>1 DEF Counted
  <2> QED
    BY <1>1, <2>1 DEF SearchEnds, Look, Disturb, LoopTypeOK, Goto, ml_start, vars
<1> SUFFICES ASSUME quiet[t]
             PROVE  OnCourse(t)'
  BY <1>2, OnlyOwn DEF SearchEnds, Look
<1>3. OnCourse(t) /\ Searching(t) /\ p >= 1
  BY <1>1, OwnTypes DEF LoopInv, OnCourse
<1>4. ml = n /\ f <= n /\ \A i \in n - f .. n - 1 : status[i] = "FREE"
  BY <1>3 DEF Searching
<1>5. status[n] = "FREE" /\ f + 1 = p
  BY <1>1, <1>3, <1>4 DEF SearchEnds, Counted
<1>6. /\ mem_addr'[t] = n /\ ml' = 0 /\ pc'[t] = "walk"
      /\ counter' = counter /\ pages' = pages /\ UNCHANGED vars
  BY <1>1 DEF SearchEnds, LoopTypeOK, Goto, ml_start
<1>7. n \in RunEnds(status, p)
  <2>1. \A i \in n - p + 1 .. n : status[i] = "FREE"
    <3> TAKE i \in n - p + 1 .. n
    <3>1. i = n \/ i \in n - f .. n - 1
      BY <1>1, <1>5
    <3> QED
      BY <1>4, <1>5, <3>1
  <2>2. n \in Node /\ n + 1 >= p
    BY <1>1, <1>4, <1>5 DEF Node
  <2> QED
    BY <2>1, <2>2 DEF RunEnds
<1>8. Walking(t)'
  <2>1. \A e \in RunEnds(status, p) : n <= e
    BY <1>3 DEF Searching
  <2>2. 0 + n = n
    BY <1>1
  <2> QED
    BY <1>6, <1>7, <2>1, <2>2 DEF Walking, vars
<1> QED
  BY <1>3, <1>6, <1>8 DEF OnCourse

LEMMA WalkOnStep ==
    ASSUME LoopInv, NEW t \in Thread, CountDown(t)
    PROVE  LoopInv'
<1>1. /\ UserPages \in Nat /\ ml \in 0 .. UserPages /\ LoopTypeOK
      /\ counter[t] \in 0 .. MaxCounter /\ counter[t] > 0 /\ mem_addr[t] \in Nat
      /\ pc[t] = "walk"
  BY OwnTypes, LoopBound DEF CountDown, LoopInv, LoopTypeOK
<1>2. LoopTypeOK'
  <2>1. NextNode(ml) \in Node /\ counter[t] - 1 \in 0 .. MaxCounter
    BY <1>1, LoopBound DEF NextNode, Node
  <2> QED
    BY <1>1, <2>1 DEF CountDown, Disturb, LoopTypeOK, vars
<1> SUFFICES ASSUME quiet[t]
             PROVE  OnCourse(t)'
  BY <1>2, OnlyOwn DEF CountDown
<1>3. OnCourse(t) /\ ml + counter[t] = mem_addr[t] /\ mem_addr[t] \in Node
  BY <1>1 DEF LoopInv, OnCourse, Walking, RunEnds
<1>4. NextNode(ml) = ml + 1
  BY <1>1, <1>3, LoopBound DEF NextNode, Node
<1>5. /\ ml' = ml + 1 /\ counter'[t] = counter[t] - 1
      /\ pc' = pc /\ mem_addr' = mem_addr /\ pages' = pages
      /\ UNCHANGED vars
  BY <1>1, <1>4 DEF CountDown, LoopTypeOK
<1>6. ml' + counter'[t] = mem_addr'[t]
  BY <1>1, <1>3, <1>5, LoopBound
<1>7. Walking(t)'
  BY <1>1, <1>3, <1>5, <1>6 DEF OnCourse, Walking, vars
<1> QED
  BY <1>1, <1>3, <1>5, <1>7 DEF OnCourse

(***************************************************************************)
(* A quiet call that gets nothing: there is no run that is long enough.    *)
(***************************************************************************)
LEMMA FailsStep ==
    ASSUME LoopInv, NEW t \in Thread, SearchFails(t)
    PROVE  LoopInv' /\ (quiet[t] => CallFits(t))
<1> DEFINE n == counter[t]
           p == pages[t]
           f == found[t]
<1>1. ml \in 0 .. UserPages /\ f \in Nat /\ n \in Nat /\ p \in Nat /\ pc[t] = "search"
      /\ LoopTypeOK /\ UserPages \in Nat /\ 0 \in Node
  BY OwnTypes, LoopBound DEF SearchFails, Look, LoopInv, Node
<1>2. LoopTypeOK' /\ pc'[t] = "idle"
  <2>1. Counted(t) \in Nat
    BY <1>1 DEF Counted
  <2> QED
    BY <1>1, <2>1 DEF SearchFails, Look, Disturb, LoopTypeOK, Goto, ml_start, vars
<1>3. LoopInv'
  BY <1>2, OnlyOwn DEF SearchFails, Look
<1>4. ASSUME quiet[t] PROVE RunEnds(status, p) = {}
  <2>1. Searching(t) /\ p >= 1
    BY <1>1, <1>4, OwnTypes DEF LoopInv, OnCourse
  <2>2. /\ ml = n /\ f <= n /\ f < p
        /\ f < n => status[n - f - 1] # "FREE"
        /\ \A e \in RunEnds(status, p) : n <= e
    BY <2>1 DEF Searching
  <2>3. n = UserPages
    <3>1. n < UserPages => NextNode(n) = n + 1
      BY <1>1 DEF NextNode
    <3> QED
      BY <1>1, <2>2, <3>1 DEF SearchFails, ml_start
  <2>4. status[n] = "FREE" => f + 1 # p
    BY <2>2 DEF SearchFails, Counted
  <2>5. SUFFICES ASSUME NEW e \in RunEnds(status, p) PROVE FALSE
    OBVIOUS
  <2>6. e = n
    BY <1>1, <2>2, <2>3, <2>5 DEF RunEnds, Node
  <2>7. n + 1 >= p /\ \A i \in n - p + 1 .. n : status[i] = "FREE"
    BY <2>5, <2>6 DEF RunEnds
  <2>8. status[n] = "FREE" /\ f + 1 < p
    <3>1. n \in n - p + 1 .. n
      BY <1>1, <2>1
    <3> QED
      BY <1>1, <2>2, <2>4, <2>7, <3>1
  <2>9. f < n /\ n - f - 1 \in n - p + 1 .. n
    BY <1>1, <2>7, <2>8
  <2> QED
    BY <2>2, <2>7, <2>9
<1>5. UNCHANGED vars
  BY DEF SearchFails
<1> QED
  BY <1>3, <1>4, <1>5 DEF CallFits

(***************************************************************************)
(* Marking what a quiet call has found is the malloc() of Heap.            *)
(***************************************************************************)
LEMMA MarkStep ==
    ASSUME LoopInv, NEW t \in Thread, Mark(t)
    PROVE  LoopInv' /\ (quiet[t] => CallFits(t))
<1> DEFINE e == mem_addr[t]
           p == pages[t]
<1>1. LoopTypeOK /\ ml \in Node /\ ml \in Nat /\ pages[t] \in Nat /\ pc[t] = "walk" /\ counter[t] = 0
      /\ mem_addr[t] \in 0 .. MaxCounter
  BY OwnTypes DEF LoopInv, Mark, LoopTypeOK
<1>2. LoopTypeOK' /\ pc'[t] = "idle"
  <2>1. [page |-> e, pages |-> p] \in [page : 0 .. MaxCounter, pages : Nat]
    BY <1>1
  <2>2. /\ status' \in [Node -> {"FREE", "USED"}] /\ size' \in [Node -> Nat]
        /\ block' \in [Owner -> [page : 0 .. MaxCounter, pages : Nat] \cup {NoBlock}]
    BY <1>1, <2>1 DEF Mark, LoopTypeOK, MarkedStatus, MarkedSize
  <2> QED
    BY <1>1, <2>2 DEF Mark, Disturb, LoopTypeOK, Goto
<1>3. LoopInv'
  BY <1>2, OnlyOwn DEF Mark
<1>4. ASSUME quiet[t] PROVE CallFits(t)
  <2>1. OnCourse(t) /\ Walking(t)
    BY <1>1, <1>4 DEF LoopInv, OnCourse
  <2>2. e \in RunEnds(status, p) /\ \A x \in RunEnds(status, p) : e <= x
    BY <2>1 DEF Walking
  <2>3. ml = e
    BY <1>1, <2>1 DEF Walking
  <2>4. FirstFit(status, p) = e
    <3>1. \A x \in RunEnds(status, p) : x \in Int
      BY SizesAssumption DEF RunEnds, Node
    <3> QED
      BY <2>2, <3>1 DEF FirstFit
  <2>5. PICK bytes \in StackBytes : p = PagesFor(bytes)
    BY <2>1 DEF OnCourse
  <2>6. Malloc(client[t], bytes)
    BY <2>2, <2>3, <2>4, <2>5 DEF Mark, Malloc
  <2> QED
    BY <2>5, <2>6 DEF CallFits, Mark
<1> QED
  BY <1>3, <1>4

LEMMA LoopUnchanged ==
    ASSUME LoopInv, UNCHANGED loopVars
    PROVE  LoopInv' /\ pc' = pc
<1>1. UNCHANGED <<vars, ml, pc, found, counter, pages, mem_addr, client, quiet>>
  BY DEF loopVars, locals
<1>2. UNCHANGED <<status, size, block, mounted>>
  BY <1>1 DEF vars
<1>3. LoopTypeOK'
  BY <1>1, <1>2 DEF LoopInv, LoopTypeOK
<1>4. ASSUME NEW t \in Thread
      PROVE  OnCourse(t)' <=> OnCourse(t)
  BY <1>1, <1>2 DEF OnCourse, Searching, Walking
<1> QED
  BY <1>1, <1>3, <1>4 DEF LoopInv

\* A call has ended as it should if it was quiet.
Fits == \A t \in Thread : quiet[t] /\ pc[t] # "idle" /\ pc'[t] = "idle" => CallFits(t)

LEMMA LoopStep ==
    ASSUME LoopInv, [LoopNext]_loopVars
    PROVE  LoopInv' /\ Fits
<1>0. ASSUME NEW t \in Thread, UNCHANGED pc \/ pc' = [pc EXCEPT ![t] = "search"]
                                          \/ pc' = [pc EXCEPT ![t] = "walk"]
      PROVE  Fits
  BY <1>0 DEF LoopInv, LoopTypeOK, Fits
<1>1. CASE LoopFatInit
  <2>1. LoopTypeOK' /\ \A t \in Thread : ~quiet'[t]
    BY <1>1, FatInitTypes DEF LoopInv, LoopFatInit, DisturbAll
  <2>2. pc' = pc
    BY <1>1 DEF LoopFatInit
  <2> QED
    BY <2>1, <2>2 DEF LoopInv, Fits
<1>2. ASSUME NEW t \in Thread, NEW c \in Client, NEW bytes \in StackBytes, EnterMalloc(t, c, bytes)
      PROVE  LoopInv' /\ Fits
  BY <1>0, <1>2, EnterStep DEF EnterMalloc, Goto
<1>3. ASSUME NEW t \in Thread, SearchOn(t) PROVE LoopInv' /\ Fits
  BY <1>0, <1>3, SearchOnStep DEF SearchOn
<1>4. ASSUME NEW t \in Thread, SearchEnds(t) PROVE LoopInv' /\ Fits
  BY <1>0, <1>4, SearchEndsStep DEF SearchEnds, Goto
<1>5. ASSUME NEW t \in Thread, CountDown(t) PROVE LoopInv' /\ Fits
  BY <1>0, <1>5, WalkOnStep DEF CountDown
<1>6. ASSUME NEW t \in Thread, SearchFails(t) \/ Mark(t) PROVE LoopInv' /\ Fits
  <2>1. LoopInv' /\ (quiet[t] => CallFits(t))
    BY <1>6, FailsStep, MarkStep
  <2>2. pc' = [pc EXCEPT ![t] = "idle"]
    BY <1>6 DEF SearchFails, Mark, Goto
  <2>3. \A u \in Thread : u # t => pc'[u] = pc[u]
    BY <2>2 DEF LoopInv, LoopTypeOK
  <2> QED
    BY <2>1, <2>3 DEF Fits
<1>7. ASSUME NEW c \in Client, LoopFree(c) PROVE LoopInv' /\ Fits
  <2>1. LoopTypeOK' /\ \A t \in Thread : ~quiet'[t]
    BY <1>7, FreeTypes DEF LoopInv, LoopFree, DisturbAll
  <2>2. pc' = pc
    BY <1>7 DEF LoopFree
  <2> QED
    BY <2>1, <2>2 DEF LoopInv, Fits
<1>8. CASE UNCHANGED loopVars
  BY <1>8, LoopUnchanged DEF Fits
<1> QED
  BY <1>1, <1>2, <1>3, <1>4, <1>5, <1>6, <1>7, <1>8 DEF LoopNext

(***************************************************************************)
(* For any number of threads, pages and sizes asked for: a call of         *)
(* malloc() that no other one's malloc() and no free() has come into       *)
(* marks and returns what first-fit finds, or finds that there is nothing. *)
(* None of the assumptions of HeapStacks is used here.                     *)
(***************************************************************************)
THEOREM QuietCalls == LoopSpec => QuietCallsFit
<1>1. LoopInit => LoopInv
  <2> SUFFICES ASSUME LoopInit PROVE LoopInv
    OBVIOUS
  <2>1. UserPages \in Node /\ 0 \in 0 .. MaxCounter /\ 0 \in Nat
    BY LoopBound DEF Node
  <2>2. LoopTypeOK
    BY <2>1 DEF LoopInit, Init, LoopTypeOK
  <2> QED
    BY <2>2 DEF LoopInit, LoopInv
<1>2. LoopInv /\ [LoopNext]_loopVars => LoopInv'
  BY LoopStep
<1>3. LoopInv /\ [LoopNext]_loopVars => [Fits]_loopVars
  BY LoopStep
<1>4. [Fits]_loopVars <=> [\A t \in Thread : quiet[t] /\ pc[t] # "idle" /\ pc'[t] = "idle"
                            => CallFits(t)]_loopVars
  BY DEF Fits
<1> QED
  BY <1>1, <1>2, <1>3, <1>4, PTL DEF LoopSpec, QuietCallsFit
=============================================================================
