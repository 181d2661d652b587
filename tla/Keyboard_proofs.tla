--------------------------- MODULE Keyboard_proofs --------------------------
(***************************************************************************)
(* Proofs about KeybBuffer, for a buffer of any length, any events, and    *)
(* behaviours of any length, and about Keyboard, for any keys of Make, any *)
(* buffer and any bounds on its use.                                       *)
(***************************************************************************)
EXTENDS Keyboard, SequenceTheorems, FiniteSetTheorems, TLAPS

-----------------------------------------------------------------------------
(* The buffer *)

\* The entries from the tail to the head, and the index of the k-th after the tail.
Distance == IF keyb_sc_head >= keyb_sc_tail THEN keyb_sc_head - keyb_sc_tail
            ELSE keyb_sc_head - keyb_sc_tail + KEYB_BUFFER_LEN
Slot(k) == IF keyb_sc_tail + k < KEYB_BUFFER_LEN THEN keyb_sc_tail + k
           ELSE keyb_sc_tail + k - KEYB_BUFFER_LEN

\* The entry that is taken out as number i: the event before the i-th one.
Lagged(i) == IF i = 1 THEN Zero ELSE accepted[i - 1]

LaggedFIFO ==
    /\ Len(delivered) <= Len(accepted)
    /\ \A i \in 1 .. Len(delivered) : delivered[i] = Lagged(i)

\* The pointers are as far apart as events are in the buffer, and the entries
\* from the tail to the head, one more than these, are what comes out next.
IInv ==
    /\ TypeOK
    /\ LaggedFIFO
    /\ Distance = Len(accepted) - Len(delivered)
    /\ \A k \in 0 .. Distance : keyb_scbuffer[Slot(k)] = Lagged(Len(delivered) + 1 + k)

(***************************************************************************)
(* Masking brings the index after the last one back to the first.          *)
(***************************************************************************)
LEMMA WrapNext ==
    ASSUME NEW i \in Index
    PROVE  /\ Wrap(i + 1) \in Index
           /\ Wrap(i + 1) = IF i + 1 = KEYB_BUFFER_LEN THEN 0 ELSE i + 1
<1>1. CASE i + 1 = KEYB_BUFFER_LEN
  BY <1>1, BufferLenAssumption DEF Wrap, Index
<1>2. CASE i + 1 # KEYB_BUFFER_LEN
  <2>1. i + 1 \in Nat /\ i + 1 < KEYB_BUFFER_LEN
    BY <1>2, BufferLenAssumption DEF Index
  <2> QED
    BY <2>1, BufferLenAssumption DEF Wrap, Index
<1> QED
  BY <1>1, <1>2

LEMMA PointerFacts ==
    ASSUME TypeOK
    PROVE  /\ Distance \in 0 .. KEYB_BUFFER_LEN - 1
           /\ Empty <=> Distance = 0
           /\ Full <=> Distance = KEYB_BUFFER_LEN - 1
           /\ \A k \in 0 .. KEYB_BUFFER_LEN - 1 : Slot(k) \in Index
<1>1. /\ keyb_sc_head \in Int /\ keyb_sc_tail \in Int
      /\ 0 <= keyb_sc_head /\ keyb_sc_head < KEYB_BUFFER_LEN
      /\ 0 <= keyb_sc_tail /\ keyb_sc_tail < KEYB_BUFFER_LEN
      /\ KEYB_BUFFER_LEN \in Int /\ 2 <= KEYB_BUFFER_LEN
  BY BufferLenAssumption DEF TypeOK, Index
<1>2. NewHead = IF keyb_sc_head + 1 = KEYB_BUFFER_LEN THEN 0 ELSE keyb_sc_head + 1
  BY WrapNext DEF NewHead, TypeOK
<1> QED
  BY <1>1, <1>2 DEF Distance, Empty, Full, Slot, Index

LEMMA InitInvariant == ASSUME Init PROVE IInv
<1>1. TypeOK
  BY BufferLenAssumption DEF Init, TypeOK, Index
<1>2. Distance = 0 /\ Slot(0) = 0 /\ Len(accepted) = 0 /\ Len(delivered) = 0
  BY BufferLenAssumption DEF Init, Distance, Slot
<1>3. keyb_scbuffer[0] = Zero
  BY BufferLenAssumption DEF Init, Index
<1>4. \A k \in 0 .. Distance : keyb_scbuffer[Slot(k)] = Lagged(Len(delivered) + 1 + k)
  <2> SUFFICES ASSUME NEW k \in 0 .. 0
               PROVE  keyb_scbuffer[Slot(k)] = Lagged(0 + 1 + k)
    BY <1>2
  <2>1. k = 0 /\ 0 + 1 + k = 1
    OBVIOUS
  <2> QED
    BY <1>2, <1>3, <2>1 DEF Lagged
<1>5. LaggedFIFO
  BY <1>2 DEF LaggedFIFO
<1> QED
  BY <1>1, <1>2, <1>4, <1>5 DEF IInv

LEMMA InsertStep ==
    ASSUME IInv, NEW e \in Event, KeybInsert(e)
    PROVE  IInv'
<1>1. CASE Full /\ UNCHANGED bufferVars
  BY <1>1 DEF bufferVars, IInv, TypeOK, LaggedFIFO, Lagged, Distance, Slot
<1>2. CASE /\ ~Full
           /\ keyb_scbuffer' = [keyb_scbuffer EXCEPT ![NewHead] = e]
           /\ keyb_sc_head' = NewHead
           /\ accepted' = Append(accepted, e)
           /\ UNCHANGED <<keyb_sc_tail, delivered>>
  <2> DEFINE n == Len(accepted)
             d == Len(delivered)
  <2>1. TypeOK /\ keyb_sc_head \in Index /\ keyb_sc_tail \in Index
    BY DEF IInv, TypeOK
  <2>2. NewHead \in Index /\ NewHead = IF keyb_sc_head + 1 = KEYB_BUFFER_LEN THEN 0 ELSE keyb_sc_head + 1
    BY <2>1, WrapNext DEF NewHead
  <2>3. /\ n \in Nat /\ d \in Nat /\ d <= n /\ Distance = n - d
        /\ Len(accepted') = n + 1
        /\ \A i \in 1 .. n : accepted'[i] = accepted[i]
        /\ accepted'[n + 1] = e
    BY <1>2, <2>1 DEF IInv, TypeOK, LaggedFIFO
  <2>4. TypeOK'
    BY <1>2, <2>1, <2>2 DEF TypeOK
  <2>5. Distance < KEYB_BUFFER_LEN - 1 /\ Distance \in Nat
    BY <1>2, <2>1, PointerFacts, BufferLenAssumption
  <2>6. Distance' = Distance + 1
    BY <1>2, <2>1, <2>2, <2>5, BufferLenAssumption DEF Distance, Index
  <2>7. \A i \in 1 .. n + 1 : Lagged(i)' = Lagged(i)
    BY <1>2, <2>3 DEF Lagged
  <2>8. LaggedFIFO'
    BY <1>2, <2>3, <2>7 DEF IInv, LaggedFIFO
  <2>9. ASSUME NEW k \in 0 .. Distance'
        PROVE  (keyb_scbuffer[Slot(k)] = Lagged(Len(delivered) + 1 + k))'
    <3>1. Slot(k)' = Slot(k) /\ Len(delivered') = d
      BY <1>2 DEF Slot
    <3>0. ASSUME NEW i, i = d + 1 + k
          PROVE  Lagged(Len(delivered) + 1 + k)' = Lagged(i)'
      BY <3>0, <3>1 DEF Lagged
    <3>2. CASE k = Distance + 1
      <4>1. Slot(k) = NewHead
        BY <2>1, <2>2, <2>5, <3>2, BufferLenAssumption DEF Slot, Distance, Index
      <4>2. d + 1 + k = n + 2 /\ n + 2 # 1 /\ n + 2 - 1 = n + 1
        BY <2>3, <3>2
      <4>3. Lagged(Len(delivered) + 1 + k)' = e
        BY <2>3, <3>1, <4>2 DEF Lagged
      <4>4. keyb_scbuffer'[NewHead] = e
        BY <1>2, <2>1, <2>2 DEF TypeOK
      <4> QED
        BY <3>1, <4>1, <4>3, <4>4
    <3>3. CASE k \in 0 .. Distance
      <4>1. Slot(k) # NewHead /\ Slot(k) \in Index
        <5>1. k \in Nat /\ k <= Distance
          BY <2>5, <3>3
        <5> QED
          BY <2>1, <2>2, <2>5, <5>1, BufferLenAssumption DEF Slot, Distance, Index
      <4>2. keyb_scbuffer'[Slot(k)] = keyb_scbuffer[Slot(k)]
        BY <1>2, <2>1, <4>1 DEF TypeOK
      <4>3. d + 1 + k \in 1 .. n + 1
        BY <2>3, <3>3
      <4>4. Lagged(Len(delivered) + 1 + k)' = Lagged(d + 1 + k)
        BY <2>7, <3>0, <4>3
      <4>5. keyb_scbuffer[Slot(k)] = Lagged(d + 1 + k)
        BY <3>3 DEF IInv
      <4> QED
        BY <3>1, <4>2, <4>4, <4>5
    <3> QED
      BY <2>5, <2>6, <3>2, <3>3
  <2> QED
    BY <1>2, <2>3, <2>4, <2>6, <2>8, <2>9 DEF IInv
<1> QED
  BY <1>1, <1>2 DEF KeybInsert

LEMMA RemoveStep ==
    ASSUME IInv, KeybRemove
    PROVE  IInv'
<1> DEFINE n == Len(accepted)
           d == Len(delivered)
           x == keyb_scbuffer[keyb_sc_tail]
<1>1. /\ TypeOK /\ keyb_sc_head \in Index /\ keyb_sc_tail \in Index
      /\ ~Empty /\ delivered' = Append(delivered, x)
      /\ keyb_sc_tail' = Wrap(keyb_sc_tail + 1)
      /\ UNCHANGED <<keyb_scbuffer, keyb_sc_head, accepted>>
  BY DEF IInv, TypeOK, KeybRemove
<1>2. /\ keyb_sc_tail' \in Index
      /\ keyb_sc_tail' = IF keyb_sc_tail + 1 = KEYB_BUFFER_LEN THEN 0 ELSE keyb_sc_tail + 1
  BY <1>1, WrapNext
<1>3. x \in Event \cup {Zero}
  BY <1>1 DEF TypeOK
<1>4. /\ n \in Nat /\ d \in Nat /\ d <= n /\ Distance = n - d
      /\ Len(delivered') = d + 1
      /\ \A i \in 1 .. d : delivered'[i] = delivered[i]
      /\ delivered'[d + 1] = x
  BY <1>1, <1>3 DEF IInv, TypeOK, LaggedFIFO
<1>5. TypeOK'
  BY <1>1, <1>2, <1>3 DEF TypeOK
<1>6. Distance \in 1 .. KEYB_BUFFER_LEN - 1
  BY <1>1, PointerFacts, BufferLenAssumption
<1>7. Distance' = Distance - 1
  BY <1>1, <1>2, <1>6, BufferLenAssumption DEF Distance, Index, Empty
<1>8. \A i : Lagged(i)' = Lagged(i)
  BY <1>1 DEF Lagged
<1>9. x = Lagged(d + 1)
  <2>1. 0 \in 0 .. Distance /\ Slot(0) = keyb_sc_tail /\ d + 1 + 0 = d + 1
    BY <1>1, <1>4, <1>6, BufferLenAssumption DEF Slot, Index
  <2> QED
    BY <2>1 DEF IInv
<1>10. LaggedFIFO'
  <2>1. \A i \in 1 .. d : delivered[i] = Lagged(i)
    BY DEF IInv, LaggedFIFO
  <2>2. d + 1 <= n
    BY <1>4, <1>6
  <2>3. \A i \in 1 .. d + 1 : delivered'[i] = Lagged(i)
    BY <1>4, <1>9, <2>1
  <2> QED
    BY <1>1, <1>4, <1>8, <2>2, <2>3 DEF LaggedFIFO
<1>11. ASSUME NEW k \in 0 .. Distance'
       PROVE  (keyb_scbuffer[Slot(k)] = Lagged(Len(delivered) + 1 + k))'
  <2>1. k \in Nat /\ k + 1 \in 0 .. Distance
    BY <1>6, <1>7
  <2>2. Slot(k)' = Slot(k + 1)
    BY <1>1, <1>2, <1>6, <2>1, BufferLenAssumption DEF Slot, Index
  <2>3. keyb_scbuffer[Slot(k + 1)] = Lagged(d + 1 + (k + 1))
    BY <2>1 DEF IInv
  <2>4. Len(delivered') + 1 + k = d + 1 + (k + 1)
    BY <1>4, <2>1
  <2>5. Lagged(Len(delivered) + 1 + k)' = Lagged(d + 1 + (k + 1))
    BY <1>1, <2>4 DEF Lagged
  <2> QED
    BY <1>1, <2>2, <2>3, <2>5
<1>12. Distance' = Len(accepted') - Len(delivered')
  BY <1>1, <1>4, <1>7
<1> QED
  BY <1>1, <1>4, <1>5, <1>10, <1>11, <1>12 DEF IInv

(***************************************************************************)
(* The invariant holds in every reachable state.                           *)
(***************************************************************************)
THEOREM Invariance == Spec => []IInv
<1>1. ASSUME IInv, [Next]_bufferVars PROVE IInv'
  <2>1. CASE UNCHANGED bufferVars
    BY <1>1, <2>1 DEF bufferVars, IInv, TypeOK, LaggedFIFO, Lagged, Distance, Slot
  <2> QED
    BY <1>1, <2>1, InsertStep, RemoveStep DEF Next
<1> QED
  BY <1>1, InitInvariant, PTL DEF Spec

(***************************************************************************)
(* The pointers stay inside the buffer, which holds events.                *)
(***************************************************************************)
THEOREM TypeCorrectness == Spec => []TypeOK
<1>1. IInv => TypeOK
  BY DEF IInv
<1> QED
  BY <1>1, Invariance, PTL

(***************************************************************************)
(* Events come out in the order they came in, none lost and none doubled,  *)
(* for every length of the buffer and any events.                          *)
(***************************************************************************)
THEOREM OrderKept == Spec => []EventsInOrder
<1>1. ASSUME IInv PROVE EventsInOrder
  <2>1. Len(delivered) <= Len(accepted) + 1
    BY <1>1 DEF IInv, TypeOK, LaggedFIFO
  <2>2. ASSUME NEW i \in 1 .. Len(delivered)
        PROVE  delivered[i] = IF i <= 1 THEN Zero ELSE accepted[i - 1]
    <3>1. delivered[i] = IF i = 1 THEN Zero ELSE accepted[i - 1]
      BY <1>1 DEF IInv, LaggedFIFO, Lagged
    <3> QED
      BY <3>1
  <2> QED
    BY <2>1, <2>2 DEF EventsInOrder
<1> QED
  BY <1>1, Invariance, PTL

(***************************************************************************)
(* The buffer is not taken for empty or full when it is not, or the other  *)
(* way round.                                                              *)
(***************************************************************************)
THEOREM PointersRight == Spec => []PointersTell
<1>1. ASSUME IInv PROVE PointersTell
  <2>1. /\ Len(accepted) \in Nat /\ Len(delivered) \in Nat
        /\ Distance = Len(accepted) - Len(delivered)
        /\ Empty <=> Distance = 0
        /\ Full <=> Distance = KEYB_BUFFER_LEN - 1
    BY <1>1, PointerFacts DEF IInv, TypeOK
  <2> QED
    BY <2>1, BufferLenAssumption DEF PointersTell
<1> QED
  BY <1>1, Invariance, PTL

-----------------------------------------------------------------------------
(* Counting *)

LEMMA UptoFinite ==
    ASSUME NEW S \in SUBSET (Nat \ {0}), NEW n \in Nat
    PROVE  IsFiniteSet({j \in S : j <= n}) /\ Upto(S, n) \in Nat
<1>1. IsFiniteSet(1 .. n)
  BY FS_Interval
<1>2. {j \in S : j <= n} \subseteq 1 .. n
  <2> SUFFICES ASSUME NEW j \in S, j <= n PROVE j \in 1 .. n
    OBVIOUS
  <2>1. j \in Nat \ {0}
    OBVIOUS
  <2> QED
    BY <2>1
<1>3. IsFiniteSet({j \in S : j <= n})
  BY <1>1, <1>2, FS_Subset
<1> QED
  BY <1>3, FS_CardinalityType DEF Upto

LEMMA UptoNone ==
    ASSUME NEW S \in SUBSET (Nat \ {0})
    PROVE  Upto(S, 0) = 0
<1>1. ASSUME NEW j \in S PROVE ~(j <= 0)
  <2>1. j \in Nat \ {0}
    OBVIOUS
  <2> QED
    BY <2>1
<1>2. {j \in S : j <= 0} = {}
  BY <1>1
<1> QED
  BY <1>2, FS_EmptySet DEF Upto

LEMMA UptoNext ==
    ASSUME NEW S \in SUBSET (Nat \ {0}), NEW n \in Nat
    PROVE  Upto(S, n + 1) = IF n + 1 \in S THEN Upto(S, n) + 1 ELSE Upto(S, n)
<1>1. PICK A : A = {j \in S : j <= n}
  OBVIOUS
<1>2. IsFiniteSet(A) /\ n + 1 \notin A
  <2>1. ~(n + 1 <= n)
    OBVIOUS
  <2> QED
    BY <1>1, <2>1, UptoFinite
<1>3. {j \in S : j <= n + 1} = IF n + 1 \in S THEN A \cup {n + 1} ELSE A
  <2>1. ASSUME NEW j \in S PROVE j <= n + 1 <=> j <= n \/ j = n + 1
    <3>1. j \in Nat
      OBVIOUS
    <3> QED
      BY <3>1
  <2>2. n + 1 <= n + 1
    OBVIOUS
  <2> QED
    BY <1>1, <2>1, <2>2
<1>4. Cardinality(A \cup {n + 1}) = Cardinality(A) + 1
  BY <1>2, FS_AddElement
<1> QED
  BY <1>1, <1>3, <1>4 DEF Upto

\* What is added behind n does not count up to n.
LEMMA UptoSame ==
    ASSUME NEW S \in SUBSET Nat, NEW T \in SUBSET Nat, NEW n,
           \A j \in Nat : j <= n => (j \in S <=> j \in T)
    PROVE  Upto(S, n) = Upto(T, n)
<1>1. {j \in S : j <= n} = {j \in T : j <= n}
  OBVIOUS
<1> QED
  BY <1>1 DEF Upto

LEMMA UptoAll ==
    ASSUME NEW n \in Nat, NEW S \in SUBSET (1 .. n)
    PROVE  Upto(S, n) = Cardinality(S) /\ IsFiniteSet(S) /\ Cardinality(S) \in Nat
<1>1. ASSUME NEW j \in S PROVE j \in Nat \ {0} /\ j <= n
  <2>1. j \in 1 .. n
    OBVIOUS
  <2> QED
    BY <2>1
<1>2. {j \in S : j <= n} = S /\ S \in SUBSET (Nat \ {0})
  BY <1>1
<1> QED
  BY <1>2, UptoFinite DEF Upto

(***************************************************************************)
(* Members of a, at the places I, are those of s at the places J up to n,  *)
(* in their order.                                                         *)
(***************************************************************************)
Follows(a, I, s, J, n) ==
    /\ \A i \in I : \E j \in J : Upto(I, i) = Upto(J, j) /\ a[i] = s[j]
    /\ Cardinality(I) = Upto(J, n)

\* The next member of s comes into a, or is none of those that count.
LEMMA FollowsOn ==
    ASSUME NEW E, NEW a \in Seq(E), NEW s, NEW e \in E, NEW n \in Nat,
           NEW I \in SUBSET (1 .. Len(a)), NEW J \in SUBSET (Nat \ {0}),
           Follows(a, I, s, J, n), n + 1 \in J, s[n + 1] = e
    PROVE  Follows(Append(a, e), I \cup {Len(a) + 1}, s, J, n + 1)
<1>1. PICK m \in Nat : m = Len(a)
  OBVIOUS
<1>2. PICK b : b = Append(a, e)
  OBVIOUS
<1>3. b[m + 1] = e /\ \A i \in 1 .. m : b[i] = a[i]
  BY <1>1, <1>2
<1>4. PICK K : K = I \cup {m + 1}
  OBVIOUS
<1>5. I \subseteq Nat \ {0} /\ K \subseteq Nat \ {0} /\ I \subseteq 1 .. m /\ m + 1 \notin I
  <2>1. I \subseteq 1 .. m /\ 1 .. m \subseteq Nat \ {0} /\ m + 1 \notin 1 .. m /\ m + 1 \in Nat \ {0}
    BY <1>1
  <2> QED
    BY <1>4, <2>1
<1>6. Upto(K, m + 1) = Cardinality(I) + 1 /\ Cardinality(K) = Cardinality(I) + 1
  <2>1. IsFiniteSet(I)
    BY <1>5, UptoAll
  <2>2. Cardinality(K) = Cardinality(I) + 1
    BY <1>4, <1>5, <2>1, FS_AddElement
  <2>3. K \in SUBSET (1 .. m + 1)
    BY <1>4, <1>5
  <2>4. Upto(K, m + 1) = Cardinality(K)
    BY <2>3, UptoAll
  <2> QED
    BY <2>2, <2>4
<1>7. Upto(J, n + 1) = Upto(J, n) + 1
  BY UptoNext
<1>8. ASSUME NEW i \in K PROVE \E j \in J : Upto(K, i) = Upto(J, j) /\ b[i] = s[j]
  <2>1. CASE i = m + 1
    BY <1>3, <1>6, <1>7, <2>1 DEF Follows
  <2>2. CASE i \in I
    <3>1. I \subseteq Nat /\ K \subseteq Nat /\ \A j \in Nat : j <= i => (j \in I <=> j \in K)
      <4>1. i \in 1 .. m /\ ~(m + 1 <= i)
        BY <1>5, <2>2
      <4> QED
        BY <1>4, <1>5, <4>1
    <3>2. Upto(K, i) = Upto(I, i)
      BY <3>1, UptoSame
    <3>3. b[i] = a[i]
      BY <1>3, <1>5, <2>2
    <3> QED
      BY <2>2, <3>2, <3>3 DEF Follows
  <2> QED
    BY <1>4, <2>1, <2>2
<1>9. Cardinality(K) = Upto(J, n + 1)
  BY <1>6, <1>7 DEF Follows
<1> QED
  BY <1>1, <1>2, <1>4, <1>8, <1>9 DEF Follows

LEMMA FollowsPast ==
    ASSUME NEW a, NEW I, NEW s, NEW J \in SUBSET (Nat \ {0}), NEW n \in Nat,
           Follows(a, I, s, J, n), n + 1 \notin J
    PROVE  Follows(a, I, s, J, n + 1)
  BY UptoNext DEF Follows

\* A member that does not count is put into a.
LEMMA FollowsInserted ==
    ASSUME NEW E, NEW a \in Seq(E), NEW e \in E, NEW s, NEW n,
           NEW I \in SUBSET (1 .. Len(a)), NEW J,
           Follows(a, I, s, J, n)
    PROVE  Follows(Append(a, e), I, s, J, n)
<1>1. \A i \in 1 .. Len(a) : Append(a, e)[i] = a[i]
  OBVIOUS
<1> QED
  BY <1>1 DEF Follows

\* s grows.
LEMMA FollowsLonger ==
    ASSUME NEW a, NEW I, NEW s, NEW t, NEW m \in Nat, NEW n \in 0 .. m,
           NEW J \in SUBSET (1 .. m), NEW K \in SUBSET (Nat \ {0}),
           \A j \in 1 .. m : t[j] = s[j] /\ (j \in J <=> j \in K),
           Follows(a, I, s, J, n)
    PROVE  Follows(a, I, t, K, n)
<1>1. ASSUME NEW i \in 0 .. m PROVE Upto(J, i) = Upto(K, i)
  <2>1. J \subseteq Nat /\ K \subseteq Nat /\ \A j \in Nat : j <= i => (j \in J <=> j \in K)
    <3>1. ASSUME NEW j \in Nat, j <= i PROVE j \in J <=> j \in K
      <4>1. j = 0 \/ j \in 1 .. m
        BY <3>1
      <4>2. 0 \notin J /\ 0 \notin K
        OBVIOUS
      <4> QED
        BY <4>1, <4>2
    <3>2. 1 .. m \subseteq Nat
      OBVIOUS
    <3> QED
      BY <3>1, <3>2
  <2> QED
    BY <2>1, UptoSame
<1>2. ASSUME NEW j \in J PROVE j \in K /\ t[j] = s[j] /\ Upto(K, j) = Upto(J, j)
  BY <1>1
<1> QED
  BY <1>1, <1>2 DEF Follows

-----------------------------------------------------------------------------
(* Bytes *)

Replies == {KBD_REPLY_ACK, KBD_REPLY_RESEND}
Prefix == {0, 224, 225, E1_1D}
Shifts == {1, 2, 4, 8, 16, 32}
Byte == [code : 0 .. 255, ends : BOOLEAN, held : SUBSET DOMAIN Make]

\* What the driver has made of the bytes so far: the prefix, the modifiers, and how
\* many of the events the keyboard has sent.
Decoder == [prev : Prefix, shift : SUBSET Shifts, n : Nat]

ShiftAfter(d, b) ==
    LET key == Keycode(d.prev, b)
    IN  IF key \notin DOMAIN ShiftBit THEN d.shift
        ELSE IF b < 128 THEN d.shift \cup {ShiftBit[key]} ELSE d.shift \ {ShiftBit[key]}

Completes(d, b) == Keycode(d.prev, b) # 0 /\ b \notin Replies

Decode(d, b) ==
    [prev |-> NextPrefix(d.prev, b), shift |-> ShiftAfter(d, b),
     n |-> IF Completes(d, b) THEN d.n + 1 ELSE d.n]

\* A byte r comes when it should, if s are the events that were sent.
Right(s, d, r) ==
    /\ r.code \in Replies => d.prev = 0
    /\ Completes(d, r.code) =>
          d.n + 1 \in 1 .. Len(s) /\ s[d.n + 1] = [code |-> r.code, down |-> r.code < 128]
    /\ r.ends => Decode(d, r.code).prev = 0 /\ Decode(d, r.code).shift = BitsOf(r.held)
    /\ Keycode(d.prev, r.code) = E0_DEL /\ r.code < 128 => r.ends /\ "del" \in r.held

\* The first k bytes of w lead the driver from d to e.
Leads(s, w, k, d, e) ==
    \E st \in [0 .. k -> Decoder] :
        /\ st[0] = d /\ st[k] = e
        /\ \A i \in 1 .. k : st[i] = Decode(st[i - 1], w[i].code) /\ Right(s, st[i - 1], w[i])

LEMMA PrefixAfter ==
    ASSUME NEW p \in Prefix, NEW b \in 0 .. 255
    PROVE  NextPrefix(p, b) \in Prefix
  BY DEF Prefix, NextPrefix, E1_1D

LEMMA ShiftBits == \A key \in DOMAIN ShiftBit : ShiftBit[key] \in Shifts
  BY DEF ShiftBit, Shifts

LEMMA DecodeType ==
    ASSUME NEW d \in Decoder, NEW b \in 0 .. 255
    PROVE  Decode(d, b) \in Decoder
<1>1. d.prev \in Prefix /\ d.shift \in SUBSET Shifts /\ d.n \in Nat
  BY DEF Decoder
<1>2. ShiftAfter(d, b) \in SUBSET Shifts
  BY <1>1, ShiftBits DEF ShiftAfter
<1>3. NextPrefix(d.prev, b) \in Prefix
  BY <1>1, PrefixAfter
<1>4. PICK m : m = IF Completes(d, b) THEN d.n + 1 ELSE d.n
  OBVIOUS
<1>5. m \in Nat
  BY <1>1, <1>4
<1> QED
  BY <1>2, <1>3, <1>4, <1>5 DEF Decode, Decoder

LEMMA LeadsNowhere ==
    ASSUME NEW s, NEW w, NEW d \in Decoder
    PROVE  Leads(s, w, 0, d, d)
<1> DEFINE st == [i \in 0 .. 0 |-> d]
<1>1. st \in [0 .. 0 -> Decoder] /\ st[0] = d /\ 1 .. 0 = {}
  OBVIOUS
<1> HIDE DEF st
<1> QED
  BY <1>1 DEF Leads

LEMMA LeadsOn ==
    ASSUME NEW s, NEW w, NEW k \in Nat, NEW m, m = k + 1,
           NEW d, NEW e \in Decoder, Leads(s, w, k, d, e),
           w[m].code \in 0 .. 255, Right(s, e, w[m]), NEW f, f = Decode(e, w[m].code)
    PROVE  Leads(s, w, m, d, f)
<1>1. PICK st \in [0 .. k -> Decoder] :
        /\ st[0] = d /\ st[k] = e
        /\ \A i \in 1 .. k : st[i] = Decode(st[i - 1], w[i].code) /\ Right(s, st[i - 1], w[i])
  BY DEF Leads
<1>3. m \in Nat /\ m - 1 = k /\ m # 0 /\ m \notin 0 .. k /\ \A i \in 0 .. m : i = m \/ i \in 0 .. k
  OBVIOUS
<1>5. f \in Decoder
  BY DecodeType
<1> DEFINE to == [i \in 0 .. m |-> IF i = m THEN f ELSE st[i]]
<1>6. to \in [0 .. m -> Decoder]
  BY <1>1, <1>3, <1>5
<1>7. to[m] = f /\ \A i \in 0 .. k : to[i] = st[i]
  BY <1>3
<1> HIDE DEF to
<1>8. to[0] = d
  BY <1>1, <1>7
<1>9. ASSUME NEW i \in 1 .. m
      PROVE  to[i] = Decode(to[i - 1], w[i].code) /\ Right(s, to[i - 1], w[i])
  <2>1. CASE i = m
    <3>1. to[i - 1] = e
      BY <1>1, <1>3, <1>7, <2>1
    <3> QED
      BY <1>7, <2>1, <3>1
  <2>2. CASE i \in 1 .. k
    <3>1. i - 1 \in 0 .. k /\ i \in 0 .. k
      BY <2>2
    <3> QED
      BY <1>1, <1>7, <2>2, <3>1
  <2> QED
    BY <1>3, <2>1, <2>2
<1> QED
  BY <1>6, <1>7, <1>8, <1>9 DEF Leads

LEMMA LeadsFirst ==
    ASSUME NEW s, NEW w \in Seq(Byte), w # <<>>, NEW d, NEW e, Leads(s, w, Len(w), d, e)
    PROVE  /\ Right(s, d, Head(w))
           /\ Leads(s, Tail(w), Len(Tail(w)), Decode(d, Head(w).code), e)
<1>1. PICK n \in Nat \ {0} : n = Len(w)
  BY EmptySeq
<1>2. PICK v : v = Tail(w)
  OBVIOUS
<1>3. PICK m \in Nat : m + 1 = n /\ Len(v) = m /\ \A i \in 1 .. m : v[i] = w[i + 1]
  <2>1. n - 1 \in Nat /\ n - 1 + 1 = n /\ Len(v) = n - 1 /\ \A i \in 1 .. Len(v) : v[i] = w[i + 1]
    BY <1>1, <1>2, HeadTailProperties
  <2> QED
    BY <2>1
<1>4. Head(w) = w[1]
  OBVIOUS
<1>5. PICK st \in [0 .. n -> Decoder] :
        /\ st[0] = d /\ st[n] = e
        /\ \A i \in 1 .. n : st[i] = Decode(st[i - 1], w[i].code) /\ Right(s, st[i - 1], w[i])
  BY <1>1 DEF Leads
<1>6. Right(s, d, w[1]) /\ st[1] = Decode(d, w[1].code)
  <2>1. 1 \in 1 .. n /\ 1 - 1 = 0
    BY <1>1
  <2> QED
    BY <1>5, <2>1
<1> DEFINE to == [i \in 0 .. m |-> st[i + 1]]
<1>7. \A i \in 0 .. m : i + 1 \in 0 .. n
  BY <1>3
<1>8. to \in [0 .. m -> Decoder] /\ to[0] = st[1] /\ to[m] = e
  BY <1>3, <1>5, <1>7
<1>9. ASSUME NEW i \in 1 .. m
      PROVE  to[i] = Decode(to[i - 1], v[i].code) /\ Right(s, to[i - 1], v[i])
  <2>1. PICK k : k = i + 1
    OBVIOUS
  <2>2. k \in 1 .. n /\ k - 1 = i
    BY <1>3, <2>1
  <2>3. st[k] = Decode(st[i], w[k].code) /\ Right(s, st[i], w[k])
    BY <1>5, <2>2
  <2>4. to[i] = st[k] /\ v[i] = w[k]
    BY <1>3, <2>1
  <2>5. to[i - 1] = st[i]
    <3>1. i - 1 \in 0 .. m /\ i - 1 + 1 = i
      BY <1>3
    <3> QED
      BY <3>1
  <2> QED
    BY <2>3, <2>4, <2>5
<1> HIDE DEF to
<1>10. Leads(s, v, m, st[1], e)
  BY <1>8, <1>9 DEF Leads
<1> QED
  BY <1>2, <1>3, <1>4, <1>6, <1>10

\* More events and more bytes do not change what the bytes before them mean.
LEMMA LeadsStill ==
    ASSUME NEW E, NEW s \in Seq(E), NEW t, Len(t) \in Nat, Len(s) <= Len(t),
           \A i \in 1 .. Len(s) : t[i] = s[i],
           NEW w, NEW v, NEW k \in Nat, \A i \in 1 .. k : v[i] = w[i],
           NEW d, NEW e, Leads(s, w, k, d, e)
    PROVE  Leads(t, v, k, d, e)
<1>1. ASSUME NEW c, NEW r, Right(s, c, r) PROVE Right(t, c, r)
  <2>1. c.n + 1 \in 1 .. Len(s) => c.n + 1 \in 1 .. Len(t) /\ t[c.n + 1] = s[c.n + 1]
    OBVIOUS
  <2> QED
    BY <1>1, <2>1 DEF Right
<1> QED
  BY <1>1 DEF Leads

-----------------------------------------------------------------------------
(* Keys *)

Plain == {"a", "f1", "f11", "caps", "num", "lshift", "rshift", "lctrl", "lalt"}
Prefixed == {"rctrl", "ralt", "home", "del"}

\* The byte that tells a key from others, and the prefix before it.
Code(k) == Make[k][Len(Make[k])]
Before(k) == IF k \in Prefixed THEN 224 ELSE 0

LEMMA KeyKinds ==
    /\ DOMAIN Make = Plain \cup Prefixed \cup {"pause"}
    /\ Modifiers \subseteq Plain \cup Prefixed /\ "pause" \notin Plain \cup Prefixed
    /\ Plain \cap Prefixed = {}
  BY DEF Make, Plain, Prefixed, Modifiers

LEMMA PlainMakes ==
    ASSUME NEW k \in Plain
    PROVE  Make[k] = <<Code(k)>> /\ Len(Make[k]) = 1 /\ Code(k) \in {29, 30, 42, 54, 56, 58, 59, 69, 87}
<1>1. Make[k] \in {<< 29 >>, << 30 >>, << 42 >>, << 54 >>, << 56 >>, << 58 >>, << 59 >>, << 69 >>, << 87 >>}
  BY DEF Make, Plain, Modifiers
<1>2. ASSUME NEW c \in Nat, Make[k] = <<c>> PROVE Code(k) = c /\ Len(Make[k]) = 1
  BY <1>2 DEF Code
<1> QED
  BY <1>1, <1>2

LEMMA PrefixedMakes ==
    ASSUME NEW k \in Prefixed
    PROVE  Make[k] = <<224, Code(k)>> /\ Len(Make[k]) = 2 /\ Code(k) \in {29, 56, 71, 83}
<1>1. Make[k] \in {<<224, 29>>, <<224, 56>>, <<224, 71>>, <<224, 83>>}
  BY DEF Make, Prefixed, Modifiers
<1>2. ASSUME NEW c \in {29, 56, 71, 83}, Make[k] = <<224, c>> PROVE Code(k) = c /\ Len(Make[k]) = 2
  BY <1>2 DEF Code
<1> QED
  BY <1>1, <1>2

\* What the driver finds the byte to be.
LEMMA KeycodePlain ==
    ASSUME NEW c \in {29, 30, 42, 54, 56, 58, 59, 69, 87}, NEW b \in {c, c + 128}
    PROVE  Keycode(0, b) = c /\ NextPrefix(0, b) = 0 /\ b \notin Replies /\ b \in 0 .. 255
<1>1. b % 128 = c /\ b \notin {0, 255, 224, 225} /\ c < 89
  OBVIOUS
<1> QED
  BY <1>1 DEF Keycode, NextPrefix, SC_LIM, Replies, KBD_REPLY_ACK, KBD_REPLY_RESEND, E1_1D

E0Key(c) == CASE c = 29 -> 97 [] c = 56 -> 100 [] c = 83 -> E0_DEL [] c = 71 -> E0_OTHER

LEMMA KeycodePrefixed ==
    ASSUME NEW c \in {29, 56, 71, 83}, NEW b \in {c, c + 128}
    PROVE  Keycode(224, b) = E0Key(c) /\ NextPrefix(224, b) = 0 /\ b \notin Replies /\ b \in 0 .. 255
<1>1. b % 128 = c /\ b \notin {0, 255, 224, 225} /\ c \notin {42, 54} /\ c \in 0 .. 127
  OBVIOUS
<1>2. e0_keys[c] = E0Key(c)
  BY DEF e0_keys, E0Key
<1> QED
  BY <1>1, <1>2 DEF Keycode, NextPrefix, Replies, KBD_REPLY_ACK, KBD_REPLY_RESEND, E1_1D

\* The key a byte stands for.
Key1(k) == IF k \in Prefixed THEN E0Key(Code(k)) ELSE Code(k)

LEMMA KeyCodes ==
    ASSUME NEW k \in Plain \cup Prefixed, NEW b \in {Code(k), Code(k) + 128}
    PROVE  /\ Keycode(Before(k), b) = Key1(k) /\ NextPrefix(Before(k), b) = 0
           /\ b \notin Replies /\ b \in 0 .. 255 /\ Code(k) \in 1 .. 127
<1>1. CASE k \in Plain
  BY <1>1, PlainMakes, KeycodePlain, KeyKinds DEF Before, Key1
<1>2. CASE k \in Prefixed
  BY <1>2, PrefixedMakes, KeycodePrefixed DEF Before, Key1
<1> QED
  BY <1>1, <1>2

LEMMA Keys ==
    ASSUME NEW k \in Plain \cup Prefixed
    PROVE  /\ Key1(k) # 0
           /\ Key1(k) \in DOMAIN ShiftBit <=> k \in Modifiers
           /\ k \in Modifiers => ShiftBit[Key1(k)] = KeyBit[k]
           /\ Key1(k) = E0_DEL => k = "del"
<1>1. CASE k \in {"a", "f1", "f11", "caps", "num"}
  <2>1. k \notin Modifiers /\ k \notin Prefixed
    BY <1>1 DEF Modifiers, Prefixed
  <2>2. ASSUME k \in {"a", "f1"} PROVE Code(k) = IF k = "a" THEN 30 ELSE 59
    BY <2>2 DEF Make, Code, Modifiers
  <2>3. ASSUME k \in {"f11", "caps", "num"}
        PROVE  Code(k) = CASE k = "f11" -> 87 [] k = "caps" -> 58 [] k = "num" -> 69
    BY <2>3 DEF Make, Code, Modifiers
  <2>4. Code(k) \in {30, 59, 87, 58, 69}
    BY <1>1, <2>2, <2>3
  <2>5. Key1(k) \in {30, 59, 87, 58, 69}
    BY <2>1, <2>4 DEF Key1
  <2> QED
    BY <2>1, <2>5 DEF ShiftBit, E0_DEL
<1>2. CASE k \in {"lshift", "rshift", "lctrl", "lalt"}
  <2>1. /\ k \in Modifiers /\ k \notin Prefixed
        /\ Code(k) = CASE k = "lshift" -> 42 [] k = "rshift" -> 54 [] k = "lctrl" -> 29 [] k = "lalt" -> 56
    BY <1>2 DEF Make, Code, Modifiers, Prefixed
  <2> QED
    BY <1>2, <2>1 DEF Key1, ShiftBit, KeyBit, E0_DEL
<1>3. CASE k \in {"rctrl", "ralt"}
  <2>1. k \in Modifiers /\ k \in Prefixed /\ Code(k) = CASE k = "rctrl" -> 29 [] k = "ralt" -> 56
    BY <1>3 DEF Make, Code, Modifiers, Prefixed
  <2>2. Key1(k) = CASE k = "rctrl" -> 97 [] k = "ralt" -> 100
    BY <1>3, <2>1 DEF Key1, E0Key
  <2> QED
    BY <1>3, <2>1, <2>2 DEF ShiftBit, KeyBit, E0_DEL
<1>4. CASE k \in {"home", "del"}
  <2>1. k \notin Modifiers /\ k \in Prefixed /\ Code(k) = CASE k = "home" -> 71 [] k = "del" -> 83
    BY <1>4 DEF Make, Code, Modifiers, Prefixed
  <2>2. Key1(k) = CASE k = "home" -> E0_OTHER [] k = "del" -> E0_DEL
    BY <1>4, <2>1 DEF Key1, E0Key
  <2> QED
    BY <1>4, <2>1, <2>2 DEF ShiftBit, E0_DEL, E0_OTHER
<1> QED
  BY <1>1, <1>2, <1>3, <1>4 DEF Plain, Prefixed

LEMMA BitsTold ==
    ASSUME NEW h, NEW k \in Plain \cup Prefixed
    PROVE  /\ BitsOf(h \cup {k}) = IF k \in Modifiers THEN BitsOf(h) \cup {KeyBit[k]} ELSE BitsOf(h)
           /\ BitsOf(h \ {k}) = IF k \in Modifiers THEN BitsOf(h) \ {KeyBit[k]} ELSE BitsOf(h)
           /\ BitsOf(h) \in SUBSET Shifts
<1>1. \A i, j \in Modifiers : KeyBit[i] = KeyBit[j] => i = j
  BY DEF KeyBit, Modifiers
<1>2. \A i \in Modifiers : KeyBit[i] \in Shifts
  BY DEF KeyBit, Modifiers, Shifts
<1>3. BitsOf(h \ {k}) = IF k \in Modifiers THEN BitsOf(h) \ {KeyBit[k]} ELSE BitsOf(h)
  BY <1>1 DEF BitsOf
<1>4. BitsOf(h \cup {k}) = IF k \in Modifiers THEN BitsOf(h) \cup {KeyBit[k]} ELSE BitsOf(h)
  BY DEF BitsOf
<1> QED
  BY <1>2, <1>3, <1>4 DEF BitsOf

-----------------------------------------------------------------------------

LEMMA DecodeUnfinished ==
    ASSUME NEW e \in Decoder, NEW b \in 0 .. 255, Keycode(e.prev, b) = 0
    PROVE  /\ Decode(e, b) = [prev |-> NextPrefix(e.prev, b), shift |-> e.shift, n |-> e.n]
           /\ ~Completes(e, b)
<1>1. 0 \notin DOMAIN ShiftBit
  BY DEF ShiftBit
<1> QED
  BY <1>1 DEF Decode, ShiftAfter, Completes

\* A prefix.
LEMMA PrefixLeads ==
    ASSUME NEW s, NEW w, NEW m \in Nat, NEW d, NEW e \in Decoder, e.prev = 0, Leads(s, w, m, d, e),
           NEW j, j = m + 1, NEW b \in {224, 225}, w[j].code = b, ~w[j].ends,
           NEW f, f = [prev |-> b, shift |-> e.shift, n |-> e.n]
    PROVE  Leads(s, w, j, d, f)
<1>1. Keycode(0, b) = 0 /\ NextPrefix(0, b) = b /\ b \notin Replies /\ b \in 0 .. 255
  BY DEF Keycode, NextPrefix, Replies, KBD_REPLY_ACK, KBD_REPLY_RESEND
<1>2. Right(s, e, w[j])
  BY <1>1, DecodeUnfinished DEF Right, E0_DEL
<1>3. Decode(e, b) = f
  BY <1>1, DecodeUnfinished
<1> QED
  BY <1>1, <1>2, <1>3, LeadsOn

\* A hidden shift changes nothing.
LEMMA FakeLeads ==
    ASSUME NEW s, NEW w, NEW m \in Nat, NEW d, NEW e \in Decoder, e.prev = 0, Leads(s, w, m, d, e),
           w[m + 1].code = 224, ~w[m + 1].ends, w[m + 2].code \in {42, 170},
           w[m + 2].ends => e.shift = BitsOf(w[m + 2].held)
    PROVE  Leads(s, w, m + 2, d, e)
<1>0. PICK i \in Nat, j \in Nat, b \in {42, 170} : i = m + 1 /\ j = m + 2 /\ b = w[j].code
  OBVIOUS
<1>3. w[i].code = 224 /\ ~w[i].ends /\ w[j].code = b /\ (w[j].ends => e.shift = BitsOf(w[j].held))
  BY <1>0
<1>1. PICK f : f = [prev |-> 224, shift |-> e.shift, n |-> e.n]
  OBVIOUS
<1>2. f \in Decoder /\ f.prev = 224 /\ f.shift = e.shift /\ f.n = e.n
  BY <1>1 DEF Decoder, Prefix
<1>4. i \in Nat /\ i + 1 = j
  BY <1>0
<1>5. Leads(s, w, i, d, f)
  BY <1>0, <1>1, <1>3, PrefixLeads
<1>6. Keycode(224, b) = 0 /\ NextPrefix(224, b) = 0 /\ b \notin Replies /\ b \in 0 .. 255
  <2>1. b % 128 = 42 /\ b \notin {0, 255, 224, 225, 250, 254}
    OBVIOUS
  <2> QED
    BY <2>1 DEF Keycode, NextPrefix, Replies, KBD_REPLY_ACK, KBD_REPLY_RESEND, E1_1D
<1>7. Decode(f, b) = [prev |-> 0, shift |-> e.shift, n |-> e.n] /\ ~Completes(f, b)
  BY <1>2, <1>6, DecodeUnfinished
<1>8. Decode(f, b) = e
  BY <1>7 DEF Decoder
<1>9. Right(s, f, w[j])
  BY <1>2, <1>3, <1>6, <1>7, <1>8 DEF Right, E0_DEL
<1> QED
  <2>1. Leads(s, w, j, d, e)
    BY <1>2, <1>3, <1>4, <1>5, <1>6, <1>8, <1>9, LeadsOn
  <2> QED
    BY <1>0, <2>1

After(shift, k, b) ==
    IF k \notin Modifiers THEN shift
    ELSE IF b < 128 THEN shift \cup {KeyBit[k]} ELSE shift \ {KeyBit[k]}

AfterKey(e, k, b) == [prev |-> 0, shift |-> After(e.shift, k, b), n |-> e.n + 1]

\* The byte r tells of k what was sent, and what is held.
Told(s, e, k, b, r) ==
    /\ r.code = b
    /\ e.n + 1 \in 1 .. Len(s) /\ s[e.n + 1] = [code |-> b, down |-> b < 128]
    /\ r.ends => BitsOf(r.held) = After(e.shift, k, b)
    /\ b < 128 => r.ends /\ k \in r.held

\* The byte of a key, behind its prefix.
LEMMA CodeLeads ==
    ASSUME NEW s, NEW w, NEW m \in Nat, NEW d, NEW e \in Decoder, Leads(s, w, m, d, e),
           NEW k \in Plain \cup Prefixed, e.prev = Before(k),
           NEW j, j = m + 1, NEW b \in {Code(k), Code(k) + 128}, Told(s, e, k, b, w[j]),
           NEW f, f = AfterKey(e, k, b)
    PROVE  Leads(s, w, j, d, f)
<1>1. /\ Keycode(e.prev, b) = Key1(k) /\ NextPrefix(e.prev, b) = 0
      /\ b \notin Replies /\ b \in 0 .. 255
  BY KeyCodes
<1>2. Key1(k) # 0 /\ Completes(e, b)
  BY <1>1, Keys DEF Completes
<1>3. ShiftAfter(e, b) = After(e.shift, k, b)
  BY <1>1, Keys DEF ShiftAfter, After
<1>4. Decode(e, b) = f
  BY <1>1, <1>2, <1>3 DEF Decode, AfterKey
<1>5. Right(s, e, w[j])
  BY <1>1, <1>4, Keys DEF Right, Told, AfterKey
<1>6. w[j].code \in 0 .. 255 /\ f = Decode(e, w[j].code)
  BY <1>1, <1>4 DEF Told
<1> QED
  BY <1>5, <1>6, LeadsOn

BytesOf(k) == Len(Make[k])

LEMMA KeyLeads ==
    ASSUME NEW s, NEW w, NEW m \in Nat, NEW d, NEW e \in Decoder, e.prev = 0, Leads(s, w, m, d, e),
           NEW k \in Plain \cup Prefixed, NEW l, l = BytesOf(k), NEW j, j = m + l,
           NEW b \in {Code(k), Code(k) + 128}, Told(s, e, k, b, w[j]),
           j # m + 1 => w[m + 1].code = 224 /\ ~w[m + 1].ends,
           NEW f, f = AfterKey(e, k, b)
    PROVE  Leads(s, w, j, d, f)
<1>1. CASE k \in Plain
  <2>1. j = m + 1 /\ Before(k) = 0
    <3>1. Len(Make[k]) = 1
      BY <1>1, PlainMakes
    <3> QED
      BY <1>1, <3>1, KeyKinds DEF Before, BytesOf
  <2>2. e.prev = Before(k)
    BY <2>1
  <2> QED
    BY <2>1, <2>2, CodeLeads
<1>2. CASE k \in Prefixed
  <2>1. j = m + 2 /\ Before(k) = 224
    <3>1. Len(Make[k]) = 2
      BY <1>2, PrefixedMakes
    <3> QED
      BY <1>2, <3>1 DEF Before, BytesOf
  <2>2. PICK g : g = [prev |-> 224, shift |-> e.shift, n |-> e.n]
    OBVIOUS
  <2>3. g \in Decoder /\ g.prev = 224 /\ g.shift = e.shift /\ g.n = e.n
    BY <2>2 DEF Decoder, Prefix
  <2>4. PICK i : i = m + 1
    OBVIOUS
  <2>5. i \in Nat /\ j = i + 1 /\ w[i].code = 224 /\ ~w[i].ends
    BY <2>1, <2>4
  <2>6. Leads(s, w, i, d, g)
    BY <2>2, <2>4, <2>5, PrefixLeads
  <2>7. Told(s, g, k, b, w[j]) /\ f = AfterKey(g, k, b) /\ g.prev = Before(k)
    BY <2>1, <2>3 DEF Told, AfterKey
  <2> QED
    BY <2>3, <2>5, <2>6, <2>7, CodeLeads
<1> QED
  BY <1>1, <1>2

-----------------------------------------------------------------------------
(* What a key sends *)

\* v is w, that is m bytes, and the l bytes q.
Behind(v, m, q, l, g) ==
    /\ Len(v) = m + l
    /\ \A i \in 1 .. l : v[m + i].code = q[i] /\ v[m + i].held = g
    /\ \A i \in 1 .. l : i # l => ~v[m + i].ends
    /\ l # 0 => v[m + l].ends

LEMMA RecordOf ==
    ASSUME NEW c, NEW a, NEW h, NEW r, r = [code |-> c, ends |-> a, held |-> h]
    PROVE  r.code = c /\ r.ends = a /\ r.held = h
  OBVIOUS

Counts(s, n) == n = Len(s)
Joined(p, r, q) == q = p \o r
Wires(w, q, g, v) == v = w \o Bytes(q, g)

LEMMA Wired ==
    ASSUME NEW w \in Seq(Byte), NEW q \in Seq(0 .. 255), NEW h \in SUBSET DOMAIN Make,
           NEW m \in Nat, Counts(w, m), NEW n \in Nat, Counts(q, n), NEW v, Wires(w, q, h, v)
    PROVE  v \in Seq(Byte) /\ (\A i \in 1 .. m : v[i] = w[i]) /\ Behind(v, m, q, n, h)
<1>1. m = Len(w) /\ n = Len(q) /\ v = w \o Bytes(q, h)
  BY DEF Counts, Wires
<1>2. PICK b : b = Bytes(q, h)
  OBVIOUS
<1>3. \A i \in 1 .. n : q[i] \in 0 .. 255
  BY <1>1
<1>4. ASSUME NEW i \in 1 .. n
      PROVE  [code |-> q[i], ends |-> i = n, held |-> h] \in Byte
  BY <1>3 DEF Byte
<1>5. b = [i \in 1 .. n |-> [code |-> q[i], ends |-> i = n, held |-> h]]
  BY <1>1, <1>2 DEF Bytes
<1>6. b \in [1 .. n -> Byte]
  BY <1>4, <1>5
<1>7. b \in Seq(Byte) /\ Len(b) = n
  <2>1. b \in Seq(Byte)
    <3>1. b \in UNION {[1 .. i -> Byte] : i \in Nat}
      BY <1>6
    <3> QED
      BY <3>1, SeqDef
  <2>2. DOMAIN b = 1 .. n /\ DOMAIN b = 1 .. Len(b) /\ Len(b) \in Nat
    BY <1>6, <2>1, LenProperties
  <2> QED
    BY <2>1, <2>2
<1>8. /\ v \in Seq(Byte) /\ Len(v) = m + n
      /\ \A i \in 1 .. m : v[i] = w[i]
      /\ \A i \in 1 .. n : v[m + i] = b[i]
  <2>1. \A i \in 1 .. m + n : v[i] = IF i <= m THEN w[i] ELSE b[i - m]
    BY <1>1, <1>2, <1>7, ConcatProperties
  <2>2. v \in Seq(Byte) /\ Len(v) = m + n
    BY <1>1, <1>2, <1>7, ConcatProperties
  <2>3. ASSUME NEW i \in 1 .. n PROVE v[m + i] = b[i]
    <3>1. PICK j : j = m + i
      OBVIOUS
    <3>2. j \in 1 .. m + n /\ ~(j <= m) /\ j - m = i
      BY <3>1
    <3> QED
      BY <2>1, <3>1, <3>2
  <2>4. \A i \in 1 .. m : i \in 1 .. m + n /\ i <= m
    OBVIOUS
  <2> QED
    BY <2>1, <2>2, <2>3, <2>4
<1>9. \A i \in 1 .. n : b[i] = [code |-> q[i], ends |-> i = n, held |-> h]
  BY <1>5
<1>10. ASSUME NEW i \in 1 .. n
       PROVE  v[m + i].code = q[i] /\ v[m + i].held = h /\ v[m + i].ends = (i = n)
  <2>1. PICK r : r = v[m + i]
    OBVIOUS
  <2>2. PICK z \in BOOLEAN : z = (i = n)
    OBVIOUS
  <2>3. r = [code |-> q[i], ends |-> z, held |-> h]
    BY <1>8, <1>9, <2>1, <2>2
  <2>4. r.code = q[i] /\ r.ends = z /\ r.held = h
    BY <2>3, RecordOf
  <2> QED
    BY <2>1, <2>2, <2>4
<1>11. n # 0 => v[m + n].ends
  <2>1. n # 0 => n \in 1 .. n
    OBVIOUS
  <2> QED
    BY <1>10, <2>1
<1> QED
  BY <1>8, <1>10, <1>11 DEF Behind

LEMMA OneMember ==
    ASSUME NEW S, NEW s \in Seq(S), Len(s) = 1, NEW c \in S, s[1] = c
    PROVE  s = <<c>>
<1>1. <<c>> \in Seq(S) /\ Len(<<c>>) = 1 /\ <<c>>[1] = c
  OBVIOUS
<1>2. \A i \in 1 .. 1 : s[i] = <<c>>[i]
  BY <1>1
<1> QED
  BY <1>1, <1>2, SeqEqual

LEMMA TwoMembers ==
    ASSUME NEW S, NEW c \in S, NEW d \in S
    PROVE  <<c>> \o <<d>> = <<c, d>> /\ SubSeq(<<c, d>>, 1, 1) = <<c>>
<1>1. /\ <<c>> \in Seq(S) /\ <<d>> \in Seq(S) /\ <<c, d>> \in Seq(S) /\ Len(<<c, d>>) = 2
      /\ Len(<<c>>) = 1 /\ Len(<<d>>) = 1 /\ <<c>>[1] = c /\ <<d>>[1] = d
      /\ <<c, d>>[1] = c /\ <<c, d>>[2] = d
  OBVIOUS
<1>2. PICK p : p = <<c, d>>
  OBVIOUS
<1>3. PICK q : q = SubSeq(p, 1, 1)
  OBVIOUS
<1>4. q = <<c>>
  <2>1. \A i \in 1 .. 1 : p[i] \in S
    BY <1>1, <1>2
  <2>2. q \in Seq(S) /\ Len(q) = 1 /\ \A i \in 1 .. 1 : q[i] = p[1 + i - 1]
    BY <1>3, <2>1, SubSeqProperties
  <2>3. q[1] = c
    BY <1>1, <1>2, <2>2
  <2> QED
    BY <2>2, <2>3, OneMember
<1>5. PICK r : r = <<c>> \o <<d>>
  OBVIOUS
<1>6. r = p
  <2>1. r \in Seq(S) /\ Len(r) = 2 /\ \A i \in 1 .. 2 : r[i] = IF i <= 1 THEN <<c>>[i] ELSE <<d>>[i - 1]
    BY <1>1, <1>5, ConcatProperties
  <2>2. r[1] = c /\ r[2] = d
    BY <1>1, <2>1
  <2>3. \A i \in 1 .. 2 : r[i] = p[i]
    BY <1>1, <1>2, <2>2
  <2> QED
    BY <1>1, <1>2, <2>1, <2>3, SeqEqual
<1> QED
  BY <1>2, <1>3, <1>4, <1>5, <1>6

LEMMA FakeShifts ==
    ASSUME NEW k, NEW fake \in FakeShift(k)
    PROVE  /\ fake \in Seq(0 .. 255) /\ Len(fake) \in {0, 2}
           /\ Len(fake) = 2 => fake[1] = 224 /\ fake[2] \in {42, 170}
<1>1. fake = <<>> \/ fake = <<224, 170>> \/ fake = <<224, 42>>
  BY DEF FakeShift
<1>2. CASE fake = <<>>
  BY <1>2
<1>3. ASSUME NEW c \in {42, 170}, fake = <<224, c>>
      PROVE  fake \in Seq(0 .. 255) /\ Len(fake) = 2 /\ fake[1] = 224 /\ fake[2] = c
  BY <1>3
<1> QED
  BY <1>1, <1>2, <1>3

\* The bytes of a key that is pressed or released.
IsOf(q, k, b) ==
    /\ q \in Seq(0 .. 255) /\ Len(q) = Len(Make[k]) /\ Len(q) \in {1, 2}
    /\ q[Len(q)] = b /\ (Len(q) = 2 => q[1] = 224)

LEMMA MakeBreak ==
    ASSUME NEW k \in Plain \cup Prefixed
    PROVE  IsOf(Make[k], k, Code(k)) /\ IsOf(Break(k), k, Code(k) + 128)
<1>1. PICK c \in 1 .. 127 : c = Code(k)
  BY KeyCodes
<1>2. CASE k \in Plain
  <2>1. Make[k] = <<c>> /\ Len(Make[k]) = 1
    BY <1>1, <1>2, PlainMakes
  <2>2. PICK b \in 0 .. 255 : b = c + 128
    BY <1>1
  <2>3. SubSeq(<<c>>, 1, 0) = <<>>
    BY SubSeqEmpty
  <2>4. Break(k) = <<b>>
    <3>1. Break(k) = SubSeq(<<c>>, 1, 0) \o <<b>>
      BY <2>1, <2>2 DEF Break
    <3>2. <<b>> \in Seq(0 .. 255)
      OBVIOUS
    <3> QED
      BY <2>3, <3>1, <3>2, ConcatEmptySeq
  <2>5. IsOf(<<c>>, k, c)
    BY <2>1 DEF IsOf
  <2>6. IsOf(<<b>>, k, b)
    BY <2>1 DEF IsOf
  <2> QED
    BY <1>1, <2>1, <2>2, <2>4, <2>5, <2>6
<1>3. CASE k \in Prefixed
  <2>1. Make[k] = <<224, c>> /\ Len(Make[k]) = 2
    BY <1>1, <1>3, PrefixedMakes
  <2>2. PICK b \in 0 .. 255 : b = c + 128
    BY <1>1
  <2>3. SubSeq(<<224, c>>, 1, 1) = << 224 >> /\ << 224 >> \o <<b>> = <<224, b>>
    <3>1. PICK x \in Nat : x = 224
      OBVIOUS
    <3>2. b \in Nat /\ c \in Nat
      OBVIOUS
    <3>3. SubSeq(<<x, c>>, 1, 1) = <<x>>
      BY <3>2, TwoMembers
    <3>4. <<x>> \o <<b>> = <<x, b>>
      BY <3>2, TwoMembers
    <3> QED
      BY <3>1, <3>3, <3>4
  <2>4. Break(k) = <<224, b>>
    <3>1. Make[k][2] = c /\ 2 - 1 = 1
      BY <2>1
    <3>2. Break(k) = SubSeq(<<224, c>>, 1, 1) \o <<b>>
      BY <2>1, <2>2, <3>1 DEF Break
    <3> QED
      BY <2>3, <3>2
  <2>5. IsOf(<<224, c>>, k, c)
    BY <2>1 DEF IsOf
  <2>6. IsOf(<<224, b>>, k, b)
    BY <2>1 DEF IsOf
  <2> QED
    BY <1>1, <2>1, <2>2, <2>4, <2>5, <2>6
<1> QED
  BY <1>2, <1>3

LEMMA MaybeFake ==
    ASSUME NEW s, NEW w, NEW m \in Nat, NEW d, NEW e \in Decoder, e.prev = 0, Leads(s, w, m, d, e),
           NEW n \in {0, 2},
           n = 2 => /\ w[m + 1].code = 224 /\ ~w[m + 1].ends /\ w[m + 2].code \in {42, 170}
                    /\ w[m + 2].ends => e.shift = BitsOf(w[m + 2].held),
           NEW j, j = m + n
    PROVE  Leads(s, w, j, d, e)
<1>1. CASE n = 0
  BY <1>1
<1>2. CASE n = 2
  <2>1. Leads(s, w, m + 2, d, e)
    BY <1>2, FakeLeads
  <2> QED
    BY <1>2, <2>1
<1> QED
  BY <1>1, <1>2

-----------------------------------------------------------------------------

\* Where all bytes lead, if n events were sent and h is held.
Final(h, n) == [prev |-> 0, shift |-> BitsOf(h), n |-> n]

LEMMA FinalType ==
    ASSUME NEW h, NEW n \in Nat
    PROVE  Final(h, n) \in Decoder /\ Final(h, n).prev = 0 /\ Final(h, n).n = n /\ Final(h, n).shift = BitsOf(h)
<1>1. BitsOf(h) \in SUBSET Shifts
  BY DEF BitsOf, KeyBit, Modifiers, Shifts
<1> QED
  BY <1>1 DEF Final, Decoder, Prefix

\* t is s and one more event; v is w, that is m bytes, and the bytes q.
Longer(s, t, x) ==
    /\ t \in Seq(KeyEvent) /\ Len(t) = Len(s) + 1 /\ t[Len(s) + 1] = x
    /\ \A i \in 1 .. Len(s) : t[i] = s[i]

LEMMA LongerBy ==
    ASSUME NEW s \in Seq(KeyEvent), NEW x \in KeyEvent
    PROVE  Longer(s, Append(s, x), x)
  BY DEF Longer

\* j is i places behind m.
Place(m, i, j) == j = m + i
Within(o, n, c) == o + n <= c

LEMMA ByteBehind ==
    ASSUME NEW v, NEW m \in Nat, NEW q, NEW l \in Nat, NEW g, Behind(v, m, q, l, g),
           NEW i \in 1 .. l, NEW j, Place(m, i, j)
    PROVE  v[j].code = q[i] /\ v[j].held = g
  BY DEF Behind, Place

LEMMA GoesOn ==
    ASSUME NEW v, NEW m \in Nat, NEW q, NEW l \in Nat, NEW g, Behind(v, m, q, l, g),
           NEW i \in 1 .. l, i # l, NEW j, Place(m, i, j)
    PROVE  ~v[j].ends
  BY DEF Behind, Place

LEMMA EndsBehind ==
    ASSUME NEW v, NEW m \in Nat, NEW q, NEW l \in Nat, NEW g, Behind(v, m, q, l, g),
           l # 0, NEW j, Place(m, l, j)
    PROVE  v[j].ends
  BY DEF Behind, Place

LEMMA LeadsLonger ==
    ASSUME NEW s \in Seq(KeyEvent), NEW t, NEW x, Longer(s, t, x),
           NEW w, NEW v, NEW m \in Nat, \A i \in 1 .. m : v[i] = w[i],
           NEW d, NEW e, Leads(s, w, m, d, e)
    PROVE  Leads(t, v, m, d, e)
<1>1. Len(t) \in Nat /\ Len(s) <= Len(t) /\ \A i \in 1 .. Len(s) : t[i] = s[i]
  BY DEF Longer
<1> QED
  BY <1>1, LeadsStill

FakeBytes(q, o, n) == n = 2 => q[o + 1] = 224 /\ q[o + 2] \in {42, 170}
KeyBytes(q, o, l, b) == q[o + l] = b /\ (l = 2 => q[o + 1] = 224)

LEMMA Sequences ==
    ASSUME NEW p \in Seq(0 .. 255), NEW r \in Seq(0 .. 255),
           NEW n \in Nat, Counts(p, n), NEW l \in Nat, Counts(r, l), NEW q, Joined(p, r, q),
           NEW a, Place(n, l, a)
    PROVE  /\ q \in Seq(0 .. 255) /\ Counts(q, a)
           /\ \A i \in 1 .. n : q[i] = p[i]
           /\ \A i \in 1 .. l : q[n + i] = r[i]
<1>0. n = Len(p) /\ l = Len(r) /\ q = p \o r /\ a = n + l
  BY DEF Counts, Joined, Place
<1>1. /\ q \in Seq(0 .. 255) /\ Len(q) = n + l
      /\ \A i \in 1 .. n + l : q[i] = IF i <= n THEN p[i] ELSE r[i - n]
  BY <1>0, ConcatProperties
<1>2. ASSUME NEW i \in 1 .. n PROVE q[i] = p[i]
  BY <1>1
<1>3. ASSUME NEW i \in 1 .. l PROVE q[n + i] = r[i]
  <2>1. PICK j : j = n + i
    OBVIOUS
  <2>2. j \in 1 .. n + l /\ ~(j <= n) /\ j - n = i
    BY <2>1
  <2> QED
    BY <1>1, <2>1, <2>2
<1> QED
  BY <1>0, <1>1, <1>2, <1>3 DEF Counts

LEMMA FakeThenKey ==
    ASSUME NEW k, NEW fake \in FakeShift(k), NEW p, NEW b, IsOf(p, k, b),
           NEW n \in {0, 2}, Counts(fake, n), NEW l \in {1, 2}, Counts(p, l),
           NEW q, Joined(fake, p, q), NEW a, Place(n, l, a)
    PROVE  /\ q \in Seq(0 .. 255) /\ Counts(q, a)
           /\ FakeBytes(q, 0, n) /\ KeyBytes(q, n, l, b)
<1>2. fake \in Seq(0 .. 255) /\ p \in Seq(0 .. 255)
  BY FakeShifts DEF IsOf
<1>3. /\ q \in Seq(0 .. 255) /\ Counts(q, a)
      /\ \A i \in 1 .. n : q[i] = fake[i]
      /\ \A i \in 1 .. l : q[n + i] = p[i]
  BY <1>2, Sequences
<1>4. FakeBytes(q, 0, n)
  <2> SUFFICES ASSUME n = 2 PROVE q[1] = 224 /\ q[2] \in {42, 170}
    BY DEF FakeBytes
  <2>1. Len(fake) = 2
    BY DEF Counts
  <2>2. fake[1] = 224 /\ fake[2] \in {42, 170}
    BY <2>1, FakeShifts
  <2> QED
    BY <1>3, <2>2
<1>5. KeyBytes(q, n, l, b)
  <2>1. p[l] = b /\ (l = 2 => p[1] = 224)
    BY DEF IsOf, Counts
  <2>2. l \in 1 .. l /\ 1 \in 1 .. l
    OBVIOUS
  <2> QED
    BY <1>3, <2>1, <2>2 DEF KeyBytes
<1> QED
  BY <1>3, <1>4, <1>5

LEMMA KeyThenFake ==
    ASSUME NEW k, NEW fake \in FakeShift(k), NEW p, NEW b, IsOf(p, k, b),
           NEW n \in {0, 2}, Counts(fake, n), NEW l \in {1, 2}, Counts(p, l),
           NEW q, Joined(p, fake, q), NEW a, Place(l, n, a)
    PROVE  /\ q \in Seq(0 .. 255) /\ Counts(q, a)
           /\ FakeBytes(q, l, n) /\ KeyBytes(q, 0, l, b)
<1>2. fake \in Seq(0 .. 255) /\ p \in Seq(0 .. 255)
  BY FakeShifts DEF IsOf
<1>3. /\ q \in Seq(0 .. 255) /\ Counts(q, a)
      /\ \A i \in 1 .. l : q[i] = p[i]
      /\ \A i \in 1 .. n : q[l + i] = fake[i]
  BY <1>2, Sequences
<1>4. FakeBytes(q, l, n)
  <2> SUFFICES ASSUME n = 2 PROVE q[l + 1] = 224 /\ q[l + 2] \in {42, 170}
    BY DEF FakeBytes
  <2>1. Len(fake) = 2
    BY DEF Counts
  <2>2. fake[1] = 224 /\ fake[2] \in {42, 170}
    BY <2>1, FakeShifts
  <2> QED
    BY <1>3, <2>2
<1>5. KeyBytes(q, 0, l, b)
  <2>1. p[l] = b /\ (l = 2 => p[1] = 224)
    BY DEF IsOf, Counts
  <2>2. l \in 1 .. l /\ 1 \in 1 .. l
    OBVIOUS
  <2> QED
    BY <1>3, <2>1, <2>2 DEF KeyBytes
<1> QED
  BY <1>3, <1>4, <1>5

\* A hidden shift of n bytes behind m, and a key behind i that ends at j.
Hides(v, m, n, g) ==
    n = 2 => /\ v[m + 1].code = 224 /\ ~v[m + 1].ends
             /\ v[m + 2].code \in {42, 170} /\ v[m + 2].held = g
Tells(v, i, j, b, g) ==
    /\ v[j].code = b /\ v[j].held = g
    /\ j # i + 1 => v[i + 1].code = 224 /\ ~v[i + 1].ends

LEMMA HidesBehind ==
    ASSUME NEW v, NEW m \in Nat, NEW q, NEW c \in Nat, NEW g, Behind(v, m, q, c, g),
           NEW o \in Nat, NEW n \in {0, 2}, Within(o, n, c), FakeBytes(q, o, n), NEW i \in Nat, Place(m, o, i)
    PROVE  Hides(v, i, n, g)
<1> SUFFICES ASSUME n = 2
             PROVE  /\ v[i + 1].code = 224 /\ ~v[i + 1].ends
                    /\ v[i + 2].code \in {42, 170} /\ v[i + 2].held = g
  BY DEF Hides
<1>1. PICK a, b : a = o + 1 /\ b = o + 2
  OBVIOUS
<1>2. a \in 1 .. c /\ b \in 1 .. c /\ a # c /\ Place(m, a, i + 1) /\ Place(m, b, i + 2)
  BY <1>1 DEF Place, Within
<1>3. q[a] = 224 /\ q[b] \in {42, 170}
  BY <1>1 DEF FakeBytes
<1>4. v[i + 1].code = q[a] /\ v[i + 2].code = q[b] /\ v[i + 2].held = g
  BY <1>2, ByteBehind
<1>5. ~v[i + 1].ends
  BY <1>2, GoesOn
<1> QED
  BY <1>3, <1>4, <1>5

LEMMA TellsBehind ==
    ASSUME NEW v, NEW m \in Nat, NEW q, NEW c \in Nat, NEW g, Behind(v, m, q, c, g),
           NEW o \in Nat, NEW l \in {1, 2}, Within(o, l, c), NEW b, KeyBytes(q, o, l, b),
           NEW i \in Nat, Place(m, o, i), NEW j \in Nat, Place(i, l, j)
    PROVE  Tells(v, i, j, b, g)
<1>1. PICK a : a = o + l
  OBVIOUS
<1>2. a \in 1 .. c /\ Place(m, a, j)
  BY <1>1 DEF Place, Within
<1>3. q[a] = b
  BY <1>1 DEF KeyBytes
<1>4. v[j].code = q[a] /\ v[j].held = g
  BY <1>2, ByteBehind
<1>5. ASSUME j # i + 1 PROVE v[i + 1].code = 224 /\ ~v[i + 1].ends
  <2>1. PICK d : d = o + 1
    OBVIOUS
  <2>2. d \in 1 .. c /\ d # c /\ Place(m, d, i + 1)
    BY <1>5, <2>1 DEF Place, Within
  <2>3. q[d] = 224
    <3>1. l = 2
      BY <1>5 DEF Place
    <3> QED
      BY <2>1, <3>1 DEF KeyBytes
  <2>4. v[i + 1].code = q[d]
    BY <2>2, ByteBehind
  <2>5. ~v[i + 1].ends
    BY <2>2, GoesOn
  <2> QED
    BY <2>3, <2>4, <2>5
<1> QED
  BY <1>3, <1>4, <1>5 DEF Tells

-----------------------------------------------------------------------------

LEMMA EventsOf ==
    ASSUME NEW k \in Plain \cup Prefixed
    PROVE  /\ EventOf(Make[k], TRUE) = [code |-> Code(k), down |-> TRUE]
           /\ EventOf(Break(k), FALSE) = [code |-> Code(k) + 128, down |-> FALSE]
           /\ [code |-> Code(k), down |-> TRUE] \in KeyEvent
           /\ [code |-> Code(k) + 128, down |-> FALSE] \in KeyEvent
           /\ Code(k) \in 1 .. 127
<1>1. EventOf(Make[k], TRUE) = [code |-> Code(k), down |-> TRUE]
  BY MakeBreak DEF IsOf, EventOf
<1>2. EventOf(Break(k), FALSE) = [code |-> Code(k) + 128, down |-> FALSE]
  BY MakeBreak DEF IsOf, EventOf
<1>3. PICK c \in 1 .. 127 : c = Code(k)
  BY KeyCodes
<1>4. [code |-> c, down |-> TRUE] \in KeyEvent
  BY DEF KeyEvent
<1>5. [code |-> c + 128, down |-> FALSE] \in KeyEvent
  BY DEF KeyEvent
<1> QED
  BY <1>1, <1>2, <1>3, <1>4, <1>5

\* The event number u is that of a key with code c.
Due(t, u, c, b) == u \in 1 .. Len(t) /\ t[u] = [code |-> c, down |-> b]

LEMMA ToldPress ==
    ASSUME NEW t, NEW u \in Nat, NEW c \in 1 .. 127, NEW o \in Nat, Place(u, 1, o), Due(t, o, c, TRUE),
           NEW k, NEW e, e.n = u, NEW g, After(e.shift, k, c) = BitsOf(g), k \in g,
           NEW v, NEW i, NEW j, Tells(v, i, j, c, g), v[j].ends
    PROVE  Told(t, e, k, c, v[j])
<1>1. e.n + 1 \in 1 .. Len(t) /\ t[e.n + 1] = [code |-> c, down |-> TRUE]
  BY DEF Due, Place
<1>2. v[j].code = c /\ v[j].held = g
  BY DEF Tells
<1>3. (c < 128) = TRUE
  OBVIOUS
<1> QED
  BY <1>1, <1>2, <1>3 DEF Told

LEMMA ToldRelease ==
    ASSUME NEW t, NEW u \in Nat, NEW c \in 129 .. 255, NEW o \in Nat, Place(u, 1, o), Due(t, o, c, FALSE),
           NEW k, NEW e, e.n = u, NEW g, After(e.shift, k, c) = BitsOf(g),
           NEW v, NEW i, NEW j, Tells(v, i, j, c, g)
    PROVE  Told(t, e, k, c, v[j])
<1>1. e.n + 1 \in 1 .. Len(t) /\ t[e.n + 1] = [code |-> c, down |-> FALSE]
  BY DEF Due, Place
<1>2. v[j].code = c /\ v[j].held = g
  BY DEF Tells
<1>3. (c < 128) = FALSE
  OBVIOUS
<1> QED
  BY <1>1, <1>2, <1>3 DEF Told

Pressed(h, k, g) == g = h \cup {k}
Released(h, k, g) == g = h \ {k}

\* The first m bytes lead from d to u events and g held.
To(t, v, m, d, g, u) == Leads(t, v, m, d, Final(g, u))

Coded(k, c) == c = Code(k)
Broken(k, c) == c = Code(k) + 128
Sized(k, l) == l = BytesOf(k)

\* The a bytes q: those of the key k behind n that hide shift, or before them.
PressIs(k, c, q, n, l, a) ==
    /\ k \in Plain \cup Prefixed /\ a \in Nat
    /\ c \in 1 .. 127 /\ Coded(k, c) /\ l \in {1, 2} /\ Sized(k, l)
    /\ n \in {0, 2} /\ Place(n, l, a) /\ FakeBytes(q, 0, n) /\ KeyBytes(q, n, l, c)
ReleaseIs(k, c, q, n, l, a) ==
    /\ k \in Plain \cup Prefixed /\ a \in Nat
    /\ c \in 129 .. 255 /\ Broken(k, c) /\ l \in {1, 2} /\ Sized(k, l)
    /\ n \in {0, 2} /\ Place(l, n, a) /\ FakeBytes(q, l, n) /\ KeyBytes(q, 0, l, c)

PressDue(t, u, o, c) == Place(u, 1, o) /\ Due(t, o, c, TRUE)
ReleaseDue(t, u, o, c) == Place(u, 1, o) /\ Due(t, o, c, FALSE)

LEMMA PressSteps ==
    ASSUME NEW k, NEW c, NEW n, NEW l, NEW a, NEW q,
           PressIs(k, c, q, n, l, a), NEW m \in Nat, NEW z \in Nat, Place(m, a, z),
           NEW v, NEW h, NEW g, Pressed(h, k, g), Behind(v, m, q, a, g),
           NEW u \in Nat, NEW o \in Nat, NEW t, PressDue(t, u, o, c),
           NEW d, To(t, v, m, d, h, u)
    PROVE  To(t, v, z, d, g, o)
<1> USE DEF PressIs, PressDue
<1>0. PICK e : e = Final(h, u)
  OBVIOUS
<1>1. e \in Decoder /\ e.prev = 0 /\ e.n = u /\ e.shift = BitsOf(h) /\ Leads(t, v, m, d, e)
  BY <1>0, FinalType DEF To
<1>2. Hides(v, m, n, g) /\ (n = 2 => ~v[m + 2].ends)
  <2>1. PICK x \in Nat : x = 0
    OBVIOUS
  <2>2. FakeBytes(q, x, n)
    BY <2>1
  <2>3. Within(x, n, a) /\ Place(m, x, m)
    BY <2>1 DEF Place, Within
  <2>4. Hides(v, m, n, g)
    BY <2>2, <2>3, HidesBehind
  <2>5. ASSUME n = 2 PROVE ~v[m + 2].ends
    <3>1. 2 \in 1 .. a /\ 2 # a /\ Place(m, 2, m + 2)
      BY <2>5 DEF Place
    <3> QED
      BY <3>1, GoesOn
  <2> QED
    BY <2>4, <2>5
<1>3. PICK i \in Nat : i = m + n
  OBVIOUS
<1>4. Leads(t, v, i, d, e)
  <2>1. n = 2 => /\ v[m + 1].code = 224 /\ ~v[m + 1].ends /\ v[m + 2].code \in {42, 170}
                 /\ v[m + 2].ends => e.shift = BitsOf(v[m + 2].held)
    BY <1>2 DEF Hides
  <2> QED
    BY <1>1, <1>3, <2>1, MaybeFake
<1>5. z = i + l
  BY <1>3 DEF Place
<1>6. Tells(v, i, z, c, g) /\ v[z].ends
  <2>1. PICK x \in Nat : x = n
    OBVIOUS
  <2>2. KeyBytes(q, x, l, c)
    BY <2>1
  <2>3. Within(x, l, a) /\ Place(m, x, i) /\ Place(i, l, z) /\ Place(m, a, z) /\ a # 0
    BY <1>3, <1>5, <2>1 DEF Place, Within
  <2>4. z \in Nat
    OBVIOUS
  <2>5. Tells(v, i, z, c, g)
    BY <2>2, <2>3, <2>4, TellsBehind
  <2>6. v[z].ends
    BY <2>3, EndsBehind
  <2> QED
    BY <2>5, <2>6
<1>7. After(e.shift, k, c) = BitsOf(g)
  <2>1. c < 128
    OBVIOUS
  <2> QED
    BY <1>1, <2>1, BitsTold DEF After, Pressed, Released
<1>8. Told(t, e, k, c, v[z])
  <2>1. k \in g
    BY DEF Pressed
  <2> QED
    BY <1>1, <1>6, <1>7, <2>1, ToldPress
<1>9. PICK f : f = AfterKey(e, k, c)
  OBVIOUS
<1>10. Leads(t, v, z, d, f)
  <2>1. c \in {Code(k), Code(k) + 128} /\ l = BytesOf(k)
    BY DEF Coded, Sized
  <2>2. z # i + 1 => v[i + 1].code = 224 /\ ~v[i + 1].ends
    BY <1>6 DEF Tells
  <2> QED
    BY <1>1, <1>4, <1>5, <1>8, <1>9, <2>1, <2>2, KeyLeads
<1>11. f = Final(g, o)
  BY <1>1, <1>7, <1>9 DEF AfterKey, Final, Place
<1> QED
  BY <1>10, <1>11 DEF To

LEMMA ReleaseSteps ==
    ASSUME NEW k, NEW c, NEW n, NEW l, NEW a, NEW q,
           ReleaseIs(k, c, q, n, l, a), NEW m \in Nat, NEW z \in Nat, Place(m, a, z),
           NEW v, NEW h, NEW g, Released(h, k, g), Behind(v, m, q, a, g),
           NEW u \in Nat, NEW o \in Nat, NEW t, ReleaseDue(t, u, o, c),
           NEW d, To(t, v, m, d, h, u)
    PROVE  To(t, v, z, d, g, o)
<1> USE DEF ReleaseIs, ReleaseDue
<1>0. PICK e : e = Final(h, u)
  OBVIOUS
<1>1. e \in Decoder /\ e.prev = 0 /\ e.n = u /\ e.shift = BitsOf(h) /\ Leads(t, v, m, d, e)
  BY <1>0, FinalType DEF To
<1>2. PICK i \in Nat : i = m + l
  OBVIOUS
<1>3. Tells(v, m, i, c, g)
  <2>1. PICK x \in Nat : x = 0
    OBVIOUS
  <2>2. KeyBytes(q, x, l, c)
    BY <2>1
  <2>3. Within(x, l, a) /\ Place(m, x, m) /\ Place(m, l, i) /\ x \in Nat /\ i \in Nat
    BY <1>2, <2>1 DEF Place, Within
  <2> QED
    BY <2>2, <2>3, TellsBehind
<1>4. After(e.shift, k, c) = BitsOf(g)
  <2>1. ~(c < 128)
    OBVIOUS
  <2> QED
    BY <1>1, <2>1, BitsTold DEF After, Pressed, Released
<1>5. Told(t, e, k, c, v[i])
  BY <1>1, <1>3, <1>4, ToldRelease
<1>6. PICK f : f = AfterKey(e, k, c)
  OBVIOUS
<1>7. Leads(t, v, i, d, f)
  <2>1. c \in {Code(k), Code(k) + 128} /\ l = BytesOf(k)
    BY DEF Broken, Sized
  <2>2. i # m + 1 => v[m + 1].code = 224 /\ ~v[m + 1].ends
    BY <1>3 DEF Tells
  <2> QED
    BY <1>1, <1>2, <1>5, <1>6, <2>1, <2>2, KeyLeads
<1>8. f = Final(g, o)
  BY <1>1, <1>4, <1>6 DEF AfterKey, Final, Place
<1>9. f \in Decoder /\ f.prev = 0 /\ f.shift = BitsOf(g)
  <2>1. o \in Nat
    OBVIOUS
  <2> QED
    BY <1>8, <2>1, FinalType
<1>10. Hides(v, i, n, g)
  <2>1. PICK x \in Nat : x = l
    OBVIOUS
  <2>2. FakeBytes(q, x, n)
    BY <2>1
  <2>3. Within(x, n, a) /\ Place(m, x, i)
    BY <1>2, <2>1 DEF Place, Within
  <2> QED
    BY <2>2, <2>3, HidesBehind
<1>11. Leads(t, v, z, d, f)
  <2>1. n = 2 => /\ v[i + 1].code = 224 /\ ~v[i + 1].ends /\ v[i + 2].code \in {42, 170}
                 /\ v[i + 2].ends => f.shift = BitsOf(v[i + 2].held)
    BY <1>9, <1>10 DEF Hides
  <2>2. z = i + n
    BY <1>2 DEF Place
  <2> QED
    BY <1>2, <1>7, <1>9, <2>1, <2>2, MaybeFake
<1> QED
  BY <1>8, <1>11 DEF To

-----------------------------------------------------------------------------

\* One half of Pause: E1, 1D, 45, or the same with the bit for releasing.
HalfAt(v, m, a, b, g) ==
    /\ v[m + 1].code = 225 /\ ~v[m + 1].ends
    /\ v[m + 2].code = a /\ ~v[m + 2].ends
    /\ v[m + 3].code = b /\ v[m + 3].held = g

\* The event number o is that of the byte b.
DueByte(t, o, b) == Due(t, o, b, b < 128)

LEMMA HalfSteps ==
    ASSUME NEW t, NEW v, NEW m \in Nat, NEW d, NEW g, NEW u \in Nat, To(t, v, m, d, g, u),
           NEW a \in {29, 157}, NEW b \in {69, 197}, HalfAt(v, m, a, b, g),
           NEW l \in Nat, Place(m, 3, l),
           NEW o \in Nat, Place(u, 1, o), DueByte(t, o, b)
    PROVE  To(t, v, l, d, g, o)
<1>1. PICK e : e = Final(g, u)
  OBVIOUS
<1>2. e \in Decoder /\ e.prev = 0 /\ e.n = u /\ e.shift = BitsOf(g) /\ Leads(t, v, m, d, e)
  BY <1>1, FinalType DEF To
<1> DEFINE f == [prev |-> 225, shift |-> e.shift, n |-> e.n]
<1> DEFINE h == [prev |-> E1_1D, shift |-> e.shift, n |-> e.n]
<1>5. /\ f \in Decoder /\ f.prev = 225 /\ f.shift = e.shift /\ f.n = e.n
      /\ h \in Decoder /\ h.prev = E1_1D /\ h.shift = e.shift /\ h.n = e.n
  BY <1>2 DEF Decoder, Prefix
<1>3. f = [prev |-> 225, shift |-> e.shift, n |-> e.n] /\ h = [prev |-> E1_1D, shift |-> e.shift, n |-> e.n]
  OBVIOUS
<1> HIDE DEF f, h
<1>6. PICK i \in Nat, j \in Nat : i = m + 1 /\ j = m + 2 /\ j = i + 1 /\ l = j + 1
  BY DEF Place
<1>7. v[i].code = 225 /\ ~v[i].ends /\ v[j].code = a /\ ~v[j].ends /\ v[l].code = b /\ v[l].held = g
  BY <1>6 DEF HalfAt, Place
<1>8. Leads(t, v, i, d, f)
  BY <1>2, <1>3, <1>6, <1>7, PrefixLeads
<1>9. Leads(t, v, j, d, h)
  <2>1. Keycode(225, a) = 0 /\ NextPrefix(225, a) = E1_1D /\ a \notin Replies /\ a \in 0 .. 255
    BY DEF Keycode, NextPrefix, Replies, KBD_REPLY_ACK, KBD_REPLY_RESEND, E1_1D
  <2>2. Decode(f, a) = h /\ ~Completes(f, a)
    BY <1>3, <1>5, <2>1, DecodeUnfinished, SMTT(30)
  <2>3. Right(t, f, v[j])
    BY <1>5, <1>7, <2>1, <2>2 DEF Right, E0_DEL
  <2> QED
    BY <1>5, <1>6, <1>7, <1>8, <2>1, <2>2, <2>3, LeadsOn
<1>10. Leads(t, v, l, d, Final(g, o))
  <2>1. b % 128 = 69 /\ b \notin {0, 255, 224, 225, 250, 254, 29, 157}
    OBVIOUS
  <2>2. Keycode(E1_1D, b) = E1_PAUSE /\ NextPrefix(E1_1D, b) = 0 /\ b \notin Replies /\ b \in 0 .. 255
    BY <2>1 DEF Keycode, NextPrefix, Replies, KBD_REPLY_ACK, KBD_REPLY_RESEND, E1_1D
  <2>3. E1_PAUSE # 0 /\ E1_PAUSE \notin DOMAIN ShiftBit /\ E1_PAUSE # E0_DEL
    BY DEF E1_PAUSE, ShiftBit, E0_DEL
  <2>4. Completes(h, b)
    BY <1>5, <2>2, <2>3 DEF Completes
  <2>5. Decode(h, b) = Final(g, o)
    BY <1>2, <1>5, <2>2, <2>3, <2>4 DEF Decode, ShiftAfter, Final, Place
  <2>6. Decode(h, b).prev = 0 /\ Decode(h, b).shift = BitsOf(g)
    BY <2>5, FinalType
  <2>7. h.n + 1 \in 1 .. Len(t) /\ t[h.n + 1] = [code |-> b, down |-> b < 128]
    BY <1>2, <1>5 DEF DueByte, Due, Place
  <2>8. Right(t, h, v[l])
    BY <1>5, <1>7, <2>2, <2>3, <2>6, <2>7 DEF Right
  <2>9. v[l].code \in 0 .. 255 /\ Final(g, o) = Decode(h, v[l].code)
    BY <1>7, <2>2, <2>5
  <2> QED
    BY <1>5, <1>6, <1>9, <2>8, <2>9, LeadsOn
<1> QED
  BY <1>10 DEF To

PauseBytes(q) == q[1] = 225 /\ q[2] = 29 /\ q[3] = 69 /\ q[4] = 225 /\ q[5] = 157 /\ q[6] = 197

LEMMA HalvesBehind ==
    ASSUME NEW v, NEW m \in Nat, NEW q, NEW g, Behind(v, m, q, 6, g), PauseBytes(q),
           NEW l \in Nat, Place(m, 3, l)
    PROVE  HalfAt(v, m, 29, 69, g) /\ HalfAt(v, l, 157, 197, g)
<1>1. ASSUME NEW i \in 1 .. 6 PROVE v[m + i].code = q[i] /\ v[m + i].held = g
  BY DEF Behind
<1>2. ASSUME NEW i \in 1 .. 5 PROVE ~v[m + i].ends
  BY SMTT(20) DEF Behind
<1>3. l + 1 = m + 4 /\ l + 2 = m + 5 /\ l + 3 = m + 6
  BY DEF Place
<1>4. /\ v[m + 1].code = 225 /\ ~v[m + 1].ends
      /\ v[m + 2].code = 29 /\ ~v[m + 2].ends
      /\ v[m + 3].code = 69 /\ v[m + 3].held = g
  BY <1>1, <1>2 DEF PauseBytes
<1>5. /\ v[m + 4].code = 225 /\ ~v[m + 4].ends
      /\ v[m + 5].code = 157 /\ ~v[m + 5].ends
      /\ v[m + 6].code = 197 /\ v[m + 6].held = g
  BY <1>1, <1>2 DEF PauseBytes
<1> QED
  BY <1>3, <1>4, <1>5 DEF HalfAt

LEMMA PauseSteps ==
    ASSUME NEW v, NEW m \in Nat, NEW z \in Nat, Place(m, 6, z), NEW q, NEW g, Behind(v, m, q, 6, g),
           PauseBytes(q), NEW u \in Nat, NEW o \in Nat, Place(u, 1, o), NEW p \in Nat, Place(o, 1, p),
           NEW t, Due(t, o, 69, TRUE), Due(t, p, 197, FALSE), NEW d, To(t, v, m, d, g, u)
    PROVE  To(t, v, z, d, g, p)
<1>1. PICK l \in Nat : Place(m, 3, l) /\ Place(l, 3, z)
  BY DEF Place
<1>2. HalfAt(v, m, 29, 69, g) /\ HalfAt(v, l, 157, 197, g)
  BY <1>1, HalvesBehind
<1>3. To(t, v, l, d, g, o)
  <2>1. (69 < 128) = TRUE
    OBVIOUS
  <2>2. DueByte(t, o, 69)
    BY <2>1, Zenon DEF DueByte
  <2> QED
    BY <1>1, <1>2, <2>2, HalfSteps
<1>4. To(t, v, z, d, g, p)
  <2>1. (197 < 128) = FALSE
    OBVIOUS
  <2>2. DueByte(t, p, 197)
    BY <2>1, Zenon DEF DueByte
  <2> QED
    BY <1>1, <1>2, <1>3, <2>2, HalfSteps
<1> QED
  BY <1>4

-----------------------------------------------------------------------------

\* Another event, and a press or release of k by the bytes q.
LEMMA OneMore ==
    ASSUME NEW s \in Seq(KeyEvent), NEW t, NEW x, Longer(s, t, x),
           NEW w \in Seq(Byte), NEW m \in Nat, Counts(w, m), NEW u \in Nat, Counts(s, u),
           NEW v, \A i \in 1 .. m : v[i] = w[i],
           NEW h, NEW d, To(s, w, m, d, h, u)
    PROVE  To(t, v, m, d, h, u)
  BY LeadsLonger DEF To

LEMMA NextDue ==
    ASSUME NEW s \in Seq(KeyEvent), NEW t, NEW c, NEW b, Longer(s, t, [code |-> c, down |-> b]),
           NEW u \in Nat, Counts(s, u), NEW o, Place(u, 1, o)
    PROVE  Due(t, o, c, b) /\ Counts(t, o) /\ t \in Seq(KeyEvent)
  BY DEF Longer, Due, Counts, Place

\* The bytes on the wire lead from d to what the keyboard has told in the end.
Reaches(s, w, d, h) == To(s, w, Len(w), d, h, Len(s))

LEMMA ReachesAt ==
    ASSUME NEW s, NEW w, NEW d, NEW h, NEW m, Counts(w, m), NEW u, Counts(s, u)
    PROVE  Reaches(s, w, d, h) <=> To(s, w, m, d, h, u)
  BY DEF Reaches, Counts

LEMMA StillDue ==
    ASSUME NEW r, NEW t, NEW x, Longer(r, t, x), Len(r) \in Nat, NEW o, NEW c, NEW b, Due(r, o, c, b)
    PROVE  Due(t, o, c, b)
  BY DEF Longer, Due

LEMMA KeyPressed ==
    ASSUME NEW s \in Seq(KeyEvent), NEW w \in Seq(Byte), NEW h \in SUBSET DOMAIN Make,
           NEW k \in Plain \cup Prefixed, NEW fake \in FakeShift(k), NEW d, Reaches(s, w, d, h),
           NEW t, Longer(s, t, [code |-> Code(k), down |-> TRUE]),
           NEW g \in SUBSET DOMAIN Make, Pressed(h, k, g), NEW q, Joined(fake, Make[k], q), NEW v, Wires(w, q, g, v)
    PROVE  v \in Seq(Byte) /\ Reaches(t, v, d, g)
<1>1. PICK c \in 1 .. 127 : Coded(k, c)
  BY EventsOf DEF Coded
<1>2. Longer(s, t, [code |-> c, down |-> TRUE])
  BY <1>1 DEF Coded
<1>3. PICK n \in {0, 2} : Counts(fake, n)
  BY FakeShifts DEF Counts
<1>4. PICK l \in {1, 2} : Sized(k, l) /\ Counts(Make[k], l) /\ IsOf(Make[k], k, c)
  BY <1>1, MakeBreak DEF IsOf, Coded, Counts, Sized, BytesOf
<1>6. PICK a \in Nat : Place(n, l, a)
  BY DEF Place
<1>7. q \in Seq(0 .. 255) /\ Counts(q, a) /\ FakeBytes(q, 0, n) /\ KeyBytes(q, n, l, c)
  BY <1>3, <1>4, <1>6, FakeThenKey
<1>8. PICK m \in Nat, u \in Nat : Counts(w, m) /\ Counts(s, u)
  BY DEF Counts
<1>9. PICK z \in Nat, o \in Nat : Place(m, a, z) /\ Place(u, 1, o)
  BY DEF Place
<1>11. v \in Seq(Byte) /\ (\A i \in 1 .. m : v[i] = w[i]) /\ Behind(v, m, q, a, g)
  BY <1>6, <1>7, <1>8, Wired
<1>12. To(s, w, m, d, h, u)
  BY <1>8, ReachesAt
<1>13. To(t, v, m, d, h, u)
  BY <1>2, <1>8, <1>11, <1>12, OneMore
<1>14. Due(t, o, c, TRUE) /\ Counts(t, o)
  BY <1>2, <1>8, <1>9, NextDue
<1>15. PressIs(k, c, q, n, l, a)
  BY <1>1, <1>3, <1>4, <1>6, <1>7 DEF PressIs
<1>18. PressDue(t, u, o, c)
  BY <1>9, <1>14 DEF PressDue
<1>16. To(t, v, z, d, g, o)
  BY <1>8, <1>9, <1>11, <1>13, <1>15, <1>18, PressSteps
<1>17. Counts(v, z)
  BY <1>9, <1>11 DEF Behind, Counts, Place
<1> QED
  BY <1>11, <1>14, <1>16, <1>17, ReachesAt

LEMMA KeyReleased ==
    ASSUME NEW s \in Seq(KeyEvent), NEW w \in Seq(Byte), NEW h \in SUBSET DOMAIN Make,
           NEW k \in Plain \cup Prefixed, NEW fake \in FakeShift(k), NEW d, Reaches(s, w, d, h),
           NEW t, Longer(s, t, [code |-> Code(k) + 128, down |-> FALSE]),
           NEW g \in SUBSET DOMAIN Make, Released(h, k, g), NEW q, Joined(Break(k), fake, q), NEW v, Wires(w, q, g, v)
    PROVE  v \in Seq(Byte) /\ Reaches(t, v, d, g)
<1>1. PICK c \in 129 .. 255 : Broken(k, c)
  <2>1. PICK x \in 1 .. 127 : x = Code(k)
    BY EventsOf
  <2>2. x + 128 \in 129 .. 255
    OBVIOUS
  <2> QED
    BY <2>1, <2>2 DEF Broken
<1>2. Longer(s, t, [code |-> c, down |-> FALSE])
  BY <1>1 DEF Broken
<1>3. PICK n \in {0, 2} : Counts(fake, n)
  BY FakeShifts DEF Counts
<1>4. PICK l \in {1, 2} : Sized(k, l) /\ Counts(Break(k), l) /\ IsOf(Break(k), k, c)
  BY <1>1, MakeBreak DEF IsOf, Broken, Counts, Sized, BytesOf
<1>6. PICK a \in Nat : Place(l, n, a)
  BY DEF Place
<1>7. q \in Seq(0 .. 255) /\ Counts(q, a) /\ FakeBytes(q, l, n) /\ KeyBytes(q, 0, l, c)
  BY <1>3, <1>4, <1>6, KeyThenFake
<1>8. PICK m \in Nat, u \in Nat : Counts(w, m) /\ Counts(s, u)
  BY DEF Counts
<1>9. PICK z \in Nat, o \in Nat : Place(m, a, z) /\ Place(u, 1, o)
  BY DEF Place
<1>11. v \in Seq(Byte) /\ (\A i \in 1 .. m : v[i] = w[i]) /\ Behind(v, m, q, a, g)
  BY <1>6, <1>7, <1>8, Wired
<1>12. To(s, w, m, d, h, u)
  BY <1>8, ReachesAt
<1>13. To(t, v, m, d, h, u)
  BY <1>2, <1>8, <1>11, <1>12, OneMore
<1>14. Due(t, o, c, FALSE) /\ Counts(t, o)
  BY <1>2, <1>8, <1>9, NextDue
<1>15. ReleaseIs(k, c, q, n, l, a)
  BY <1>1, <1>3, <1>4, <1>6, <1>7 DEF ReleaseIs
<1>18. ReleaseDue(t, u, o, c)
  BY <1>9, <1>14 DEF ReleaseDue
<1>16. To(t, v, z, d, g, o)
  BY <1>8, <1>9, <1>11, <1>13, <1>15, <1>18, ReleaseSteps
<1>17. Counts(v, z)
  BY <1>9, <1>11 DEF Behind, Counts, Place
<1> QED
  BY <1>11, <1>14, <1>16, <1>17, ReachesAt

LEMMA PausePressed ==
    ASSUME NEW s \in Seq(KeyEvent), NEW w \in Seq(Byte), NEW g \in SUBSET DOMAIN Make,
           NEW d, Reaches(s, w, d, g),
           NEW r, Longer(s, r, [code |-> 69, down |-> TRUE]),
           NEW t, Longer(r, t, [code |-> 197, down |-> FALSE]),
           NEW v, Wires(w, <<225, 29, 69, 225, 157, 197>>, g, v)
    PROVE  v \in Seq(Byte) /\ Reaches(t, v, d, g)
<1>1. PICK q \in Seq(0 .. 255) : Counts(q, 6) /\ PauseBytes(q) /\ Wires(w, q, g, v)
  <2>1. /\ <<225, 29, 69, 225, 157, 197>> \in Seq(0 .. 255)
        /\ Counts(<<225, 29, 69, 225, 157, 197>>, 6)
        /\ PauseBytes(<<225, 29, 69, 225, 157, 197>>)
    BY DEF Counts, PauseBytes
  <2> QED
    BY <2>1
<1>2. PICK m \in Nat, u \in Nat : Counts(w, m) /\ Counts(s, u)
  BY DEF Counts
<1>3. PICK z \in Nat, o \in Nat, p \in Nat : Place(m, 6, z) /\ Place(u, 1, o) /\ Place(o, 1, p)
  BY DEF Place
<1>4. v \in Seq(Byte) /\ (\A i \in 1 .. m : v[i] = w[i]) /\ Behind(v, m, q, 6, g)
  BY <1>1, <1>2, Wired, ZenonT(20)
<1>5. Due(r, o, 69, TRUE) /\ Counts(r, o) /\ r \in Seq(KeyEvent)
  BY <1>2, <1>3, NextDue
<1>6. Due(t, p, 197, FALSE) /\ Counts(t, p)
  BY <1>3, <1>5, NextDue, ZenonT(20)
<1>7. Due(t, o, 69, TRUE)
  <2>1. Len(r) \in Nat
    BY <1>5
  <2>2. Due(r, o, 69, TRUE)
    BY <1>5
  <2> QED
    BY <2>1, <2>2, StillDue
<1>8. To(s, w, m, d, g, u)
  BY <1>2, ReachesAt
<1>9. To(r, v, m, d, g, u)
  BY <1>2, <1>4, <1>8, OneMore
<1>10. To(t, v, m, d, g, u)
  <2>1. Len(t) \in Nat /\ Len(r) <= Len(t) /\ \A i \in 1 .. Len(r) : t[i] = r[i]
    BY <1>5 DEF Longer
  <2> QED
    BY <1>5, <1>9, <2>1, LeadsStill DEF To
<1>11. To(t, v, z, d, g, p)
  BY <1>1, <1>3, <1>4, <1>6, <1>7, <1>10, PauseSteps
<1>12. Counts(v, z)
  BY <1>3, <1>4 DEF Behind, Counts, Place
<1> QED
  BY <1>4, <1>6, <1>11, <1>12, ReachesAt

-----------------------------------------------------------------------------
(* The leds *)

Command == [cmd : {"none", "SET_LEDS", "argument", "ENABLE"}, arg : SUBSET {1, 2, 4}]
Call == [code : 0 .. 255, no : 1 .. 3, data : Command, retries : Nat]

\* What each of the three send_data() of a setleds() sends.
InOrder(c) ==
    /\ c.no = 1 => c.data = SetLeds
    /\ c.no = 2 => c.data.cmd = "argument"
    /\ c.no = 3 => c.data = Enable

\* The leds are right and no command is under way that would change them.
Settled == leds = led_state /\ ~ledsNext /\ port.cmd # "SET_LEDS"

\* What the keyboard needs to know will reach it with the next byte.
Coming(c) ==
    /\ c.data = Leds(led_state)
    /\ \/ port = SetLeds
       \/ ledsNext /\ (port = Nothing \/ port = Leds(led_state))
Underway == ledsNext /\ port = Leds(led_state)

\* An argument that is left over from a setleds() that was interrupted by another
\* one may be out of date, but the keyboard does not expect it.
LedsRight ==
    /\ calls = <<>> => Settled
    /\ calls # <<>> => /\ Frame.no = 2 => Settled \/ Coming(Frame)
                       /\ Frame.no = 3 => Settled \/ Underway

LedsTypes ==
    /\ led_state \in SUBSET {1, 2, 4} /\ leds \in SUBSET {1, 2, 4}
    /\ ledsNext \in BOOLEAN /\ nacked \in BOOLEAN /\ port \in Command
    /\ calls \in Seq(Call) /\ \A i \in 1 .. Len(calls) : InOrder(calls[i])

LedsInv == LedsTypes /\ (nacked \/ LedsRight)

ledsVars == <<led_state, leds, ledsNext, nacked, port, calls>>

LEMMA Commands ==
    /\ {SetLeds, Enable, Nothing} \subseteq Command
    /\ \A s \in SUBSET {1, 2, 4} : Leds(s) \in Command /\ Leds(s).cmd = "argument" /\ Leds(s).arg = s
    /\ SetLeds.cmd = "SET_LEDS" /\ Enable.cmd = "ENABLE" /\ Nothing.cmd = "none"
    /\ \A p \in Command : p.cmd \in {"none", "SET_LEDS", "argument", "ENABLE"} /\ p.arg \in SUBSET {1, 2, 4}
  BY DEF Command, SetLeds, Enable, Nothing, Leds

LEMMA LedsInit == KeyboardInit => LedsInv
<1> SUFFICES ASSUME KeyboardInit PROVE LedsInv
  OBVIOUS
<1>1. FirstCall \in Call /\ InOrder(FirstCall) /\ FirstCall.no = 1
  BY KeyboardBoundsAssumption, Commands DEF FirstCall, Call, InOrder
<1>2. PICK c : c = FirstCall
  OBVIOUS
<1>3. calls = <<c>> /\ c \in Call /\ InOrder(c) /\ c.no = 1
  BY <1>1, <1>2 DEF KeyboardInit
<1>4. calls \in Seq(Call) /\ Len(calls) = 1 /\ calls[1] = c
  BY <1>3
<1>5. LedsTypes
  <2>1. \A i \in 1 .. Len(calls) : i = 1
    BY <1>4
  <2>2. \A i \in 1 .. Len(calls) : InOrder(calls[i])
    BY <1>3, <1>4, <2>1
  <2> QED
    BY <1>4, <2>2, Commands DEF KeyboardInit, LedsTypes
<1>6. LedsRight
  BY <1>3, <1>4 DEF LedsRight, Frame
<1> QED
  BY <1>5, <1>6 DEF LedsInv

LEMMA LedsKept ==
    ASSUME LedsInv, UNCHANGED ledsVars
    PROVE  LedsInv'
  BY DEF LedsInv, LedsTypes, LedsRight, Settled, Coming, Underway, Frame, ledsVars

\* The innermost call is one of the stack, and can be replaced or taken off.
LEMMA FrameFacts ==
    ASSUME LedsTypes, calls # <<>>
    PROVE  /\ Len(calls) \in Nat \ {0} /\ Frame \in Call /\ InOrder(Frame)
           /\ Frame.no \in 1 .. 3 /\ Frame.data \in Command /\ Frame.retries \in Nat /\ Frame.code \in 0 .. 255
<1>1. calls \in Seq(Call) /\ Len(calls) \in Nat \ {0} /\ Len(calls) \in 1 .. Len(calls)
  BY EmptySeq DEF LedsTypes
<1>2. Frame \in Call /\ InOrder(Frame)
  BY <1>1 DEF LedsTypes, Frame
<1> QED
  BY <1>1, <1>2 DEF Call

LEMMA Replaced ==
    ASSUME LedsTypes, calls # <<>>, NEW f \in Call, InOrder(f), calls' = Return(f)
    PROVE  /\ calls' \in Seq(Call) /\ calls' # <<>> /\ Len(calls') = Len(calls) /\ Frame' = f
           /\ \A i \in 1 .. Len(calls') : InOrder(calls'[i])
<1>1. calls \in Seq(Call) /\ Len(calls) \in 1 .. Len(calls) /\ Len(calls) \in Nat
  BY FrameFacts DEF LedsTypes
<1>2. /\ calls' \in Seq(Call) /\ Len(calls') = Len(calls)
      /\ \A j \in 1 .. Len(calls) : calls'[j] = IF j = Len(calls) THEN f ELSE calls[j]
  BY <1>1, ExceptSeq DEF Return
<1>3. Frame' = f /\ \A i \in 1 .. Len(calls') : InOrder(calls'[i])
  BY <1>1, <1>2 DEF Frame, LedsTypes
<1>4. calls' # <<>>
  BY <1>1, <1>2
<1> QED
  BY <1>2, <1>3, <1>4

LEMMA Pushed ==
    ASSUME LedsTypes, NEW f \in Call, InOrder(f), calls' = Append(calls, f)
    PROVE  /\ calls' \in Seq(Call) /\ calls' # <<>> /\ Frame' = f
           /\ \A i \in 1 .. Len(calls') : InOrder(calls'[i])
<1>1. calls \in Seq(Call) /\ Len(calls) \in Nat /\ Len(calls') = Len(calls) + 1
  BY DEF LedsTypes
<1>2. calls' \in Seq(Call) /\ calls' # <<>> /\ calls'[Len(calls) + 1] = f
  BY <1>1
<1>3. \A i \in 1 .. Len(calls) : calls'[i] = calls[i]
  BY <1>1
<1> QED
  BY <1>1, <1>2, <1>3 DEF Frame, LedsTypes

LEMMA Popped ==
    ASSUME LedsTypes, calls # <<>>, calls' = SubSeq(calls, 1, Len(calls) - 1)
    PROVE  /\ calls' \in Seq(Call) /\ Len(calls') = Len(calls) - 1
           /\ \A i \in 1 .. Len(calls') : calls'[i] = calls[i] /\ InOrder(calls'[i])
<1>1. calls \in Seq(Call) /\ Len(calls) \in Nat \ {0}
  BY FrameFacts DEF LedsTypes
<1>2. PICK n \in Nat : n = Len(calls) - 1
  BY <1>1
<1>3. Len(calls) = n + 1 /\ \A i \in 1 .. n : i \in 1 .. Len(calls) /\ calls[i] \in Call
  BY <1>1, <1>2
<1>4. /\ calls' \in Seq(Call) /\ Len(calls') = n
      /\ \A i \in 1 .. n : calls'[i] = calls[i]
  BY <1>1, <1>2, <1>3
<1> QED
  BY <1>2, <1>3, <1>4 DEF LedsTypes

LEMMA LedsTakes ==
    ASSUME LedsInv, KeyboardTakes
    PROVE  LedsInv'
<1>1. LedsTypes /\ port \in Command /\ port.arg \in SUBSET {1, 2, 4} /\ port # Nothing
  BY Commands DEF LedsInv, LedsTypes, KeyboardTakes
<1>2. port' = Nothing /\ UNCHANGED <<led_state, calls>>
  BY DEF KeyboardTakes, driverVars
<1>3. LedsTypes'
  BY <1>1, <1>2, Commands DEF LedsTypes, KeyboardTakes
<1>4. CASE nacked'
  BY <1>3, <1>4 DEF LedsInv
<1>5. CASE ~nacked'
  <2>1. ~nacked
    BY <1>5 DEF KeyboardTakes
  <2>2. LedsRight
    BY <2>1 DEF LedsInv
  <2>3. CASE /\ port.cmd # "argument" \/ ledsNext
             /\ ledsNext' = (port.cmd = "SET_LEDS")
             /\ leds' = IF port.cmd = "argument" THEN port.arg ELSE leds
    <3>1. ASSUME Settled PROVE Settled'
      BY <1>1, <1>2, <2>3, <3>1, Commands DEF Settled
    <3>2. ASSUME NEW c, Coming(c) PROVE Settled' \/ Coming(c)'
      <4>1. CASE port = SetLeds
        BY <1>2, <2>3, <3>2, <4>1, Commands DEF Coming
      <4>2. CASE port = Leds(led_state)
        BY <1>1, <1>2, <2>3, <4>2, Commands DEF Settled, LedsTypes
      <4> QED
        BY <1>1, <3>2, <4>1, <4>2 DEF Coming
    <3>3. ASSUME Underway PROVE Settled'
      BY <1>1, <1>2, <2>3, <3>3, Commands DEF Settled, Underway, LedsTypes
    <3> QED
      BY <1>2, <1>3, <2>2, <3>1, <3>2, <3>3 DEF LedsInv, LedsRight, Frame
  <2>4. CASE port.cmd = "argument" /\ ~ledsNext /\ UNCHANGED <<leds, ledsNext>>
    <3>1. ASSUME Settled PROVE Settled'
      BY <1>2, <2>4, <3>1, Commands DEF Settled
    <3>2. ASSUME NEW c, Coming(c) PROVE FALSE
      BY <2>4, <3>2, Commands DEF Coming
    <3> QED
      BY <1>2, <1>3, <2>2, <2>4, <3>1, <3>2 DEF LedsInv, LedsRight, Frame, Underway
  <2> QED
    BY <1>5, <2>3, <2>4 DEF KeyboardTakes
<1> QED
  BY <1>4, <1>5

\* A byte is sent: what is known before.
LEMMA LedsSending ==
    ASSUME LedsInv, SendByte
    PROVE  /\ LedsTypes /\ calls # <<>> /\ port = Nothing /\ port' = Frame.data
           /\ UNCHANGED <<led_state, leds, ledsNext, nacked>>
           /\ nacked \/ Frame.no = 1 \/ Settled \/ (Frame.no = 2 /\ ledsNext /\ Frame.data = Leds(led_state))
           /\ Frame \in Call /\ InOrder(Frame) /\ port' \in Command
<1>1. /\ LedsTypes /\ calls # <<>> /\ port = Nothing /\ port' = Frame.data
      /\ UNCHANGED <<led_state, leds, ledsNext, nacked>>
  BY DEF LedsInv, SendByte, historyVars
<1>2. Frame \in Call /\ InOrder(Frame) /\ Frame.no \in 1 .. 3 /\ Frame.data \in Command
  BY <1>1, FrameFacts
<1>3. ASSUME LedsRight
      PROVE  Frame.no = 1 \/ Settled \/ (Frame.no = 2 /\ ledsNext /\ Frame.data = Leds(led_state))
  <2>1. ~Underway /\ port # SetLeds
    BY <1>1, Commands DEF Underway, LedsTypes
  <2> QED
    BY <1>1, <1>2, <1>3, <2>1 DEF LedsRight, Coming
<1> QED
  BY <1>1, <1>2, <1>3 DEF LedsInv

LEMMA LedsSendAgain ==
    ASSUME LedsInv, SendAgain
    PROVE  LedsInv'
<1>1. SendByte
  BY DEF SendAgain
<1>2. /\ LedsTypes /\ calls # <<>> /\ port = Nothing /\ port' = Frame.data
      /\ UNCHANGED <<led_state, leds, ledsNext, nacked>>
      /\ nacked \/ Frame.no = 1 \/ Settled \/ (Frame.no = 2 /\ ledsNext /\ Frame.data = Leds(led_state))
      /\ Frame \in Call /\ InOrder(Frame) /\ port' \in Command
  BY <1>1, LedsSending
<1>3. PICK k : k = Frame.retries - 1
  OBVIOUS
<1>4. k \in Nat
  BY <1>2, <1>3, FrameFacts DEF SendAgain
<1>5. PICK f : f = [Frame EXCEPT !.retries = k]
  OBVIOUS
<1>6. f \in Call /\ InOrder(f) /\ f.no = Frame.no /\ f.data = Frame.data /\ f.no \in 1 .. 3
  BY <1>2, <1>4, <1>5 DEF Call, InOrder
<1>7. calls' = Return(f)
  BY <1>3, <1>5 DEF SendAgain
<1>8. /\ calls' \in Seq(Call) /\ calls' # <<>> /\ Frame' = f
      /\ \A i \in 1 .. Len(calls') : InOrder(calls'[i])
  BY <1>2, <1>6, <1>7, Replaced
<1>9. LedsTypes'
  BY <1>2, <1>8 DEF LedsTypes
<1>10. ASSUME ~nacked PROVE LedsRight'
  <2>1. CASE f.no = 1
    BY <1>8, <2>1 DEF LedsRight
  <2>2. CASE f.no # 1 /\ Settled
    <3>1. port'.cmd # "SET_LEDS"
      BY <1>2, <1>6, <2>2, Commands DEF InOrder
    <3> QED
      BY <1>2, <1>8, <2>2, <3>1 DEF LedsRight, Settled
  <2>3. CASE f.no = 2 /\ ledsNext /\ Frame.data = Leds(led_state)
    BY <1>2, <1>6, <1>8, <2>3 DEF LedsRight, Coming
  <2> QED
    BY <1>2, <1>6, <1>10, <2>1, <2>2, <2>3
<1> QED
  BY <1>2, <1>9, <1>10 DEF LedsInv

LEMMA LedsSendNext ==
    ASSUME LedsInv, SendNext
    PROVE  LedsInv'
<1>1. SendByte
  BY DEF SendNext
<1>2. /\ LedsTypes /\ calls # <<>> /\ port = Nothing /\ port' = Frame.data
      /\ UNCHANGED <<led_state, leds, ledsNext, nacked>>
      /\ nacked \/ Frame.no = 1 \/ Settled \/ (Frame.no = 2 /\ ledsNext /\ Frame.data = Leds(led_state))
      /\ Frame \in Call /\ InOrder(Frame) /\ port' \in Command
  BY <1>1, LedsSending
<1>3. PICK c \in Call : c = Frame /\ c.no \in {1, 2}
  BY <1>2 DEF SendNext, Call
<1>4. PICK d : d = IF c.no = 1 THEN Leds(led_state) ELSE Enable
  OBVIOUS
<1>5. PICK f : f = [code |-> c.code, no |-> c.no + 1, retries |-> RETRIES, data |-> d]
  OBVIOUS
<1>6. d \in Command
  BY <1>2, <1>4, Commands DEF LedsTypes
<1>7. f \in Call /\ InOrder(f) /\ f.no = c.no + 1 /\ f.data = d
  BY <1>2, <1>3, <1>4, <1>5, <1>6, KeyboardBoundsAssumption, Commands DEF Call, InOrder, LedsTypes
<1>8. calls' = Return(f)
  BY <1>3, <1>4, <1>5 DEF SendNext
<1>9. /\ calls' \in Seq(Call) /\ calls' # <<>> /\ Frame' = f
      /\ \A i \in 1 .. Len(calls') : InOrder(calls'[i])
  BY <1>2, <1>7, <1>8, Replaced
<1>10. LedsTypes'
  BY <1>2, <1>9 DEF LedsTypes
<1>11. ASSUME ~nacked PROVE LedsRight'
  <2>1. CASE c.no = 1
    <3>1. f.no = 2 /\ port' = SetLeds /\ d = Leds(led_state')
      BY <1>2, <1>3, <1>4, <1>7, <2>1 DEF InOrder
    <3> QED
      BY <1>7, <1>9, <3>1 DEF LedsRight, Coming
  <2>2. CASE c.no = 2
    <3>1. f.no = 3 /\ port'.cmd = "argument"
      BY <1>2, <1>3, <1>7, <2>2 DEF InOrder
    <3>2. Settled' \/ Underway'
      BY <1>2, <1>3, <1>11, <2>2, <3>1, Commands DEF Settled, Underway
    <3> QED
      BY <1>9, <3>1, <3>2 DEF LedsRight
  <2> QED
    BY <1>3, <2>1, <2>2
<1> QED
  BY <1>2, <1>10, <1>11 DEF LedsInv

LEMMA LedsSendLast ==
    ASSUME LedsInv, SendLast
    PROVE  LedsInv'
<1>1. SendByte
  BY DEF SendLast
<1>2. /\ LedsTypes /\ calls # <<>> /\ port = Nothing /\ port' = Frame.data
      /\ UNCHANGED <<led_state, leds, ledsNext, nacked>>
      /\ nacked \/ Frame.no = 1 \/ Settled \/ (Frame.no = 2 /\ ledsNext /\ Frame.data = Leds(led_state))
      /\ Frame \in Call /\ InOrder(Frame) /\ port' \in Command
  BY <1>1, LedsSending
<1>3. Frame.no = 3 /\ calls' = SubSeq(calls, 1, Len(calls) - 1)
  BY DEF SendLast
<1>4. /\ calls' \in Seq(Call) /\ \A i \in 1 .. Len(calls') : InOrder(calls'[i])
  BY <1>2, <1>3, Popped
<1>5. LedsTypes'
  BY <1>2, <1>4 DEF LedsTypes
<1>6. ASSUME ~nacked PROVE LedsRight'
  <2>1. port' = Enable
    BY <1>2, <1>3 DEF InOrder
  <2>2. Settled'
    BY <1>2, <1>3, <1>6, <2>1, Commands DEF Settled
  <2> QED
    BY <2>2 DEF LedsRight
<1> QED
  BY <1>2, <1>5, <1>6 DEF LedsInv

LEMMA LedsReadLock ==
    ASSUME LedsInv, ReadLock, Head(wire).code \in 0 .. 255
    PROVE  LedsInv'
<1>1. PICK b \in 0 .. 255 : b = Head(wire).code
  OBVIOUS
<1>2. PICK keycode : keycode = Keycode(prev_scancode, b)
  OBVIOUS
<1>3. /\ UNCHANGED <<port, leds, ledsNext, nacked>> /\ keycode \in DOMAIN LedBit
      /\ led_state' = IF LedBit[keycode] \in led_state THEN led_state \ {LedBit[keycode]}
                      ELSE led_state \cup {LedBit[keycode]}
      /\ calls' = Append(calls, [FirstCall EXCEPT !.code = b])
  BY <1>1, <1>2 DEF ReadLock, ReadKeycode, ReadByte
<1>4. PICK f : f = [FirstCall EXCEPT !.code = b]
  OBVIOUS
<1>5. f \in Call /\ InOrder(f) /\ f.no = 1
  BY <1>4, KeyboardBoundsAssumption, Commands DEF FirstCall, Call, InOrder
<1>6. LedsTypes /\ calls' = Append(calls, f)
  BY <1>3, <1>4 DEF LedsInv
<1>7. /\ calls' \in Seq(Call) /\ calls' # <<>> /\ Frame' = f
      /\ \A i \in 1 .. Len(calls') : InOrder(calls'[i])
  BY <1>5, <1>6, Pushed
<1>8. LedBit[keycode] \in {1, 2, 4}
  BY <1>3 DEF LedBit
<1>9. led_state' \in SUBSET {1, 2, 4}
  BY <1>3, <1>6, <1>8 DEF LedsTypes
<1>10. LedsTypes'
  BY <1>3, <1>6, <1>7, <1>9 DEF LedsTypes
<1> QED
  BY <1>5, <1>7, <1>10 DEF LedsInv, LedsRight

-----------------------------------------------------------------------------
(* Types *)

WireTypes ==
    /\ wire \in Seq(Byte) /\ sent \in Seq(KeyEvent)
    /\ held \in SUBSET (DOMAIN Make \ {"pause"}) /\ owed \in {0} \cup Replies
    /\ prev_scancode \in Prefix /\ shift_state \in SUBSET Shifts /\ shift_state2 = Merged(shift_state)

wireVars == <<wire, sent, held, owed, prev_scancode, shift_state, shift_state2>>

LEMMA WireInit == KeyboardInit => WireTypes
<1>1. Merged({}) = {}
  BY DEF Merged
<1> QED
  BY <1>1 DEF KeyboardInit, WireTypes, Prefix

LEMMA WireKept ==
    ASSUME WireTypes, UNCHANGED wireVars
    PROVE  WireTypes'
  BY DEF WireTypes, wireVars

LEMMA HeadByte ==
    ASSUME WireTypes, wire # <<>>
    PROVE  /\ Head(wire) \in Byte /\ Head(wire).code \in 0 .. 255 /\ Head(wire).ends \in BOOLEAN
           /\ Tail(wire) \in Seq(Byte)
<1>1. Head(wire) \in Byte /\ Tail(wire) \in Seq(Byte)
  BY HeadTailProperties DEF WireTypes
<1> QED
  BY <1>1 DEF Byte

\* A key that is held can be told by itself.
LEMMA HeldKeys ==
    ASSUME NEW k \in DOMAIN Make, k # "pause"
    PROVE  k \in Plain \cup Prefixed
  BY KeyKinds

LEMMA OneAdded ==
    ASSUME NEW E, NEW s \in Seq(E), NEW x \in E
    PROVE  Append(s, x) \in Seq(E) /\ s \o <<x>> = Append(s, x)
<1>1. <<x>> \in Seq(E) /\ Len(<<x>>) = 1 /\ <<x>>[1] = x /\ Len(s) \in Nat
  OBVIOUS
<1>2. PICK t, r : t = s \o <<x>> /\ r = Append(s, x)
  OBVIOUS
<1>3. t \in Seq(E) /\ r \in Seq(E) /\ Len(t) = Len(s) + 1 /\ Len(r) = Len(s) + 1
  BY <1>1, <1>2, ConcatProperties, AppendProperties
<1>4. ASSUME NEW i \in 1 .. Len(s) + 1 PROVE t[i] = r[i]
  <2>1. CASE i = Len(s) + 1
    <3>1. ~(i <= Len(s)) /\ i - Len(s) = 1
      BY <1>1, <2>1
    <3> QED
      BY <1>1, <1>2, <2>1, <3>1, ConcatProperties, AppendProperties
  <2>2. CASE i \in 1 .. Len(s)
    BY <1>1, <1>2, <2>2, ConcatProperties, AppendProperties
  <2> QED
    BY <1>1, <2>1, <2>2
<1>5. t = r
  BY <1>3, <1>4, SeqEqual
<1> QED
  BY <1>2, <1>3, <1>5

LEMMA TwoAdded ==
    ASSUME NEW E, NEW s \in Seq(E), NEW x \in E, NEW y \in E
    PROVE  Append(Append(s, x), y) \in Seq(E) /\ s \o <<x, y>> = Append(Append(s, x), y)
<1>1. <<x>> \in Seq(E) /\ <<y>> \in Seq(E) /\ Append(s, x) \in Seq(E)
  BY OneAdded
<1>2. <<x, y>> = <<x>> \o <<y>>
  BY TwoMembers
<1>3. s \o (<<x>> \o <<y>>) = (s \o <<x>>) \o <<y>>
  BY <1>1, ConcatAssociative
<1> QED
  BY <1>1, <1>2, <1>3, OneAdded

TwoMore(s, x, y, t) == t = s \o <<x, y>>

LEMMA TwoLonger ==
    ASSUME NEW s \in Seq(KeyEvent), NEW x \in KeyEvent, NEW y \in KeyEvent, NEW t, TwoMore(s, x, y, t)
    PROVE  t \in Seq(KeyEvent) /\ \E r : Longer(s, r, x) /\ Longer(r, t, y)
<1>1. PICK r : r = Append(s, x)
  OBVIOUS
<1>2. r \in Seq(KeyEvent)
  BY <1>1, OneAdded
<1>3. t = Append(r, y)
  BY <1>1, TwoAdded DEF TwoMore
<1>4. t \in Seq(KeyEvent)
  BY <1>2, <1>3, OneAdded
<1>5. Longer(s, r, x)
  BY <1>1, LongerBy
<1>6. Longer(r, t, y)
  BY <1>2, <1>3, LongerBy
<1> QED
  BY <1>4, <1>5, <1>6

LEMMA PauseMakes ==
    /\ Make["pause"] = <<225, 29, 69, 225, 157, 197>>
    /\ <<225, 29, 69, 225, 157, 197>> \in Seq(0 .. 255)
    /\ EventOf(<< 69 >>, TRUE) = [code |-> 69, down |-> TRUE]
    /\ EventOf(<< 197 >>, FALSE) = [code |-> 197, down |-> FALSE]
    /\ [code |-> 69, down |-> TRUE] \in KeyEvent
    /\ [code |-> 197, down |-> FALSE] \in KeyEvent
<1>1. Make["pause"] = <<225, 29, 69, 225, 157, 197>>
  BY DEF Make, Modifiers
<1>2. <<225, 29, 69, 225, 157, 197>> \in Seq(0 .. 255)
  OBVIOUS
<1> QED
  BY <1>1, <1>2 DEF EventOf, KeyEvent

LEMMA PauseLonger ==
    ASSUME NEW s \in Seq(KeyEvent), NEW t, TwoMore(s, EventOf(<< 69 >>, TRUE), EventOf(<< 197 >>, FALSE), t)
    PROVE  \E r : Longer(s, r, EventOf(<< 69 >>, TRUE)) /\ Longer(r, t, EventOf(<< 197 >>, FALSE))
<1>1. PICK x, y : x = EventOf(<< 69 >>, TRUE) /\ y = EventOf(<< 197 >>, FALSE)
  OBVIOUS
<1>2. x \in KeyEvent /\ y \in KeyEvent
  BY <1>1, PauseMakes, Zenon
<1>3. TwoMore(s, x, y, t)
  BY <1>1, Zenon
<1>4. PICK r : Longer(s, r, x) /\ Longer(r, t, y)
  BY <1>2, <1>3, TwoLonger
<1> QED
  BY <1>1, <1>4, Zenon

LEMMA PressTypes ==
    ASSUME WireTypes, NEW k \in Key, Press(k)
    PROVE  WireTypes'
<1>1. k \in DOMAIN Make
  BY KeyAssumption
<1>2. UNCHANGED <<owed, prev_scancode, shift_state, shift_state2>>
  BY DEF Press, driverVars
<1>3. CASE k = "pause"
  <2>1. PICK fake \in FakeShift(k) : wire' = wire \o Bytes(fake \o Make[k], held')
    BY DEF Press
  <2>2. fake = <<>> /\ Make[k] = <<225, 29, 69, 225, 157, 197>> /\ held' = held
    BY <1>3, <2>1, PauseMakes DEF FakeShift, Press
  <2>3. PICK q \in Seq(0 .. 255) : q = Make[k]
    BY <1>3, PauseMakes
  <2>4. fake \o Make[k] = q
    BY <2>2, <2>3, ConcatEmptySeq
  <2>5. wire' \in Seq(Byte)
    <3>1. Wires(wire, q, held, wire')
      BY <2>1, <2>2, <2>4 DEF Wires
    <3>2. PICK m \in Nat, n \in Nat : Counts(wire, m) /\ Counts(q, n)
      BY <2>3 DEF Counts, WireTypes
    <3>3. wire \in Seq(Byte) /\ held \in SUBSET DOMAIN Make
      BY DEF WireTypes
    <3> QED
      BY <3>1, <3>2, <3>3, Wired
  <2>6. sent' \in Seq(KeyEvent)
    <3>1. sent' = sent \o <<EventOf(<< 69 >>, TRUE), EventOf(<< 197 >>, FALSE)>>
      BY <1>3 DEF Press
    <3>2. EventOf(<< 69 >>, TRUE) \in KeyEvent /\ EventOf(<< 197 >>, FALSE) \in KeyEvent
      BY PauseMakes
    <3>3. sent \in Seq(KeyEvent)
      BY DEF WireTypes
    <3>4. TwoMore(sent, EventOf(<< 69 >>, TRUE), EventOf(<< 197 >>, FALSE), sent')
      BY <3>1 DEF TwoMore
    <3> QED
      BY <3>2, <3>3, <3>4, TwoLonger
  <2> QED
    BY <1>2, <2>2, <2>5, <2>6 DEF WireTypes
<1>4. CASE k # "pause"
  <2>1. k \in Plain \cup Prefixed
    BY <1>1, <1>4, HeldKeys
  <2>2. PICK fake \in FakeShift(k) : wire' = wire \o Bytes(fake \o Make[k], held')
    BY DEF Press
  <2>3. held' \in SUBSET (DOMAIN Make \ {"pause"})
    BY <1>1, <1>4 DEF Press, WireTypes
  <2>4. PICK q : q = fake \o Make[k]
    OBVIOUS
  <2>5. q \in Seq(0 .. 255)
    BY <2>1, <2>4, FakeShifts, MakeBreak DEF IsOf
  <2>6. wire' \in Seq(Byte)
    <3>1. Wires(wire, q, held', wire')
      BY <2>2, <2>4 DEF Wires
    <3>2. PICK m \in Nat, n \in Nat : Counts(wire, m) /\ Counts(q, n)
      BY <2>5 DEF Counts, WireTypes
    <3>3. wire \in Seq(Byte) /\ held' \in SUBSET DOMAIN Make
      BY <2>3 DEF WireTypes
    <3> QED
      BY <2>5, <3>1, <3>2, <3>3, Wired
  <2>7. sent' \in Seq(KeyEvent)
    <3>1. sent' = sent \o <<EventOf(Make[k], TRUE)>>
      BY <1>4 DEF Press
    <3>2. EventOf(Make[k], TRUE) \in KeyEvent
      BY <2>1, EventsOf
    <3>3. sent \in Seq(KeyEvent)
      BY DEF WireTypes
    <3> QED
      BY <3>1, <3>2, <3>3, OneAdded
  <2> QED
    BY <1>2, <2>3, <2>6, <2>7 DEF WireTypes
<1> QED
  BY <1>3, <1>4

LEMMA ReleaseTypes ==
    ASSUME WireTypes, NEW k \in Key, Release(k)
    PROVE  WireTypes'
<1>1. k \in Plain \cup Prefixed
  BY HeldKeys DEF Release, WireTypes
<1>2. UNCHANGED <<owed, prev_scancode, shift_state, shift_state2>>
  BY DEF Release, driverVars
<1>3. PICK fake \in FakeShift(k) : wire' = wire \o Bytes(Break(k) \o fake, held')
  BY DEF Release
<1>4. held' \in SUBSET (DOMAIN Make \ {"pause"})
  BY DEF Release, WireTypes
<1>5. PICK q : q = Break(k) \o fake
  OBVIOUS
<1>6. q \in Seq(0 .. 255)
  BY <1>1, <1>5, FakeShifts, MakeBreak DEF IsOf
<1>7. wire' \in Seq(Byte)
  <2>1. Wires(wire, q, held', wire')
    BY <1>3, <1>5 DEF Wires
  <2>2. PICK m \in Nat, n \in Nat : Counts(wire, m) /\ Counts(q, n)
    BY <1>6 DEF Counts, WireTypes
  <2>3. wire \in Seq(Byte) /\ held' \in SUBSET DOMAIN Make
    BY <1>4 DEF WireTypes
  <2> QED
    BY <1>6, <2>1, <2>2, <2>3, Wired
<1>8. sent' \in Seq(KeyEvent)
  <2>1. EventOf(Break(k), FALSE) \in KeyEvent
    BY <1>1, EventsOf
  <2>2. sent \in Seq(KeyEvent) /\ sent' = Append(sent, EventOf(Break(k), FALSE))
    BY DEF Release, WireTypes
  <2> QED
    BY <2>1, <2>2, OneAdded
<1> QED
  BY <1>2, <1>4, <1>7, <1>8 DEF WireTypes

LEMMA KeyboardTypes ==
    ASSUME WireTypes, KeyboardTakes \/ KeyboardReplies
    PROVE  WireTypes'
<1>1. CASE KeyboardTakes
  <2>1. UNCHANGED <<wire, sent, held, prev_scancode, shift_state, shift_state2>>
    BY <1>1 DEF KeyboardTakes, driverVars
  <2>2. owed' \in Replies
    BY <1>1 DEF KeyboardTakes, Replies
  <2> QED
    BY <2>1, <2>2 DEF WireTypes
<1>2. CASE KeyboardReplies
  <2>1. UNCHANGED <<sent, held, prev_scancode, shift_state, shift_state2>> /\ owed' = 0
    BY <1>2 DEF KeyboardReplies, driverVars, historyVars
  <2>2. PICK b \in 0 .. 255 : b = owed
    BY DEF WireTypes, Replies, KBD_REPLY_ACK, KBD_REPLY_RESEND
  <2>3. PICK r : r = [code |-> b, ends |-> TRUE, held |-> held]
    OBVIOUS
  <2>4. r \in Byte
    BY <2>3 DEF Byte, WireTypes
  <2>5. wire' = Append(wire, r)
    BY <1>2, <2>2, <2>3 DEF KeyboardReplies
  <2>6. wire' \in Seq(Byte)
    BY <2>4, <2>5 DEF WireTypes
  <2> QED
    BY <2>1, <2>6 DEF WireTypes
<1> QED
  BY <1>1, <1>2

\* What the driver has made of the bytes, n events among them.
Driver(n) == [prev |-> prev_scancode, shift |-> shift_state, n |-> n]

LEMMA DriverType ==
    ASSUME WireTypes, NEW n \in Nat
    PROVE  Driver(n) \in Decoder /\ Driver(n).prev = prev_scancode /\ Driver(n).shift = shift_state /\ Driver(n).n = n
  BY DEF WireTypes, Driver, Decoder

ReadsKey == \E b, keycode : b = Head(wire).code /\ keycode = Keycode(prev_scancode, b) /\ ReadKeycode(b, keycode)

LEMMA ReadsKeys == ReadKey \/ ReadBoot \/ ReadLock => ReadsKey
  BY DEF ReadKey, ReadBoot, ReadLock, ReadsKey

LEMMA KeyDecoded ==
    ASSUME WireTypes, NEW n \in Nat, ReadsKey
    PROVE  /\ prev_scancode' = Decode(Driver(n), Head(wire).code).prev
           /\ shift_state' = Decode(Driver(n), Head(wire).code).shift
           /\ shift_state2' = Merged(shift_state')
<1>1. PICK b, keycode : b = Head(wire).code /\ keycode = Keycode(prev_scancode, b) /\ ReadKeycode(b, keycode)
  BY DEF ReadsKey
<1>2. /\ Decode(Driver(n), b).prev = NextPrefix(prev_scancode, b)
      /\ Decode(Driver(n), b).shift = IF keycode \notin DOMAIN ShiftBit THEN shift_state
              ELSE IF b < 128 THEN shift_state \cup {ShiftBit[keycode]} ELSE shift_state \ {ShiftBit[keycode]}
  BY <1>1 DEF Decode, Driver, ShiftAfter
<1> QED
  BY <1>1, <1>2 DEF ReadKeycode, SetShift, WireTypes

LEMMA PrefixDecoded ==
    ASSUME WireTypes, NEW n \in Nat, ReadPrefix
    PROVE  Decode(Driver(n), Head(wire).code) = Driver(n)' /\ UNCHANGED <<shift_state, shift_state2>>
<1>1. PICK b \in 0 .. 255 : b = Head(wire).code
  BY HeadByte DEF ReadPrefix, ReadByte
<1>2. /\ Keycode(prev_scancode, b) = 0 /\ prev_scancode' = NextPrefix(prev_scancode, b)
      /\ UNCHANGED <<shift_state, shift_state2>>
  BY <1>1 DEF ReadPrefix
<1>3. Decode(Driver(n), b) = [prev |-> NextPrefix(prev_scancode, b), shift |-> shift_state, n |-> n]
  BY <1>2, DriverType, DecodeUnfinished
<1> QED
  BY <1>1, <1>2, <1>3 DEF Driver

LEMMA ReadTypes ==
    ASSUME WireTypes, ReadReply \/ ReadPrefix \/ ReadKey \/ ReadBoot \/ ReadLock
    PROVE  WireTypes'
<1>1. ReadByte
  BY DEF ReadReply, ReadPrefix, ReadKey, ReadBoot, ReadLock, ReadKeycode
<1>2. wire' \in Seq(Byte) /\ UNCHANGED <<sent, held, owed>> /\ Head(wire).code \in 0 .. 255
  BY <1>1, HeadByte DEF ReadByte
<1>3. ASSUME NEW d \in Decoder, prev_scancode' = d.prev, shift_state' = d.shift, shift_state2' = Merged(shift_state')
      PROVE  WireTypes'
  BY <1>2, <1>3 DEF WireTypes, Decoder
<1>4. Decode(Driver(0), Head(wire).code) \in Decoder
  BY <1>2, DriverType, DecodeType
<1>5. CASE ReadReply
  BY <1>2, <1>5 DEF WireTypes, ReadReply
<1>6. CASE ReadPrefix
  <2>1. Driver(0)'.prev = prev_scancode' /\ Driver(0)'.shift = shift_state'
    BY DEF Driver
  <2> QED
    BY <1>3, <1>4, <1>6, <2>1, PrefixDecoded DEF WireTypes
<1>7. CASE ReadKey \/ ReadBoot \/ ReadLock
  BY <1>3, <1>4, <1>7, ReadsKeys, KeyDecoded
<1> QED
  BY <1>5, <1>6, <1>7

LEMMA SendTypes ==
    ASSUME WireTypes, SendByte
    PROVE  WireTypes'
  BY WireKept DEF SendByte, wireVars, historyVars

LEMMA ReaderTypes ==
    ASSUME WireTypes, ReadkeyRemove \/ ReadkeyLook \/ ReadkeySaved
    PROVE  WireTypes'
  BY WireKept DEF ReadkeyRemove, ReadkeyLook, ReadkeySaved, wireVars, driverVars, hardwareVars, historyVars

\* The steps, to split a proof by.
LEMMA Steps ==
    ASSUME [KeyboardNext]_keyboardVars
    PROVE  \/ \E k \in Key : Press(k)
           \/ \E k \in Key : Release(k)
           \/ KeyboardTakes \/ KeyboardReplies
           \/ ReadReply \/ ReadPrefix \/ ReadKey \/ ReadBoot \/ ReadLock
           \/ SendAgain \/ SendNext \/ SendLast
           \/ ReadkeyRemove \/ ReadkeyLook \/ ReadkeySaved
           \/ UNCHANGED keyboardVars
  BY DEF KeyboardNext, Handler

LEMMA Sends == SendAgain \/ SendNext \/ SendLast => SendByte
  BY DEF SendAgain, SendNext, SendLast

LEMMA TypesKept ==
    ASSUME WireTypes, [KeyboardNext]_keyboardVars
    PROVE  WireTypes'
<1>1. CASE UNCHANGED keyboardVars
  BY <1>1, WireKept DEF keyboardVars, wireVars, driverVars, hardwareVars, historyVars
<1> QED
  BY <1>1, Steps, Sends, PressTypes, ReleaseTypes, KeyboardTypes, ReadTypes, SendTypes, ReaderTypes

LEMMA Types == KeyboardSpec => []WireTypes
  BY WireInit, TypesKept, PTL DEF KeyboardSpec

-----------------------------------------------------------------------------

LEMMA LedsStep ==
    ASSUME LedsInv, WireTypes, [KeyboardNext]_keyboardVars
    PROVE  LedsInv'
<1>1. CASE \/ UNCHANGED keyboardVars \/ KeyboardReplies \/ ReadReply \/ ReadPrefix \/ ReadKey \/ ReadBoot
           \/ ReadkeyRemove \/ ReadkeyLook \/ ReadkeySaved
  <2>1. UNCHANGED ledsVars
    BY <1>1 DEF ledsVars, keyboardVars, driverVars, hardwareVars, historyVars, KeyboardReplies, ReadReply,
                ReadPrefix, ReadKey, ReadBoot, ReadKeycode, ReadByte, ReadkeyRemove, ReadkeyLook, ReadkeySaved
  <2> QED
    BY <2>1, LedsKept
<1>2. ASSUME NEW k \in Key, Press(k) \/ Release(k) PROVE LedsInv'
  <2>1. UNCHANGED ledsVars
    BY <1>2 DEF ledsVars, driverVars, Press, Release
  <2> QED
    BY <2>1, LedsKept
<1>3. CASE ReadLock
  <2>1. Head(wire).code \in 0 .. 255
    BY <1>3, HeadByte DEF ReadLock, ReadKeycode, ReadByte
  <2> QED
    BY <1>3, <2>1, LedsReadLock
<1> QED
  BY <1>1, <1>2, <1>3, Steps, LedsTakes, LedsSendAgain, LedsSendNext, LedsSendLast

LEMMA LedsAlways == KeyboardSpec => []LedsInv
  BY Types, LedsInit, LedsStep, PTL DEF KeyboardSpec

(***************************************************************************)
(* When all is quiet the leds of the keyboard are those of led_state,      *)
(* unless the keyboard has asked for a byte again: however often setleds() *)
(* was interrupted between its send_data() by another one, and whichever   *)
(* reply each of them took for its own.                                    *)
(***************************************************************************)
THEOREM LedsShown == KeyboardSpec => []LedsFollow
<1>1. LedsInv => LedsFollow
  BY DEF LedsInv, LedsRight, LedsFollow, AtRest, Settled
<1> QED
  BY <1>1, LedsAlways, PTL

-----------------------------------------------------------------------------
(* The driver's buffer *)

\* What keyb_insert() does with the event a byte makes.
LEMMA ByteEvent ==
    ASSUME NEW b \in 1 .. 255, NEW a \in BOOLEAN
    PROVE  [code |-> b, down |-> a] \in Event
  BY KeyAssumption DEF KeyEvent

LEMMA Inserts ==
    ASSUME NEW e \in Event, Insert(e)
    PROVE  [Next]_bufferVars
  BY DEF Insert, Next

LEMMA KeycodeOf ==
    ASSUME NEW p, NEW b, Keycode(p, b) # 0
    PROVE  b # 0
  BY DEF Keycode

LEMMA KeyInserted ==
    ASSUME WireTypes, ReadKey, NEW b, b = Head(wire).code
    PROVE  /\ [code |-> b, down |-> b < 128] \in Event /\ Insert([code |-> b, down |-> b < 128])
           /\ b \in 1 .. 255
<1>1. wire # <<>> /\ Keycode(prev_scancode, b) # 0 /\ Insert([code |-> b, down |-> b < 128])
  BY DEF ReadKey, ReadKeycode, ReadByte
<1>2. b \in 1 .. 255
  BY <1>1, HeadByte, KeycodeOf
<1>3. (b < 128) \in BOOLEAN
  OBVIOUS
<1> QED
  BY <1>1, <1>2, <1>3, ByteEvent

LEMMA LastInserted ==
    ASSUME LedsInv, SendLast, NEW c, c = Frame.code
    PROVE  /\ c \in 0 .. 255
           /\ c = 0 => UNCHANGED queueVars
           /\ c # 0 => /\ [code |-> c, down |-> FALSE] \in Event /\ Insert([code |-> c, down |-> FALSE])
                       /\ c \in 1 .. 255
<1>1. c \in 0 .. 255
  BY FrameFacts DEF LedsInv, SendLast, SendByte
<1>2. c # 0 => c \in 1 .. 255
  BY <1>1
<1> QED
  BY <1>1, <1>2, ByteEvent DEF SendLast

LEMMA BufferStep ==
    ASSUME LedsInv, WireTypes, [KeyboardNext]_keyboardVars
    PROVE  [Next]_bufferVars
<1>1. CASE \/ UNCHANGED keyboardVars \/ KeyboardTakes \/ KeyboardReplies
           \/ ReadReply \/ ReadPrefix \/ ReadBoot \/ ReadLock \/ SendAgain \/ SendNext
           \/ ReadkeyLook \/ ReadkeySaved
  BY <1>1 DEF keyboardVars, queueVars, KeyboardTakes, KeyboardReplies, ReadReply, ReadPrefix,
              ReadBoot, ReadLock, SendAgain, SendNext, ReadkeyLook, ReadkeySaved
<1>2. ASSUME NEW k \in Key, Press(k) \/ Release(k) PROVE UNCHANGED bufferVars
  BY <1>2 DEF queueVars, Press, Release
<1>3. CASE ReadKey
  BY <1>3, KeyInserted, Inserts
<1>4. CASE SendLast
  <2>1. PICK c : c = Frame.code
    OBVIOUS
  <2>2. CASE c = 0
    BY <1>4, <2>1, <2>2, LastInserted DEF queueVars
  <2>3. CASE c # 0
    BY <1>4, <2>1, <2>3, LastInserted, Inserts
  <2> QED
    BY <2>2, <2>3
<1>5. CASE ReadkeyRemove
  BY <1>5 DEF ReadkeyRemove, Next
<1> QED
  BY <1>1, <1>2, <1>3, <1>4, <1>5, Steps

(***************************************************************************)
(* Whatever the driver does to the buffer is keyb_insert() or              *)
(* keyb_remove(): what is proved of the buffer holds within the driver.    *)
(***************************************************************************)
THEOREM DriverBuffers == KeyboardSpec => Spec
<1>1. KeyboardInit => Init
  BY DEF KeyboardInit
<1> QED
  BY <1>1, BufferStep, LedsAlways, Types, PTL DEF KeyboardSpec, Spec

LEMMA BufferAlways == KeyboardSpec => []IInv
  BY DriverBuffers, Invariance, PTL

-----------------------------------------------------------------------------
(* The events in the buffer *)

\* The places of the members of C.
Counted(s, C) == {i \in DOMAIN s : s[i] \in C}

\* Those of a are those of s, up to n, in their order.
Catches(a, s, C, n) == Follows(a, Counted(a, C), s, Counted(s, C), n)

LEMMA CountedIn ==
    ASSUME NEW E, NEW s \in Seq(E), NEW C
    PROVE  Counted(s, C) \in SUBSET (1 .. Len(s)) /\ Counted(s, C) \in SUBSET (Nat \ {0}) /\ Len(s) \in Nat
<1>1. Counted(s, C) \subseteq 1 .. Len(s) /\ Len(s) \in Nat
  BY DEF Counted
<1>2. 1 .. Len(s) \subseteq Nat \ {0}
  BY <1>1
<1> QED
  BY <1>1, <1>2

LEMMA CountedNext ==
    ASSUME NEW E, NEW s \in Seq(E), NEW e \in E, NEW C
    PROVE  /\ e \in C => Counted(Append(s, e), C) = Counted(s, C) \cup {Len(s) + 1}
           /\ e \notin C => Counted(Append(s, e), C) = Counted(s, C)
<1>0. PICK t : t = Append(s, e)
  OBVIOUS
<1>1. /\ DOMAIN t = 1 .. Len(s) + 1 /\ DOMAIN s = 1 .. Len(s) /\ Len(s) \in Nat
      /\ t[Len(s) + 1] = e /\ \A i \in 1 .. Len(s) : t[i] = s[i]
  BY <1>0
<1>2. 1 .. Len(s) + 1 = 1 .. Len(s) \cup {Len(s) + 1}
  BY <1>1
<1> QED
  BY <1>0, <1>1, <1>2 DEF Counted

LEMMA CatchesOn ==
    ASSUME NEW C, NEW a \in Seq(KeyEvent), NEW s \in Seq(KeyEvent), NEW e \in KeyEvent,
           NEW n \in Nat, NEW o, Place(n, 1, o), o \in 1 .. Len(s), s[o] = e, Catches(a, s, C, n)
    PROVE  Catches(Append(a, e), s, C, o)
<1>1. /\ Counted(a, C) \in SUBSET (1 .. Len(a)) /\ Counted(s, C) \in SUBSET (Nat \ {0})
      /\ Follows(a, Counted(a, C), s, Counted(s, C), n)
  BY CountedIn DEF Catches
<1>2. o = n + 1
  BY DEF Place
<1>3. CASE e \in C
  <2>1. n + 1 \in Counted(s, C)
    BY <1>2, <1>3 DEF Counted
  <2>2. Follows(Append(a, e), Counted(a, C) \cup {Len(a) + 1}, s, Counted(s, C), n + 1)
    BY <1>1, <1>2, <2>1, FollowsOn
  <2>3. Counted(Append(a, e), C) = Counted(a, C) \cup {Len(a) + 1}
    BY <1>3, CountedNext
  <2> QED
    BY <1>2, <2>2, <2>3 DEF Catches
<1>4. CASE e \notin C
  <2>1. n + 1 \notin Counted(s, C)
    BY <1>2, <1>4 DEF Counted
  <2>2. Follows(a, Counted(a, C), s, Counted(s, C), n + 1)
    BY <1>1, <2>1, FollowsPast
  <2>3. Follows(Append(a, e), Counted(a, C), s, Counted(s, C), n + 1)
    BY <1>1, <2>2, FollowsInserted
  <2>4. Counted(Append(a, e), C) = Counted(a, C)
    BY <1>4, CountedNext
  <2> QED
    BY <1>2, <2>3, <2>4 DEF Catches
<1> QED
  BY <1>3, <1>4

LEMMA CatchesPast ==
    ASSUME NEW C, NEW a, NEW s \in Seq(KeyEvent), NEW n \in Nat, NEW o, Place(n, 1, o),
           s[o] \notin C, Catches(a, s, C, n)
    PROVE  Catches(a, s, C, o)
<1>1. Counted(s, C) \in SUBSET (Nat \ {0}) /\ o = n + 1
  BY CountedIn DEF Place
<1>2. n + 1 \notin Counted(s, C)
  BY <1>1 DEF Counted
<1> QED
  BY <1>1, <1>2, FollowsPast DEF Catches

LEMMA CatchesAside ==
    ASSUME NEW C, NEW a \in Seq(KeyEvent), NEW s, NEW e \in KeyEvent, e \notin C,
           NEW n, Catches(a, s, C, n)
    PROVE  Catches(Append(a, e), s, C, n)
<1>1. Counted(a, C) \in SUBSET (1 .. Len(a))
  BY CountedIn
<1>2. Follows(Append(a, e), Counted(a, C), s, Counted(s, C), n)
  BY <1>1, FollowsInserted DEF Catches
<1>3. Counted(Append(a, e), C) = Counted(a, C)
  BY CountedNext
<1> QED
  BY <1>2, <1>3 DEF Catches

LEMMA CatchesLonger ==
    ASSUME NEW C, NEW a, NEW s \in Seq(KeyEvent), NEW t, NEW x, Longer(s, t, x),
           NEW n \in 0 .. Len(s), Catches(a, s, C, n)
    PROVE  Catches(a, t, C, n)
<1>1. PICK m \in Nat : Counts(s, m)
  BY DEF Counts
<1>2. PICK I, J, K : I = Counted(a, C) /\ J = Counted(s, C) /\ K = Counted(t, C)
  OBVIOUS
<1>3. J \in SUBSET (1 .. m)
  BY <1>1, <1>2, CountedIn DEF Counts
<1>4. K \in SUBSET (Nat \ {0})
  BY <1>2, CountedIn DEF Longer
<1>5. \A j \in 1 .. m : t[j] = s[j] /\ (j \in J <=> j \in K)
  BY <1>1, <1>2 DEF Counted, Longer, Counts
<1>6. n \in 0 .. m
  BY <1>1 DEF Counts
<1>7. Follows(a, I, s, J, n)
  BY <1>2 DEF Catches
<1>8. Follows(a, I, t, K, n)
  BY <1>1, <1>3, <1>4, <1>5, <1>6, <1>7, FollowsLonger
<1> QED
  BY <1>2, <1>8 DEF Catches

\* Replies that are taken for keys do not count, nor does the release of a lock key.
Countable(C) ==
    /\ \A b \in Replies : [code |-> b, down |-> FALSE] \notin C
    /\ \A b \in 0 .. 255 : b - 128 \in DOMAIN LedBit => [code |-> b, down |-> FALSE] \notin C

OrdinaryEvents == {e \in KeyEvent : Ordinary(e)}
Typeable == {e \in KeyEvent : e.down /\ e.code \notin Ignored}

LEMMA BothCountable == Countable(OrdinaryEvents) /\ Countable(Typeable)
<1>1. Countable(OrdinaryEvents)
  BY DEF Countable, OrdinaryEvents, Ordinary, Replies
<1>2. Countable(Typeable)
  BY DEF Countable, Typeable
<1> QED
  BY <1>1, <1>2

-----------------------------------------------------------------------------
(* What the driver has read and what is still to come *)

Ahead(n) == n \in 0 .. Len(sent) /\ (cpu = "runs" => Reaches(sent, wire, Driver(n), held))
Caught(C, n) == ~dropped => Catches(accepted, sent, C, n)

Along(C) == \E n : Ahead(n) /\ Caught(C, n)

LEMMA AheadNat ==
    ASSUME WireTypes, NEW n, Ahead(n)
    PROVE  n \in Nat /\ n <= Len(sent) /\ Len(sent) \in Nat
  BY DEF Ahead, WireTypes

\* The first byte on the wire.
LEMMA FirstRight ==
    ASSUME WireTypes, ReadByte, NEW n, Ahead(n), NEW b, b = Head(wire).code
    PROVE  /\ Right(sent, Driver(n), Head(wire))
           /\ Reaches(sent, wire', Decode(Driver(n), b), held)
<1>1. wire \in Seq(Byte) /\ wire # <<>> /\ wire' = Tail(wire)
  BY DEF WireTypes, ReadByte
<1>2. Leads(sent, wire, Len(wire), Driver(n), Final(held, Len(sent)))
  BY DEF Ahead, Reaches, To, ReadByte
<1>3. /\ Right(sent, Driver(n), Head(wire))
      /\ Leads(sent, Tail(wire), Len(Tail(wire)), Decode(Driver(n), Head(wire).code), Final(held, Len(sent)))
  BY <1>1, <1>2, LeadsFirst
<1> QED
  BY <1>1, <1>3 DEF Reaches, To

LEMMA AheadNext ==
    ASSUME WireTypes, ReadByte, NEW n, Ahead(n), NEW m, m \in 0 .. Len(sent),
           Decode(Driver(n), Head(wire).code) = Driver(m)'
    PROVE  Ahead(m)'
<1>1. Reaches(sent, wire', Driver(m)', held)
  BY FirstRight
<1>2. UNCHANGED <<sent, held>>
  BY DEF ReadByte
<1> QED
  BY <1>1, <1>2 DEF Ahead, Reaches

\* A reply does not change what the driver makes of the next bytes.
LEMMA ReplyDecoded ==
    ASSUME NEW d \in Decoder, d.prev = 0, NEW b \in Replies
    PROVE  Decode(d, b) = d /\ Keycode(0, b) \notin DOMAIN LedBit /\ b \in 128 .. 255
<1>1. Keycode(0, b) = HIGH_OTHER /\ NextPrefix(0, b) = 0 /\ b \in 128 .. 255
  <2>1. (b = 250 /\ b % 128 = 122) \/ (b = 254 /\ b % 128 = 126)
    BY DEF Replies, KBD_REPLY_ACK, KBD_REPLY_RESEND
  <2>2. high_keys[122] = HIGH_OTHER /\ high_keys[126] = HIGH_OTHER
    BY DEF high_keys, SC_LIM
  <2> QED
    BY <2>1, <2>2 DEF Keycode, NextPrefix, SC_LIM
<1>2. HIGH_OTHER \notin DOMAIN ShiftBit /\ HIGH_OTHER \notin DOMAIN LedBit
  BY DEF HIGH_OTHER, ShiftBit, LedBit
<1>3. Decode(d, b) = [prev |-> 0, shift |-> d.shift, n |-> d.n]
  BY <1>1, <1>2 DEF Decode, ShiftAfter, Completes
<1> QED
  BY <1>1, <1>2, <1>3 DEF Decoder

LEMMA ReplyAhead ==
    ASSUME WireTypes, ReadReply, NEW n, Ahead(n)
    PROVE  Ahead(n)'
<1>1. PICK b \in Replies : b = Head(wire).code
  BY DEF ReadReply, IsReply, Replies
<1>2. ReadByte /\ UNCHANGED <<prev_scancode, shift_state>>
  BY DEF ReadReply
<1>3. n \in Nat /\ n \in 0 .. Len(sent) /\ Driver(n) \in Decoder /\ Driver(n).prev = prev_scancode
  BY AheadNat, DriverType DEF Ahead
<1>4. Right(sent, Driver(n), Head(wire))
  BY <1>2, FirstRight
<1>5. Driver(n).prev = 0
  BY <1>1, <1>4 DEF Right
<1>6. Decode(Driver(n), b) = Driver(n)
  BY <1>1, <1>3, <1>5, ReplyDecoded
<1>7. Driver(n)' = Driver(n)
  BY <1>2 DEF Driver
<1> QED
  BY <1>1, <1>2, <1>3, <1>6, <1>7, AheadNext

LEMMA PrefixAhead ==
    ASSUME WireTypes, ReadPrefix, NEW n, Ahead(n)
    PROVE  Ahead(n)'
<1>1. ReadByte /\ n \in Nat /\ n \in 0 .. Len(sent)
  BY AheadNat DEF Ahead, ReadPrefix
<1>2. Decode(Driver(n), Head(wire).code) = Driver(n)'
  BY <1>1, PrefixDecoded
<1> QED
  BY <1>1, <1>2, AheadNext

\* A key counts unless it is a reply.
LEMMA KeyAhead ==
    ASSUME WireTypes, ReadsKey, NEW n, Ahead(n), NEW b, b = Head(wire).code, NEW o, Place(n, 1, o)
    PROVE  /\ b \in Replies => Ahead(n)' /\ Keycode(prev_scancode, b) \notin DOMAIN LedBit
           /\ b \notin Replies => /\ Ahead(o)' /\ o \in 1 .. Len(sent)
                                  /\ sent[o] = [code |-> b, down |-> b < 128]
<1>1. ReadByte /\ Keycode(prev_scancode, b) # 0
  BY DEF ReadsKey, ReadKeycode
<1>2. n \in Nat /\ n \in 0 .. Len(sent) /\ o = n + 1
  BY AheadNat DEF Ahead, Place
<1>3. Driver(n) \in Decoder /\ Driver(n).prev = prev_scancode /\ Driver(n).n = n
  BY <1>2, DriverType
<1>4. Right(sent, Driver(n), Head(wire))
  BY <1>1, FirstRight
<1>5. Decode(Driver(n), b).prev = prev_scancode' /\ Decode(Driver(n), b).shift = shift_state'
  BY <1>2, KeyDecoded
<1>6. CASE b \in Replies
  <2>1. Driver(n).prev = 0
    BY <1>4, <1>6 DEF Right
  <2>2. Decode(Driver(n), b) = Driver(n) /\ Keycode(prev_scancode, b) \notin DOMAIN LedBit
    BY <1>3, <1>6, <2>1, ReplyDecoded
  <2>3. Driver(n)' = Driver(n)
    BY <1>2, <1>3, <1>5, <2>2, DriverType DEF Driver
  <2>4. Ahead(n)'
    BY <1>1, <1>2, <2>2, <2>3, AheadNext
  <2> QED
    BY <1>6, <2>2, <2>4
<1>7. CASE b \notin Replies
  <2>1. Completes(Driver(n), b)
    BY <1>1, <1>3, <1>7 DEF Completes
  <2>2. n + 1 \in 1 .. Len(sent) /\ sent[n + 1] = [code |-> b, down |-> b < 128]
    BY <1>3, <1>4, <2>1 DEF Right
  <2>3. Decode(Driver(n), b) = Driver(o)'
    BY <1>2, <1>3, <1>5, <2>1 DEF Decode, Driver
  <2>4. Ahead(o)'
    <3>1. o \in 0 .. Len(sent)
      BY <1>2, <2>2
    <3> QED
      BY <1>1, <2>3, <3>1, AheadNext
  <2> QED
    BY <1>2, <1>7, <2>2, <2>4
<1> QED
  BY <1>6, <1>7

-----------------------------------------------------------------------------
(* The lock keys that wait for setleds() *)

OfLock(c) == c = 0 \/ c - 128 \in DOMAIN LedBit
WaitingLocks == \A i \in 1 .. Len(calls) : OfLock(calls[i].code)

LEMMA LockByte ==
    ASSUME NEW p \in Prefix, NEW b \in 128 .. 255, Keycode(p, b) \in DOMAIN LedBit
    PROVE  b - 128 \in DOMAIN LedBit
<1>1. b % 128 = b - 128 /\ b - 128 \in 0 .. 127
  OBVIOUS
<1>2. \A c \in SC_LIM .. 127 : high_keys[c] \notin {58, 69, 70}
  BY DEF high_keys, HIGH_OTHER, SC_LIM
<1>3. \A c \in 0 .. 127 : e0_keys[c] \notin {58, 69, 70}
  BY DEF e0_keys, E0_DEL, E0_OTHER
<1>4. Keycode(p, b) \in {58, 69, 70}
  BY DEF LedBit
<1>5. Keycode(p, b) = b - 128
  BY <1>1, <1>2, <1>3, <1>4 DEF Keycode, Prefix, E1_PAUSE, SC_LIM
<1> QED
  BY <1>5

LEMMA LocksInit == KeyboardInit => WaitingLocks
<1> SUFFICES ASSUME KeyboardInit PROVE WaitingLocks
  OBVIOUS
<1>1. calls = <<FirstCall>> /\ FirstCall.code = 0
  BY DEF KeyboardInit, FirstCall
<1>2. PICK c : c = FirstCall
  OBVIOUS
<1>3. Len(calls) = 1 /\ calls[1] = c
  BY <1>1, <1>2
<1> QED
  BY <1>1, <1>2, <1>3 DEF WaitingLocks, OfLock

LEMMA LocksReplaced ==
    ASSUME LedsTypes, WaitingLocks, calls # <<>>, NEW f \in Call, f.code = Frame.code, calls' = Return(f)
    PROVE  WaitingLocks'
<1>1. calls \in Seq(Call) /\ Len(calls) \in 1 .. Len(calls) /\ Len(calls) \in Nat
  BY FrameFacts DEF LedsTypes
<1>2. /\ Len(calls') = Len(calls)
      /\ \A j \in 1 .. Len(calls) : calls'[j] = IF j = Len(calls) THEN f ELSE calls[j]
  BY <1>1, ExceptSeq DEF Return
<1> QED
  BY <1>1, <1>2 DEF WaitingLocks, Frame

LEMMA LocksRead ==
    ASSUME LedsTypes, WireTypes, WaitingLocks, ReadLock
    PROVE  WaitingLocks'
<1>1. PICK b : b = Head(wire).code
  OBVIOUS
<1>2. PICK f : f = [FirstCall EXCEPT !.code = b]
  OBVIOUS
<1>3. /\ b >= 128 /\ Keycode(prev_scancode, b) \in DOMAIN LedBit /\ wire # <<>>
      /\ calls' = Append(calls, f)
  BY <1>1, <1>2 DEF ReadLock, ReadKeycode, ReadByte
<1>4. b \in 128 .. 255 /\ prev_scancode \in Prefix
  <2>1. b \in 0 .. 255 /\ b >= 128
    BY <1>1, <1>3, HeadByte
  <2> QED
    BY <2>1 DEF WireTypes
<1>5. OfLock(b)
  BY <1>3, <1>4, LockByte DEF OfLock
<1>6. f.code = b
  BY <1>2 DEF FirstCall
<1>7. f \in Call
  BY <1>2, <1>4, KeyboardBoundsAssumption, Commands DEF FirstCall, Call
<1>8. /\ Len(calls') = Len(calls) + 1 /\ Len(calls) \in Nat /\ calls'[Len(calls) + 1] = f
      /\ \A i \in 1 .. Len(calls) : calls'[i] = calls[i]
  BY <1>3, <1>7, AppendProperties DEF LedsTypes
<1> QED
  BY <1>5, <1>6, <1>8 DEF WaitingLocks

LEMMA LocksSent ==
    ASSUME LedsTypes, WaitingLocks, SendAgain \/ SendNext \/ SendLast
    PROVE  WaitingLocks'
<1>1. calls # <<>>
  BY DEF SendAgain, SendNext, SendLast, SendByte
<1>2. PICK c \in Call : c = Frame
  BY <1>1, FrameFacts
<1>3. CASE SendAgain
  <2>1. PICK k : k = c.retries - 1
    OBVIOUS
  <2>2. k \in Nat
    BY <1>2, <1>3, <2>1 DEF SendAgain, Call
  <2>3. PICK f : f = [c EXCEPT !.retries = k]
    OBVIOUS
  <2>4. f \in Call /\ f.code = c.code
    BY <2>2, <2>3 DEF Call
  <2>5. calls' = Return(f)
    BY <1>2, <1>3, <2>1, <2>3 DEF SendAgain
  <2> QED
    BY <1>1, <1>2, <2>4, <2>5, LocksReplaced
<1>4. CASE SendNext
  <2>1. PICK d : d = IF c.no = 1 THEN Leds(led_state) ELSE Enable
    OBVIOUS
  <2>2. PICK f : f = [code |-> c.code, no |-> c.no + 1, retries |-> RETRIES, data |-> d]
    OBVIOUS
  <2>3. d \in Command /\ c.no \in {1, 2}
    BY <1>2, <1>4, <2>1, Commands DEF LedsTypes, SendNext, Call
  <2>4. f \in Call /\ f.code = c.code
    BY <2>2, <2>3, KeyboardBoundsAssumption DEF Call
  <2>5. calls' = Return(f)
    BY <1>2, <1>4, <2>1, <2>2 DEF SendNext
  <2> QED
    BY <1>1, <1>2, <2>4, <2>5, LocksReplaced
<1>5. CASE SendLast
  <2>1. /\ Len(calls') = Len(calls) - 1 /\ Len(calls) \in Nat \ {0}
        /\ \A i \in 1 .. Len(calls') : calls'[i] = calls[i]
    BY <1>1, <1>5, Popped, FrameFacts DEF SendLast
  <2>2. 1 .. Len(calls) - 1 \subseteq 1 .. Len(calls)
    BY <2>1
  <2> QED
    BY <2>1, <2>2 DEF WaitingLocks
<1> QED
  BY <1>3, <1>4, <1>5

LEMMA LocksStep ==
    ASSUME LedsInv, WireTypes, WaitingLocks, [KeyboardNext]_keyboardVars
    PROVE  WaitingLocks'
<1>1. CASE \/ UNCHANGED keyboardVars \/ KeyboardTakes \/ KeyboardReplies \/ ReadReply \/ ReadPrefix
           \/ ReadKey \/ ReadBoot \/ ReadkeyRemove \/ ReadkeyLook \/ ReadkeySaved
  <2>1. UNCHANGED calls
    BY <1>1 DEF keyboardVars, driverVars, hardwareVars, historyVars, KeyboardTakes, KeyboardReplies, ReadReply,
                ReadPrefix, ReadKey, ReadBoot, ReadKeycode, ReadByte, ReadkeyRemove, ReadkeyLook, ReadkeySaved
  <2> QED
    BY <2>1 DEF WaitingLocks
<1>2. ASSUME NEW k \in Key, Press(k) \/ Release(k) PROVE WaitingLocks'
  <2>1. UNCHANGED calls
    BY <1>2 DEF driverVars, Press, Release
  <2> QED
    BY <2>1 DEF WaitingLocks
<1> QED
  BY <1>1, <1>2, Steps, LocksRead, LocksSent DEF LedsInv

LEMMA LocksAlways == KeyboardSpec => []WaitingLocks
  BY LedsAlways, Types, LocksInit, LocksStep, PTL DEF KeyboardSpec

\* The code a call waits with.
LEMMA FrameOfLock ==
    ASSUME LedsTypes, WaitingLocks, calls # <<>>
    PROVE  OfLock(Frame.code)
<1>1. Len(calls) \in 1 .. Len(calls)
  BY FrameFacts
<1> QED
  BY <1>1 DEF WaitingLocks, Frame

-----------------------------------------------------------------------------
(* The events are those the keyboard has sent *)

LEMMA Inserted ==
    ASSUME NEW e, Insert(e), ~dropped'
    PROVE  ~dropped /\ accepted' = Append(accepted, e)
  BY DEF Insert, KeybInsert, Full

LEMMA AlongInit ==
    ASSUME NEW C
    PROVE  KeyboardInit => Along(C)
<1> SUFFICES ASSUME KeyboardInit PROVE Along(C)
  OBVIOUS
<1>1. accepted = <<>> /\ sent = <<>> /\ wire = <<>> /\ held = {} /\ prev_scancode = 0 /\ shift_state = {}
  BY DEF KeyboardInit, Init
<1>2. Catches(<<>>, <<>>, C, 0)
  <2>1. Counted(<<>>, C) = {}
    BY DEF Counted
  <2>2. Upto({}, 0) = 0 /\ Cardinality({}) = 0
    BY UptoNone, FS_EmptySet
  <2> QED
    BY <2>1, <2>2 DEF Catches, Follows
<1>3. Driver(0) = Final({}, 0)
  <2>1. BitsOf({}) = {}
    BY DEF BitsOf
  <2> QED
    BY <1>1, <2>1 DEF Driver, Final
<1>4. Reaches(<<>>, <<>>, Driver(0), {})
  BY <1>3, FinalType, LeadsNowhere DEF Reaches, To
<1>5. Ahead(0)
  BY <1>1, <1>4 DEF Ahead
<1> QED
  BY <1>1, <1>2, <1>5 DEF Along, Caught

LEMMA AlongKept ==
    ASSUME NEW C, Along(C), UNCHANGED <<accepted, dropped, sent, wire, held, prev_scancode, shift_state, cpu>>
    PROVE  Along(C)'
<1>1. PICK n : Ahead(n) /\ Caught(C, n)
  BY DEF Along
<1>2. Ahead(n)' /\ Caught(C, n)'
  BY <1>1 DEF Ahead, Caught, Driver
<1> QED
  BY <1>2 DEF Along

LEMMA AlongRead ==
    ASSUME NEW C, Countable(C), WireTypes, IInv, Along(C), ReadReply \/ ReadPrefix \/ ReadBoot
    PROVE  Along(C)'
<1>1. PICK n : Ahead(n) /\ Caught(C, n)
  BY DEF Along
<1>2. UNCHANGED <<accepted, dropped, sent>>
  BY DEF queueVars, bufferVars, ReadReply, ReadPrefix, ReadBoot, ReadKeycode, ReadByte
<1>3. Caught(C, n)'
  BY <1>1, <1>2 DEF Caught
<1>4. Ahead(n)'
  <2>1. CASE ReadReply
    BY <1>1, <2>1, ReplyAhead
  <2>2. CASE ReadPrefix
    BY <1>1, <2>2, PrefixAhead
  <2>3. CASE ReadBoot
    BY <1>1, <1>2, <2>3 DEF ReadBoot, Ahead
  <2> QED
    BY <2>1, <2>2, <2>3
<1> QED
  BY <1>3, <1>4 DEF Along

LEMMA AlongReadKey ==
    ASSUME NEW C, Countable(C), WireTypes, IInv, Along(C), ReadKey
    PROVE  Along(C)'
<1>1. PICK n : Ahead(n) /\ Caught(C, n)
  BY DEF Along
<1>2. PICK b : b = Head(wire).code
  OBVIOUS
<1>3. PICK e \in KeyEvent : e = [code |-> b, down |-> b < 128] /\ Insert(e)
  BY <1>2, KeyInserted, KeyAssumption
<1>4. b \in 1 .. 255 /\ ReadsKey /\ UNCHANGED sent
  BY <1>2, KeyInserted, ReadsKeys DEF ReadKey, ReadKeycode, ReadByte
<1>5. n \in Nat
  BY <1>1, AheadNat
<1>6. PICK o \in Nat : Place(n, 1, o)
  BY <1>5 DEF Place
<1>7. accepted \in Seq(KeyEvent) /\ sent \in Seq(KeyEvent)
  BY KeyAssumption DEF IInv, TypeOK, WireTypes
<1>8. CASE b \in Replies
  <2>1. Ahead(n)'
    BY <1>1, <1>2, <1>4, <1>6, <1>8, KeyAhead
  <2>2. e \notin C
    <3>1. (b < 128) = FALSE
      BY <1>8 DEF Replies, KBD_REPLY_ACK, KBD_REPLY_RESEND
    <3> QED
      BY <1>3, <1>8, <3>1 DEF Countable
  <2>3. Caught(C, n)'
    <3> SUFFICES ASSUME ~dropped' PROVE Catches(accepted', sent', C, n)
      BY DEF Caught
    <3>1. Catches(accepted, sent, C, n) /\ accepted' = Append(accepted, e)
      BY <1>1, <1>3, Inserted DEF Caught
    <3> QED
      BY <1>3, <1>4, <1>7, <2>2, <3>1, CatchesAside
  <2> QED
    BY <2>1, <2>3 DEF Along
<1>9. CASE b \notin Replies
  <2>1. Ahead(o)' /\ o \in 1 .. Len(sent) /\ sent[o] = e
    BY <1>1, <1>2, <1>3, <1>4, <1>6, <1>9, KeyAhead
  <2>2. Caught(C, o)'
    <3> SUFFICES ASSUME ~dropped' PROVE Catches(accepted', sent', C, o)
      BY DEF Caught
    <3>1. Catches(accepted, sent, C, n) /\ accepted' = Append(accepted, e)
      BY <1>1, <1>3, Inserted DEF Caught
    <3> QED
      BY <1>3, <1>4, <1>5, <1>6, <1>7, <2>1, <3>1, CatchesOn
  <2> QED
    BY <2>1, <2>2 DEF Along
<1> QED
  BY <1>8, <1>9

LEMMA AlongReadLock ==
    ASSUME NEW C, Countable(C), WireTypes, IInv, Along(C), ReadLock
    PROVE  Along(C)'
<1>1. PICK n : Ahead(n) /\ Caught(C, n)
  BY DEF Along
<1>2. PICK b : b = Head(wire).code
  OBVIOUS
<1>3. /\ b >= 128 /\ Keycode(prev_scancode, b) \in DOMAIN LedBit /\ wire # <<>>
      /\ ReadsKey /\ UNCHANGED <<accepted, dropped, sent>>
  BY <1>2, ReadsKeys DEF ReadLock, ReadKeycode, ReadByte, queueVars, bufferVars
<1>4. b \in 128 .. 255 /\ prev_scancode \in Prefix
  <2>1. b \in 0 .. 255 /\ b >= 128
    BY <1>2, <1>3, HeadByte
  <2> QED
    BY <2>1 DEF WireTypes
<1>5. n \in Nat
  BY <1>1, AheadNat
<1>6. PICK o \in Nat : Place(n, 1, o)
  BY <1>5 DEF Place
<1>7. b \notin Replies
  BY <1>1, <1>2, <1>3, <1>6, KeyAhead
<1>8. Ahead(o)' /\ sent[o] = [code |-> b, down |-> b < 128]
  BY <1>1, <1>2, <1>3, <1>6, <1>7, KeyAhead
<1>9. sent[o] \notin C
  <2>1. b - 128 \in DOMAIN LedBit
    BY <1>3, <1>4, LockByte
  <2>2. (b < 128) = FALSE /\ b \in 0 .. 255
    BY <1>4
  <2> QED
    BY <1>8, <2>1, <2>2 DEF Countable
<1>10. Caught(C, o)'
  <2> SUFFICES ASSUME ~dropped PROVE Catches(accepted, sent, C, o)
    BY <1>3 DEF Caught
  <2>1. Catches(accepted, sent, C, n) /\ sent \in Seq(KeyEvent)
    BY <1>1 DEF Caught, WireTypes
  <2> QED
    BY <1>5, <1>6, <1>9, <2>1, CatchesPast
<1> QED
  BY <1>8, <1>10 DEF Along

LEMMA AlongSendLast ==
    ASSUME NEW C, Countable(C), LedsInv, WaitingLocks, WireTypes, IInv, Along(C), SendLast
    PROVE  Along(C)'
<1>1. PICK n : Ahead(n) /\ Caught(C, n)
  BY DEF Along
<1>2. PICK c : c = Frame.code
  OBVIOUS
<1>3. /\ calls # <<>> /\ SendByte
      /\ UNCHANGED <<sent, wire, held, prev_scancode, shift_state, cpu>>
  BY DEF SendLast, SendByte, historyVars
<1>4. CASE c = 0
  <2>1. UNCHANGED queueVars
    BY <1>2, <1>4, LastInserted
  <2> QED
    BY <1>3, <2>1, AlongKept DEF queueVars, bufferVars
<1>5. CASE c # 0
  <2>1. PICK e \in KeyEvent : e = [code |-> c, down |-> FALSE] /\ Insert(e)
    BY <1>2, <1>5, LastInserted, KeyAssumption
  <2>2. c \in 0 .. 255 /\ OfLock(c)
    BY <1>2, <1>3, LastInserted, FrameOfLock DEF LedsInv
  <2>3. e \notin C
    BY <1>5, <2>1, <2>2 DEF OfLock, Countable
  <2>4. Caught(C, n)'
    <3> SUFFICES ASSUME ~dropped' PROVE Catches(accepted', sent', C, n)
      BY DEF Caught
    <3>1. Catches(accepted, sent, C, n) /\ accepted' = Append(accepted, e)
      BY <1>1, <2>1, Inserted DEF Caught
    <3>2. accepted \in Seq(KeyEvent)
      BY KeyAssumption DEF IInv, TypeOK
    <3> QED
      BY <1>3, <2>1, <2>3, <3>1, <3>2, CatchesAside
  <2>5. Ahead(n)'
    BY <1>1, <1>3 DEF Ahead, Driver
  <2> QED
    BY <2>4, <2>5 DEF Along
<1> QED
  BY <1>4, <1>5

LEMMA AlongReply ==
    ASSUME NEW C, WireTypes, Along(C), KeyboardReplies
    PROVE  Along(C)'
<1>1. PICK n : Ahead(n) /\ Caught(C, n)
  BY DEF Along
<1>2. /\ UNCHANGED <<accepted, dropped, sent, held, prev_scancode, shift_state, cpu>>
      /\ wire' = Append(wire, [code |-> owed, ends |-> TRUE, held |-> held])
      /\ cpu = "runs" /\ owed \in Replies
  BY DEF KeyboardReplies, queueVars, bufferVars, driverVars, historyVars, WireTypes
<1>3. PICK b \in Replies : b = owed
  BY <1>2
<1>4. PICK r \in Byte : r = [code |-> b, ends |-> TRUE, held |-> held]
  <2>1. b \in 0 .. 255
    BY DEF Replies, KBD_REPLY_ACK, KBD_REPLY_RESEND
  <2> QED
    BY <2>1 DEF Byte, WireTypes
<1>5. r.code = b /\ r.held = held /\ b \in 0 .. 255
  BY <1>4 DEF Replies, KBD_REPLY_ACK, KBD_REPLY_RESEND
<1>6. PICK m \in Nat : Counts(wire, m)
  BY DEF Counts, WireTypes
<1>7. PICK o \in Nat : Place(m, 1, o)
  BY DEF Place
<1>8. PICK v : v = wire'
  OBVIOUS
<1>9. Counts(v, o) /\ v[o] = r /\ \A i \in 1 .. m : v[i] = wire[i]
  BY <1>2, <1>3, <1>4, <1>6, <1>7, <1>8 DEF Counts, Place, WireTypes
<1>10. PICK e : e = Final(held, Len(sent))
  OBVIOUS
<1>11. e \in Decoder /\ e.prev = 0 /\ e.shift = BitsOf(held)
  BY <1>10, FinalType DEF WireTypes
<1>12. Leads(sent, v, m, Driver(n), e)
  <2>1. Leads(sent, wire, m, Driver(n), e)
    BY <1>1, <1>2, <1>6, <1>10 DEF Ahead, Reaches, To, Counts
  <2>2. sent \in Seq(KeyEvent) /\ Len(sent) \in Nat /\ Len(sent) <= Len(sent)
    BY DEF WireTypes
  <2> QED
    BY <1>9, <2>1, <2>2, LeadsStill
<1>13. Decode(e, b) = e
  BY <1>11, ReplyDecoded
<1>14. Right(sent, e, v[o])
  <2>1. ~Completes(e, b) /\ ~(b < 128)
    BY DEF Completes, Replies, KBD_REPLY_ACK, KBD_REPLY_RESEND
  <2>2. Right(sent, e, r)
    BY <1>5, <1>11, <1>13, <2>1 DEF Right
  <2> QED
    BY <1>9, <2>2
<1>15. Leads(sent, v, o, Driver(n), e)
  <2>1. o = m + 1 /\ v[o].code \in 0 .. 255 /\ e = Decode(e, v[o].code)
    BY <1>5, <1>7, <1>9, <1>13 DEF Place
  <2> QED
    BY <1>6, <1>11, <1>12, <1>14, <2>1, LeadsOn
<1>16. Reaches(sent, wire', Driver(n), held)
  BY <1>8, <1>9, <1>10, <1>15 DEF Reaches, To, Counts
<1>17. Ahead(n)' /\ Caught(C, n)'
  BY <1>1, <1>2, <1>16 DEF Ahead, Caught, Driver, Reaches
<1> QED
  BY <1>17 DEF Along

-----------------------------------------------------------------------------

LEMMA AlongLonger ==
    ASSUME NEW C, WireTypes, Along(C), NEW x, NEW s, Longer(sent, s, x)
    PROVE  \E n : /\ Ahead(n) /\ Caught(C, n) /\ n \in 0 .. Len(s)
                  /\ ~dropped => Catches(accepted, s, C, n)
<1>1. PICK n : Ahead(n) /\ Caught(C, n)
  BY DEF Along
<1>2. n \in 0 .. Len(sent) /\ sent \in Seq(KeyEvent)
  BY <1>1 DEF Ahead, WireTypes
<1>3. n \in 0 .. Len(s)
  BY <1>2 DEF Longer
<1>4. ~dropped => Catches(accepted, s, C, n)
  BY <1>1, <1>2, CatchesLonger DEF Caught
<1> QED
  BY <1>1, <1>3, <1>4

LEMMA AlongPress ==
    ASSUME NEW C, WireTypes, WireTypes', Along(C), NEW k \in Key, k # "pause", Press(k)
    PROVE  Along(C)'
<1>1. /\ UNCHANGED <<accepted, dropped, prev_scancode, shift_state, cpu>> /\ cpu = "runs"
      /\ held' = held \cup {k} /\ sent' = sent \o <<EventOf(Make[k], TRUE)>>
  BY DEF Press, queueVars, bufferVars, driverVars
<1>2. PICK fake \in FakeShift(k) : wire' = wire \o Bytes(fake \o Make[k], held')
  BY DEF Press
<1>3. k \in Plain \cup Prefixed
  BY KeyAssumption, HeldKeys
<1>4. PICK x \in KeyEvent : x = [code |-> Code(k), down |-> TRUE] /\ x = EventOf(Make[k], TRUE)
  BY <1>3, EventsOf
<1>5. sent \in Seq(KeyEvent) /\ wire \in Seq(Byte) /\ held \in SUBSET DOMAIN Make /\ held' \in SUBSET DOMAIN Make
  BY DEF WireTypes
<1>6. PICK s : s = sent'
  OBVIOUS
<1>7. Longer(sent, s, x)
  BY <1>1, <1>4, <1>5, <1>6, OneAdded, LongerBy
<1>8. PICK n : /\ Ahead(n) /\ Caught(C, n) /\ n \in 0 .. Len(s)
               /\ ~dropped => Catches(accepted, s, C, n)
  BY <1>7, AlongLonger
<1>9. Reaches(sent, wire, Driver(n), held)
  BY <1>1, <1>8 DEF Ahead
<1>10. PICK q, v, g, d : Joined(fake, Make[k], q) /\ Wires(wire, q, g, v) /\ g = held' /\ v = wire' /\ d = Driver(n)
  BY <1>2 DEF Joined, Wires
<1>11. Reaches(s, v, d, g)
  <2>1. Pressed(held, k, g) /\ g \in SUBSET DOMAIN Make
    BY <1>1, <1>5, <1>10 DEF Pressed
  <2>2. Longer(sent, s, [code |-> Code(k), down |-> TRUE]) /\ Reaches(sent, wire, d, held)
    BY <1>4, <1>7, <1>9, <1>10
  <2>3. Joined(fake, Make[k], q) /\ Wires(wire, q, g, v)
    BY <1>10
  <2> QED
    BY <1>3, <1>5, <2>1, <2>2, <2>3, KeyPressed
<1>12. Ahead(n)' /\ Caught(C, n)'
  BY <1>1, <1>6, <1>8, <1>10, <1>11 DEF Ahead, Caught, Driver
<1> QED
  BY <1>12 DEF Along

LEMMA AlongRelease ==
    ASSUME NEW C, WireTypes, WireTypes', Along(C), NEW k \in Key, Release(k)
    PROVE  Along(C)'
<1>1. /\ UNCHANGED <<accepted, dropped, prev_scancode, shift_state, cpu>> /\ cpu = "runs"
      /\ held' = held \ {k} /\ sent' = Append(sent, EventOf(Break(k), FALSE))
  BY DEF Release, queueVars, bufferVars, driverVars
<1>2. PICK fake \in FakeShift(k) : wire' = wire \o Bytes(Break(k) \o fake, held')
  BY DEF Release
<1>3. k \in Plain \cup Prefixed
  BY HeldKeys DEF Release, WireTypes
<1>4. PICK x \in KeyEvent : x = [code |-> Code(k) + 128, down |-> FALSE] /\ x = EventOf(Break(k), FALSE)
  BY <1>3, EventsOf
<1>5. sent \in Seq(KeyEvent) /\ wire \in Seq(Byte) /\ held \in SUBSET DOMAIN Make /\ held' \in SUBSET DOMAIN Make
  BY DEF WireTypes
<1>6. PICK s : s = sent'
  OBVIOUS
<1>7. Longer(sent, s, x)
  BY <1>1, <1>4, <1>5, <1>6, LongerBy
<1>8. PICK n : /\ Ahead(n) /\ Caught(C, n) /\ n \in 0 .. Len(s)
               /\ ~dropped => Catches(accepted, s, C, n)
  BY <1>7, AlongLonger
<1>9. Reaches(sent, wire, Driver(n), held)
  BY <1>1, <1>8 DEF Ahead
<1>10. PICK q, v, g, d : Joined(Break(k), fake, q) /\ Wires(wire, q, g, v) /\ g = held' /\ v = wire' /\ d = Driver(n)
  BY <1>2 DEF Joined, Wires
<1>11. Reaches(s, v, d, g)
  <2>1. Released(held, k, g) /\ g \in SUBSET DOMAIN Make
    BY <1>1, <1>5, <1>10 DEF Released
  <2>2. Longer(sent, s, [code |-> Code(k) + 128, down |-> FALSE]) /\ Reaches(sent, wire, d, held)
    BY <1>4, <1>7, <1>9, <1>10
  <2>3. Joined(Break(k), fake, q) /\ Wires(wire, q, g, v)
    BY <1>10
  <2> QED
    BY <1>3, <1>5, <2>1, <2>2, <2>3, KeyReleased
<1>12. Ahead(n)' /\ Caught(C, n)'
  BY <1>1, <1>6, <1>8, <1>10, <1>11 DEF Ahead, Caught, Driver
<1> QED
  BY <1>12 DEF Along

LEMMA AlongPause ==
    ASSUME NEW C, WireTypes, Along(C), NEW k \in Key, k = "pause", Press(k)
    PROVE  Along(C)'
<1>1. /\ UNCHANGED <<accepted, dropped, prev_scancode, shift_state, cpu, held>> /\ cpu = "runs"
      /\ sent' = sent \o <<EventOf(<< 69 >>, TRUE), EventOf(<< 197 >>, FALSE)>>
  BY DEF Press, queueVars, bufferVars, driverVars
<1>2. PICK fake \in FakeShift(k) : wire' = wire \o Bytes(fake \o Make[k], held')
  BY DEF Press
<1>3. fake \o Make[k] = <<225, 29, 69, 225, 157, 197>>
  <2>1. fake = <<>>
    BY DEF FakeShift
  <2> QED
    BY <2>1, PauseMakes, ConcatEmptySeq
<1>4. sent \in Seq(KeyEvent) /\ wire \in Seq(Byte) /\ held \in SUBSET DOMAIN Make
  BY DEF WireTypes
<1>5. PICK x \in KeyEvent, y \in KeyEvent :
        /\ x = [code |-> 69, down |-> TRUE] /\ y = [code |-> 197, down |-> FALSE]
        /\ x = EventOf(<< 69 >>, TRUE) /\ y = EventOf(<< 197 >>, FALSE)
  BY PauseMakes
<1>6. PICK s : s = sent'
  OBVIOUS
<1>7. TwoMore(sent, EventOf(<< 69 >>, TRUE), EventOf(<< 197 >>, FALSE), s)
  BY <1>1, <1>6 DEF TwoMore
<1>8. PICK r : Longer(sent, r, [code |-> 69, down |-> TRUE]) /\ Longer(r, s, [code |-> 197, down |-> FALSE])
  <2>1. \E r : Longer(sent, r, EventOf(<< 69 >>, TRUE)) /\ Longer(r, s, EventOf(<< 197 >>, FALSE))
    BY <1>4, <1>7, PauseLonger, Zenon
  <2>2. EventOf(<< 69 >>, TRUE) = [code |-> 69, down |-> TRUE] /\ EventOf(<< 197 >>, FALSE) = [code |-> 197, down |-> FALSE]
    BY PauseMakes
  <2> QED
    BY <2>1, <2>2, Zenon
<1>9. PICK n : /\ Ahead(n) /\ Caught(C, n) /\ n \in 0 .. Len(r)
               /\ ~dropped => Catches(accepted, r, C, n)
  BY <1>8, AlongLonger
<1>10. r \in Seq(KeyEvent) /\ n \in 0 .. Len(s)
  BY <1>8, <1>9 DEF Longer
<1>11. ~dropped => Catches(accepted, s, C, n)
  BY <1>8, <1>9, <1>10, CatchesLonger
<1>12. PICK v, d : Wires(wire, <<225, 29, 69, 225, 157, 197>>, held, v) /\ v = wire' /\ d = Driver(n)
  BY <1>1, <1>2, <1>3 DEF Wires
<1>13. Reaches(s, v, d, held)
  <2>1. Reaches(sent, wire, d, held)
    BY <1>1, <1>9, <1>12 DEF Ahead
  <2>2. Wires(wire, <<225, 29, 69, 225, 157, 197>>, held, v)
    BY <1>12
  <2> QED
    BY <1>4, <1>8, <2>1, <2>2, PausePressed
<1>14. Ahead(n)' /\ Caught(C, n)'
  BY <1>1, <1>6, <1>9, <1>10, <1>11, <1>12, <1>13 DEF Ahead, Caught, Driver
<1> QED
  BY <1>14 DEF Along

LEMMA AlongStep ==
    ASSUME NEW C, Countable(C), LedsInv, WaitingLocks, WireTypes, WireTypes', IInv, Along(C),
           [KeyboardNext]_keyboardVars
    PROVE  Along(C)'
<1>1. CASE \/ UNCHANGED keyboardVars \/ KeyboardTakes \/ SendAgain \/ SendNext
           \/ ReadkeyRemove \/ ReadkeyLook \/ ReadkeySaved
  <2>1. UNCHANGED <<accepted, dropped, sent, wire, held, prev_scancode, shift_state, cpu>>
    BY <1>1 DEF keyboardVars, queueVars, bufferVars, driverVars, hardwareVars, historyVars, KeyboardTakes,
                SendAgain, SendNext, SendByte, ReadkeyRemove, KeybRemove, ReadkeyLook, ReadkeySaved
  <2> QED
    BY <2>1, AlongKept
<1>2. ASSUME NEW k \in Key, Press(k) PROVE Along(C)'
  BY <1>2, AlongPress, AlongPause
<1>3. ASSUME NEW k \in Key, Release(k) PROVE Along(C)'
  BY <1>3, AlongRelease
<1> QED
  BY <1>1, <1>2, <1>3, Steps, AlongReply, AlongRead, AlongReadKey, AlongReadLock, AlongSendLast

AlongBoth == Along(OrdinaryEvents) /\ Along(Typeable)

LEMMA AlongAlways == KeyboardSpec => []AlongBoth
<1>1. KeyboardInit => AlongBoth
  BY AlongInit DEF AlongBoth
<1>2. ASSUME LedsInv, WaitingLocks, WireTypes, WireTypes', IInv, AlongBoth, [KeyboardNext]_keyboardVars
      PROVE  AlongBoth'
  <2>1. Along(OrdinaryEvents)' /\ Along(Typeable)'
    BY <1>2, BothCountable, AlongStep DEF AlongBoth
  <2> QED
    BY <2>1 DEF AlongBoth
<1> QED
  BY <1>1, <1>2, LedsAlways, LocksAlways, Types, BufferAlways, PTL DEF KeyboardSpec

-----------------------------------------------------------------------------
(* Modifiers *)

SeenRight ==
    /\ seen.ends => prev_scancode = 0 /\ shift_state = BitsOf(seen.held)
    /\ cpu = "reset" => seen.ends /\ "del" \in seen.held /\ {2, 4} \subseteq shift_state2

LEMMA SeenInit == KeyboardInit => SeenRight
<1>1. BitsOf({}) = {}
  BY DEF BitsOf
<1> QED
  BY <1>1 DEF KeyboardInit, SeenRight

LEMMA SeenKept ==
    ASSUME SeenRight, UNCHANGED <<seen, prev_scancode, shift_state, shift_state2, cpu>>
    PROVE  SeenRight'
  BY DEF SeenRight

\* What is right of the byte that is read is right of the driver afterwards.
LEMMA SeenRead ==
    ASSUME NEW C, WireTypes, Along(C), ReadReply \/ ReadPrefix \/ ReadKey \/ ReadBoot \/ ReadLock
    PROVE  SeenRight'
<1>1. PICK n : Ahead(n) /\ n \in Nat
  BY AheadNat DEF Along
<1>2. ReadByte
  BY DEF ReadReply, ReadPrefix, ReadKey, ReadBoot, ReadLock, ReadKeycode
<1>3. PICK r : r = Head(wire)
  OBVIOUS
<1>4. seen' = r /\ cpu = "runs" /\ wire # <<>>
  BY <1>2, <1>3 DEF ReadByte
<1>5. Right(sent, Driver(n), r)
  BY <1>1, <1>2, <1>3, FirstRight
<1>6. prev_scancode' = Decode(Driver(n), r.code).prev /\ shift_state' = Decode(Driver(n), r.code).shift
  <2>1. CASE ReadReply
    <3>1. r.code \in Replies /\ UNCHANGED <<prev_scancode, shift_state>>
      BY <1>3, <2>1 DEF ReadReply, IsReply, Replies
    <3>2. Driver(n).prev = 0
      BY <1>5, <3>1 DEF Right
    <3> QED
      BY <1>1, <3>1, <3>2, DriverType, ReplyDecoded
  <2>2. CASE ReadPrefix
    <3>1. Decode(Driver(n), r.code) = Driver(n)'
      BY <1>1, <1>3, <2>2, PrefixDecoded
    <3> QED
      BY <3>1 DEF Driver
  <2>3. CASE ReadKey \/ ReadBoot \/ ReadLock
    BY <1>1, <1>3, <2>3, ReadsKeys, KeyDecoded
  <2> QED
    BY <2>1, <2>2, <2>3
<1>7. r.ends => prev_scancode' = 0 /\ shift_state' = BitsOf(r.held)
  BY <1>5, <1>6 DEF Right
<1>8. ASSUME cpu' = "reset" PROVE r.ends /\ "del" \in r.held /\ {2, 4} \subseteq shift_state2'
  <2>1. ReadBoot
    BY <1>4, <1>8 DEF ReadReply, ReadPrefix, ReadKey, ReadLock
  <2>2. Reboots(r.code, Keycode(prev_scancode, r.code)) /\ ReadKeycode(r.code, Keycode(prev_scancode, r.code))
    BY <1>3, <2>1 DEF ReadBoot
  <2>3. Keycode(prev_scancode, r.code) = E0_DEL /\ r.code < 128 /\ {2, 4} \subseteq shift_state2
    BY <2>2 DEF Reboots
  <2>4. r.ends /\ "del" \in r.held
    BY <1>1, <1>5, <2>3, DriverType DEF Right
  <2>5. UNCHANGED shift_state2
    BY <2>2, <2>3 DEF ReadKeycode, ShiftBit, E0_DEL
  <2> QED
    BY <2>3, <2>4, <2>5
<1> QED
  BY <1>4, <1>7, <1>8 DEF SeenRight

LEMMA SeenStep ==
    ASSUME WireTypes, AlongBoth, SeenRight, [KeyboardNext]_keyboardVars
    PROVE  SeenRight'
<1>1. CASE \/ UNCHANGED keyboardVars \/ KeyboardTakes \/ KeyboardReplies \/ SendAgain \/ SendNext \/ SendLast
           \/ ReadkeyRemove \/ ReadkeyLook \/ ReadkeySaved
  <2>1. UNCHANGED <<seen, prev_scancode, shift_state, shift_state2, cpu>>
    BY <1>1 DEF keyboardVars, driverVars, hardwareVars, historyVars, KeyboardTakes, KeyboardReplies,
                SendAgain, SendNext, SendLast, SendByte, ReadkeyRemove, ReadkeyLook, ReadkeySaved
  <2> QED
    BY <2>1, SeenKept
<1>2. ASSUME NEW k \in Key, Press(k) \/ Release(k) PROVE SeenRight'
  <2>1. UNCHANGED <<seen, prev_scancode, shift_state, shift_state2, cpu>>
    BY <1>2 DEF driverVars, Press, Release
  <2> QED
    BY <2>1, SeenKept
<1> QED
  BY <1>1, <1>2, Steps, SeenRead DEF AlongBoth

LEMMA SeenAlways == KeyboardSpec => []SeenRight
  BY Types, AlongAlways, SeenInit, SeenStep, PTL DEF KeyboardSpec

(***************************************************************************)
(* shift_state and shift_state2 follow the modifiers that are down, after  *)
(* every sequence of presses, repeats, releases, hidden shifts and replies,*)
(* and no prefix is left behind by a key.                                  *)
(***************************************************************************)
THEOREM ShiftsTracked == KeyboardSpec => []ShiftTracksKeys
<1>1. SeenRight /\ WireTypes => ShiftTracksKeys
  BY DEF SeenRight, WireTypes, ShiftTracksKeys
<1> QED
  BY <1>1, SeenAlways, Types, PTL

LEMMA ControlHeld ==
    ASSUME NEW h
    PROVE  /\ 2 \in Merged(BitsOf(h)) => h \cap {"lctrl", "rctrl"} # {}
           /\ 4 \in Merged(BitsOf(h)) => h \cap {"lalt", "ralt"} # {}
<1>1. 2 \in Merged(BitsOf(h)) => BitsOf(h) \cap {4, 8} # {}
  BY DEF Merged
<1>2. 4 \in Merged(BitsOf(h)) => BitsOf(h) \cap {16, 32} # {}
  BY DEF Merged
<1>3. ASSUME NEW k \in Modifiers
      PROVE  /\ KeyBit[k] \in {4, 8} => k \in {"lctrl", "rctrl"}
             /\ KeyBit[k] \in {16, 32} => k \in {"lalt", "ralt"}
  BY DEF KeyBit, Modifiers
<1> QED
  BY <1>1, <1>2, <1>3 DEF BitsOf

(***************************************************************************)
(* Boot() is called only while Ctrl and Alt are down, of which the driver  *)
(* knows from bytes long before, and by the Delete that has a prefix.      *)
(***************************************************************************)
THEOREM ResetWanted == KeyboardSpec => []ResetByUser
<1>1. ASSUME SeenRight, WireTypes PROVE ResetByUser
  <2> SUFFICES ASSUME cpu = "reset"
               PROVE  /\ "del" \in seen.held
                      /\ seen.held \cap {"lctrl", "rctrl"} # {}
                      /\ seen.held \cap {"lalt", "ralt"} # {}
    BY DEF ResetByUser
  <2>1. "del" \in seen.held /\ {2, 4} \subseteq shift_state2 /\ shift_state2 = Merged(BitsOf(seen.held))
    BY <1>1 DEF SeenRight, WireTypes
  <2>2. 2 \in Merged(BitsOf(seen.held)) /\ 4 \in Merged(BitsOf(seen.held))
    BY <2>1
  <2> QED
    BY <2>1, <2>2, ControlHeld
<1> QED
  BY <1>1, SeenAlways, Types, PTL

-----------------------------------------------------------------------------
(* All events, when all is quiet *)

LEMMA AllRead ==
    ASSUME WireTypes, NEW n, Ahead(n), AtRest, cpu = "runs"
    PROVE  n = Len(sent)
<1>1. Leads(sent, wire, Len(wire), Driver(n), Final(held, Len(sent))) /\ Len(wire) = 0
  BY DEF Ahead, Reaches, To, AtRest
<1>2. Driver(n) = Final(held, Len(sent))
  BY <1>1 DEF Leads
<1> QED
  BY <1>2, AheadNat, DriverType, FinalType

(***************************************************************************)
(* The events of keys come into the buffer in the order in which the       *)
(* keyboard has sent them and each of them once, though handlers are nested*)
(* and replies that nobody expects are put in too; and all of them are in  *)
(* it when all is quiet.                                                   *)
(***************************************************************************)
THEOREM BufferFollows == KeyboardSpec => []KeysBuffered
<1>1. ASSUME WireTypes, IInv, AlongBoth PROVE KeysBuffered
  <2> SUFFICES ASSUME ~dropped
               PROVE  /\ \A i \in Ordinaries(accepted) : \E j \in Ordinaries(sent) :
                            /\ Upto(Ordinaries(accepted), i) = Upto(Ordinaries(sent), j)
                            /\ accepted[i] = sent[j]
                      /\ AtRest /\ cpu = "runs" => Cardinality(Ordinaries(accepted)) = Cardinality(Ordinaries(sent))
    BY DEF KeysBuffered
  <2>1. ASSUME NEW s \in Seq(KeyEvent) PROVE Ordinaries(s) = Counted(s, OrdinaryEvents)
    BY DEF Ordinaries, Counted, OrdinaryEvents
  <2>2. accepted \in Seq(KeyEvent) /\ sent \in Seq(KeyEvent)
    BY <1>1, KeyAssumption DEF IInv, TypeOK, WireTypes
  <2>3. PICK n : Ahead(n) /\ Catches(accepted, sent, OrdinaryEvents, n)
    BY <1>1 DEF AlongBoth, Along, Caught
  <2>4. Follows(accepted, Ordinaries(accepted), sent, Ordinaries(sent), n)
    BY <2>1, <2>2, <2>3 DEF Catches
  <2>5. ASSUME AtRest, cpu = "runs" PROVE Cardinality(Ordinaries(accepted)) = Cardinality(Ordinaries(sent))
    <3>1. n = Len(sent)
      BY <1>1, <2>3, <2>5, AllRead
    <3>2. Ordinaries(sent) \in SUBSET (1 .. Len(sent)) /\ Len(sent) \in Nat
      BY <2>1, <2>2, CountedIn
    <3>3. Upto(Ordinaries(sent), Len(sent)) = Cardinality(Ordinaries(sent))
      BY <3>2, UptoAll
    <3> QED
      BY <2>4, <3>1, <3>3 DEF Follows
  <2> QED
    BY <2>4, <2>5 DEF Follows
<1> QED
  BY <1>1, AlongAlways, Types, BufferAlways, PTL

-----------------------------------------------------------------------------
(* What is read *)

LEMMA UptoLess ==
    ASSUME NEW S \in SUBSET (Nat \ {0}), NEW j \in S, NEW l \in S, j < l
    PROVE  Upto(S, j) < Upto(S, l)
<1>1. j \in Nat /\ l \in Nat
  OBVIOUS
<1>2. PICK A, B : A = {i \in S : i <= j} /\ B = {i \in S : i <= l}
  OBVIOUS
<1>3. IsFiniteSet(A) /\ IsFiniteSet(B) /\ Cardinality(A) \in Nat /\ Cardinality(B) \in Nat
  BY <1>1, <1>2, UptoFinite, FS_CardinalityType
<1>4. l \notin A /\ A \cup {l} \subseteq B
  <2>1. ASSUME NEW i \in A PROVE i \in B
    <3>1. i \in Nat /\ i <= j /\ i \in S
      BY <1>2
    <3>2. i <= l
      BY <1>1, <3>1
    <3> QED
      BY <1>2, <3>1, <3>2
  <2>2. ~(l <= j) /\ l <= l
    BY <1>1
  <2>3. l \notin A /\ l \in B
    BY <1>2, <2>2
  <2> QED
    BY <2>1, <2>3
<1>5. Cardinality(A \cup {l}) = Cardinality(A) + 1 /\ IsFiniteSet(A \cup {l})
  BY <1>3, <1>4, FS_AddElement
<1>6. Cardinality(A \cup {l}) <= Cardinality(B)
  BY <1>3, <1>4, FS_Subset
<1>7. Cardinality(A) < Cardinality(B)
  BY <1>3, <1>5, <1>6
<1> QED
  BY <1>2, <1>7 DEF Upto

LEMMA UptoInjective ==
    ASSUME NEW S \in SUBSET (Nat \ {0}), NEW j \in S, NEW l \in S, Upto(S, j) = Upto(S, l)
    PROVE  j = l
<1>1. j \in Nat /\ l \in Nat /\ Upto(S, j) \in Nat
  <2>1. j \in Nat /\ l \in Nat
    OBVIOUS
  <2> QED
    BY <2>1, UptoFinite
<1>2. ~(j < l) /\ ~(l < j)
  BY <1>1, UptoLess
<1> QED
  BY <1>1, <1>2

LEMMA UptoBounds ==
    ASSUME NEW n \in Nat, NEW S \in SUBSET (1 .. n), NEW j \in S
    PROVE  Upto(S, j) \in 1 .. Cardinality(S)
<1>1. j \in Nat /\ S \in SUBSET (Nat \ {0})
  OBVIOUS
<1>2. IsFiniteSet(S) /\ Cardinality(S) \in Nat
  BY UptoAll
<1>3. PICK A : A = {i \in S : i <= j}
  OBVIOUS
<1>4. IsFiniteSet(A) /\ Cardinality(A) <= Cardinality(S) /\ Cardinality(A) \in Nat
  <2>1. A \subseteq S
    BY <1>3
  <2> QED
    BY <1>2, <2>1, FS_Subset, FS_CardinalityType
<1>5. Cardinality(A) # 0
  <2>1. j \in A
    BY <1>1, <1>3
  <2> QED
    BY <1>4, <2>1, FS_EmptySet
<1>6. Cardinality(A) \in 1 .. Cardinality(S)
  BY <1>2, <1>4, <1>5
<1> QED
  BY <1>3, <1>6 DEF Upto

LEMMA UptoOfAll ==
    ASSUME NEW n \in Nat, NEW i \in 1 .. n
    PROVE  Upto(1 .. n, i) = i /\ Cardinality(1 .. n) = n
<1>1. {j \in 1 .. n : j <= i} = 1 .. i
  OBVIOUS
<1>2. Cardinality(1 .. i) = i /\ Cardinality(1 .. n) = n
  BY FS_Interval
<1> QED
  BY <1>1, <1>2 DEF Upto

Codes(s) == [i \in DOMAIN s |-> s[i].code]
HasCodes(E) == \A e \in E : e.code \in 0 .. 255

LEMMA CodesIn ==
    ASSUME NEW E, HasCodes(E), NEW s \in Seq(E)
    PROVE  Codes(s) \in Seq(0 .. 255) /\ Len(Codes(s)) = Len(s) /\ \A i \in 1 .. Len(s) : Codes(s)[i] = s[i].code
<1>1. PICK n \in Nat : n = Len(s) /\ DOMAIN s = 1 .. n
  OBVIOUS
<1>2. PICK c : c = Codes(s)
  OBVIOUS
<1>3. c = [i \in 1 .. n |-> s[i].code]
  BY <1>1, <1>2 DEF Codes
<1>4. \A i \in 1 .. n : s[i].code \in 0 .. 255
  BY <1>1 DEF HasCodes
<1>5. c \in [1 .. n -> 0 .. 255]
  BY <1>3, <1>4
<1>6. c \in Seq(0 .. 255)
  <2>1. c \in UNION {[1 .. i -> 0 .. 255] : i \in Nat}
    BY <1>5
  <2> QED
    BY <2>1, SeqDef
<1>7. Len(c) = n
  <2>1. DOMAIN c = 1 .. n /\ DOMAIN c = 1 .. Len(c) /\ Len(c) \in Nat
    BY <1>5, <1>6, LenProperties
  <2> QED
    BY <2>1
<1>8. \A i \in 1 .. n : c[i] = s[i].code
  BY <1>3
<1> QED
  BY <1>1, <1>2, <1>6, <1>7, <1>8

LEMMA CodesAppended ==
    ASSUME NEW E, HasCodes(E), NEW s \in Seq(E), NEW e \in E
    PROVE  Codes(Append(s, e)) = Append(Codes(s), e.code)
<1>1. PICK t : t = Append(s, e)
  OBVIOUS
<1>2. t \in Seq(E) /\ Len(t) = Len(s) + 1 /\ Len(s) \in Nat /\ t[Len(s) + 1] = e /\ \A i \in 1 .. Len(s) : t[i] = s[i]
  BY <1>1
<1>3. e.code \in 0 .. 255
  BY DEF HasCodes
<1>4. PICK c, d : c = Codes(t) /\ d = Append(Codes(s), e.code)
  OBVIOUS
<1>5. c \in Seq(0 .. 255) /\ Len(c) = Len(s) + 1 /\ \A i \in 1 .. Len(s) + 1 : c[i] = t[i].code
  BY <1>2, <1>4, CodesIn
<1>6. /\ d \in Seq(0 .. 255) /\ Len(d) = Len(s) + 1 /\ d[Len(s) + 1] = e.code
      /\ \A i \in 1 .. Len(s) : d[i] = s[i].code
  BY <1>3, <1>4, CodesIn, AppendProperties
<1>7. \A i \in 1 .. Len(s) + 1 : c[i] = d[i]
  BY <1>2, <1>5, <1>6
<1>8. c = d
  BY <1>5, <1>6, <1>7, SeqEqual
<1> QED
  BY <1>1, <1>4, <1>8

LEMMA EventCodes == HasCodes(KeyEvent)
  BY DEF HasCodes, KeyEvent

\* The codes of a at I are those of the events of s up to n that can be typed.
Reads(a, I, s, n) == Follows(Codes(a), I, Codes(s), Counted(s, Typeable), n)

LEMMA ReadsOn ==
    ASSUME NEW E, HasCodes(E), NEW a \in Seq(E), NEW r \in E, NEW I \in SUBSET (1 .. Len(a)),
           NEW s \in Seq(KeyEvent), NEW n \in Nat, NEW o, Place(n, 1, o), o \in 1 .. Len(s),
           s[o] \in Typeable, r.code = s[o].code, Reads(a, I, s, n)
    PROVE  Reads(Append(a, r), I \cup {Len(a) + 1}, s, o)
<1>1. o = n + 1
  BY DEF Place
<1>2. PICK c : c = r.code
  OBVIOUS
<1>3. c \in 0 .. 255 /\ Codes(Append(a, r)) = Append(Codes(a), c) /\ Codes(a) \in Seq(0 .. 255) /\ Len(Codes(a)) = Len(a)
  BY <1>2, CodesIn, CodesAppended DEF HasCodes
<1>4. Codes(s)[n + 1] = c
  BY <1>1, <1>2, EventCodes, CodesIn
<1>5. n + 1 \in Counted(s, Typeable) /\ Counted(s, Typeable) \in SUBSET (Nat \ {0})
  BY <1>1, CountedIn DEF Counted
<1>6. I \in SUBSET (1 .. Len(Codes(a)))
  BY <1>3
<1>7. Follows(Codes(a), I, Codes(s), Counted(s, Typeable), n)
  BY DEF Reads
<1>8. Follows(Append(Codes(a), c), I \cup {Len(Codes(a)) + 1}, Codes(s), Counted(s, Typeable), n + 1)
  BY <1>3, <1>4, <1>5, <1>6, <1>7, FollowsOn
<1> QED
  BY <1>1, <1>3, <1>8 DEF Reads

LEMMA ReadsPast ==
    ASSUME NEW a, NEW I, NEW s \in Seq(KeyEvent), NEW n \in Nat, NEW o, Place(n, 1, o),
           s[o] \notin Typeable, Reads(a, I, s, n)
    PROVE  Reads(a, I, s, o)
<1>1. o = n + 1 /\ Counted(s, Typeable) \in SUBSET (Nat \ {0})
  BY CountedIn DEF Place
<1>2. n + 1 \notin Counted(s, Typeable)
  BY <1>1 DEF Counted
<1> QED
  BY <1>1, <1>2, FollowsPast DEF Reads

LEMMA ReadsAside ==
    ASSUME NEW E, HasCodes(E), NEW a \in Seq(E), NEW r \in E, NEW I \in SUBSET (1 .. Len(a)),
           NEW s, NEW n, Reads(a, I, s, n)
    PROVE  Reads(Append(a, r), I, s, n)
<1>1. PICK c : c = r.code
  OBVIOUS
<1>2. c \in 0 .. 255 /\ Codes(Append(a, r)) = Append(Codes(a), c) /\ Codes(a) \in Seq(0 .. 255) /\ Len(Codes(a)) = Len(a)
  BY <1>1, CodesIn, CodesAppended DEF HasCodes
<1>3. I \in SUBSET (1 .. Len(Codes(a)))
  BY <1>2
<1>4. Follows(Append(Codes(a), c), I, Codes(s), Counted(s, Typeable), n)
  BY <1>2, <1>3, FollowsInserted DEF Reads
<1> QED
  BY <1>2, <1>4 DEF Reads

LEMMA ReadsLonger ==
    ASSUME NEW a, NEW I, NEW s \in Seq(KeyEvent), NEW t, NEW x, Longer(s, t, x),
           NEW n \in 0 .. Len(s), Reads(a, I, s, n)
    PROVE  Reads(a, I, t, n)
<1>1. PICK m \in Nat : Counts(s, m)
  BY DEF Counts
<1>2. PICK J, K, c, d : J = Counted(s, Typeable) /\ K = Counted(t, Typeable) /\ c = Codes(s) /\ d = Codes(t)
  OBVIOUS
<1>3. J \in SUBSET (1 .. m)
  BY <1>1, <1>2, CountedIn DEF Counts
<1>4. K \in SUBSET (Nat \ {0})
  BY <1>2, CountedIn DEF Longer
<1>5. \A j \in 1 .. m : d[j] = c[j] /\ (j \in J <=> j \in K)
  <2>1. \A j \in 1 .. m : j \in DOMAIN s /\ j \in DOMAIN t /\ t[j] = s[j]
    BY <1>1 DEF Longer, Counts
  <2> QED
    BY <1>2, <2>1 DEF Counted, Codes
<1>6. n \in 0 .. m
  BY <1>1 DEF Counts
<1>7. Follows(Codes(a), I, c, J, n)
  BY <1>2 DEF Reads
<1>8. Follows(Codes(a), I, d, K, n)
  BY <1>1, <1>3, <1>4, <1>5, <1>6, <1>7, FollowsLonger
<1> QED
  BY <1>2, <1>8 DEF Reads

-----------------------------------------------------------------------------
(* The keys that were pressed *)

Result == [code : 0 .. 255, level : {"alt", "num", "shift", "norm", "second"}]

LEMMA ResultCodes == HasCodes(Result)
  BY DEF HasCodes, Result

LEMMA Levels == \A c, s, t, l : Level(c, s, t, l) \in {"alt", "num", "shift", "norm"}
  BY DEF Level

TypedRight == typed \in Seq(Result) /\ Reads(typed, DOMAIN typed, sent, Len(sent))

LEMMA NothingRead == Reads(<<>>, {}, <<>>, 0)
<1>1. Counted(<<>>, Typeable) = {}
  BY DEF Counted
<1>2. Upto({}, 0) = 0 /\ Cardinality({}) = 0
  BY UptoNone, FS_EmptySet
<1> QED
  BY <1>1, <1>2 DEF Reads, Follows

LEMMA TypedInit == KeyboardInit => TypedRight
  BY NothingRead DEF KeyboardInit, TypedRight

LEMMA TypedPress ==
    ASSUME WireTypes, TypedRight, NEW k \in Key, k # "pause", Press(k)
    PROVE  TypedRight'
<1>1. k \in Plain \cup Prefixed
  BY KeyAssumption, HeldKeys
<1>2. PICK c \in 1 .. 127 : c = Code(k)
  BY <1>1, EventsOf
<1>3. PICK x \in KeyEvent : x = [code |-> c, down |-> TRUE] /\ x = EventOf(Make[k], TRUE)
  BY <1>1, <1>2, EventsOf
<1>0. typed' = IF c \in Ignored THEN typed
               ELSE Append(typed, [code |-> c, level |-> Level(c, BitsOf(held), Merged(BitsOf(held)), led_state)])
  <2>1. EventOf(Make[k], TRUE).code = c
    <3>1. EventOf(Make[k], TRUE) = [code |-> c, down |-> TRUE]
      BY <1>1, <1>2, EventsOf
    <3>2. [code |-> c, down |-> TRUE].code = c
      OBVIOUS
    <3> QED
      BY <3>1, <3>2, Zenon
  <2> QED
    BY <2>1, Zenon DEF Press
<1>4. sent \in Seq(KeyEvent) /\ sent' = sent \o <<EventOf(Make[k], TRUE)>>
  BY DEF WireTypes, Press
<1>5. PICK s : s = sent'
  OBVIOUS
<1>6. Longer(sent, s, x) /\ s \in Seq(KeyEvent)
  <2>1. Longer(sent, s, x)
    BY <1>3, <1>4, <1>5, OneAdded, LongerBy
  <2> QED
    BY <2>1 DEF Longer
<1>7. PICK n \in Nat, o \in Nat : Counts(sent, n) /\ Place(n, 1, o)
  BY <1>4 DEF Counts, Place
<1>8. Counts(s, o) /\ s[o] = x /\ o \in 1 .. Len(s)
  BY <1>6, <1>7 DEF Counts, Place, Longer
<1>9. Reads(typed, DOMAIN typed, s, n)
  <2>1. Reads(typed, DOMAIN typed, sent, n) /\ n \in 0 .. Len(sent)
    BY <1>7 DEF TypedRight, Counts
  <2> QED
    BY <1>4, <1>6, <2>1, ReadsLonger
<1>10. typed \in Seq(Result)
  BY DEF TypedRight
<1>11. CASE c \in Ignored
  <2>1. UNCHANGED typed
    BY <1>0, <1>11
  <2>2. x \notin Typeable
    BY <1>3, <1>11 DEF Typeable
  <2>3. Reads(typed, DOMAIN typed, s, o)
    BY <1>6, <1>7, <1>8, <1>9, <2>2, ReadsPast
  <2> QED
    BY <1>5, <1>8, <1>10, <2>1, <2>3 DEF TypedRight, Counts
<1>12. CASE c \notin Ignored
  <2>1. PICK l \in {"alt", "num", "shift", "norm"} : typed' = Append(typed, [code |-> c, level |-> l])
    BY <1>0, <1>12, Levels
  <2>2. PICK r \in Result : r = [code |-> c, level |-> l] /\ r.code = c
    <3>1. c \in 0 .. 255
      BY <1>2
    <3>2. [code |-> c, level |-> l] \in Result
      BY <3>1 DEF Result
    <3> QED
      BY <3>2
  <2>3. typed' = Append(typed, r)
    BY <2>1, <2>2
  <2>4. x \in Typeable /\ x.code = c
    BY <1>3, <1>12 DEF Typeable
  <2>5. DOMAIN typed \in SUBSET (1 .. Len(typed)) /\ Len(typed) \in Nat
    BY <1>10
  <2>6. Reads(Append(typed, r), DOMAIN typed \cup {Len(typed) + 1}, s, o)
    BY <1>6, <1>7, <1>8, <1>9, <1>10, <2>2, <2>4, <2>5, ResultCodes, ReadsOn
  <2>7. typed' \in Seq(Result) /\ DOMAIN typed' = DOMAIN typed \cup {Len(typed) + 1}
    <3>1. typed' \in Seq(Result) /\ Len(typed') = Len(typed) + 1
      BY <1>10, <2>3, AppendProperties
    <3> QED
      BY <1>10, <2>5, <3>1
  <2> QED
    BY <1>5, <1>8, <2>3, <2>6, <2>7 DEF TypedRight, Counts
<1> QED
  BY <1>11, <1>12

\* An event that is not typed.
LEMMA TypedAside ==
    ASSUME NEW a, NEW I, NEW s \in Seq(KeyEvent), NEW t, NEW x, Longer(s, t, x), x \notin Typeable,
           Reads(a, I, s, Len(s))
    PROVE  Reads(a, I, t, Len(t)) /\ t \in Seq(KeyEvent)
<1>1. PICK n \in Nat, o \in Nat : Counts(s, n) /\ Place(n, 1, o)
  BY DEF Counts, Place
<1>2. Counts(t, o) /\ t[o] = x /\ t \in Seq(KeyEvent)
  BY <1>1 DEF Counts, Place, Longer
<1>3. Reads(a, I, s, n) /\ n \in 0 .. Len(s)
  BY <1>1 DEF Counts
<1>4. Reads(a, I, t, n)
  BY <1>3, ReadsLonger
<1>5. Reads(a, I, t, o)
  BY <1>1, <1>2, <1>4, ReadsPast
<1> QED
  BY <1>2, <1>5 DEF Counts

LEMMA TypedPause ==
    ASSUME WireTypes, TypedRight, NEW k \in Key, k = "pause", Press(k)
    PROVE  TypedRight'
<1>1. sent' = sent \o <<EventOf(<< 69 >>, TRUE), EventOf(<< 197 >>, FALSE)>> /\ UNCHANGED typed
  BY DEF Press
<1>2. PICK s : s = sent'
  OBVIOUS
<1>3. TwoMore(sent, EventOf(<< 69 >>, TRUE), EventOf(<< 197 >>, FALSE), s) /\ sent \in Seq(KeyEvent)
  BY <1>1, <1>2 DEF TwoMore, WireTypes
<1>4. PICK r : Longer(sent, r, EventOf(<< 69 >>, TRUE)) /\ Longer(r, s, EventOf(<< 197 >>, FALSE))
  BY <1>3, PauseLonger, Zenon
<1>5. PICK x, y : x = EventOf(<< 69 >>, TRUE) /\ y = EventOf(<< 197 >>, FALSE)
  OBVIOUS
<1>8. x \notin Typeable /\ y \notin Typeable
  <2>1. x.code = 69 /\ y.down = FALSE
    <3>1. x = [code |-> 69, down |-> TRUE] /\ y = [code |-> 197, down |-> FALSE]
      BY <1>5, PauseMakes
    <3> QED
      BY <3>1
  <2> QED
    BY <2>1 DEF Typeable, Ignored
<1>9. Longer(sent, r, x) /\ Longer(r, s, y)
  BY <1>4, <1>5
<1>10. Reads(typed, DOMAIN typed, sent, Len(sent))
  BY DEF TypedRight
<1>6. Reads(typed, DOMAIN typed, r, Len(r)) /\ r \in Seq(KeyEvent)
  BY <1>3, <1>8, <1>9, <1>10, TypedAside
<1>7. Reads(typed, DOMAIN typed, s, Len(s))
  BY <1>6, <1>8, <1>9, TypedAside
<1> QED
  BY <1>1, <1>2, <1>7 DEF TypedRight

LEMMA TypedRelease ==
    ASSUME WireTypes, TypedRight, NEW k \in Key, Release(k)
    PROVE  TypedRight'
<1>1. k \in Plain \cup Prefixed
  BY HeldKeys DEF Release, WireTypes
<1>2. PICK x \in KeyEvent : x = [code |-> Code(k) + 128, down |-> FALSE] /\ x = EventOf(Break(k), FALSE)
  BY <1>1, EventsOf
<1>3. sent \in Seq(KeyEvent) /\ sent' = Append(sent, x) /\ UNCHANGED typed
  BY <1>2 DEF WireTypes, Release
<1>4. PICK s : s = sent'
  OBVIOUS
<1>5. Longer(sent, s, x)
  BY <1>3, <1>4, LongerBy
<1>6. x \notin Typeable
  BY <1>2 DEF Typeable
<1>7. Reads(typed, DOMAIN typed, sent, Len(sent))
  BY DEF TypedRight
<1>8. Reads(typed, DOMAIN typed, s, Len(s))
  BY <1>3, <1>5, <1>6, <1>7, TypedAside
<1> QED
  BY <1>3, <1>4, <1>8 DEF TypedRight

LEMMA TypedStep ==
    ASSUME WireTypes, TypedRight, [KeyboardNext]_keyboardVars
    PROVE  TypedRight'
<1>1. CASE \/ UNCHANGED keyboardVars \/ KeyboardTakes \/ KeyboardReplies
           \/ ReadReply \/ ReadPrefix \/ ReadKey \/ ReadBoot \/ ReadLock
           \/ SendAgain \/ SendNext \/ SendLast \/ ReadkeyRemove \/ ReadkeyLook \/ ReadkeySaved
  <2>1. UNCHANGED <<typed, sent>>
    BY <1>1, ReadsKeys, Sends DEF keyboardVars, historyVars, KeyboardTakes, KeyboardReplies, ReadReply, ReadPrefix,
        ReadsKey, ReadKeycode, ReadByte, SendByte, ReadkeyRemove, ReadkeyLook, ReadkeySaved
  <2> QED
    BY <2>1 DEF TypedRight
<1> QED
  BY <1>1, Steps, TypedPress, TypedPause, TypedRelease

LEMMA TypedAlways == KeyboardSpec => []TypedRight
  BY Types, TypedInit, TypedStep, PTL DEF KeyboardSpec

-----------------------------------------------------------------------------
(* What readkey() returns *)

First(r) == {i \in DOMAIN r : r[i].level # "second"}

\* A second code follows its key.
Paired(r) == \A i \in DOMAIN r \ First(r) : i > 1 /\ i - 1 \in First(r) /\ r[i - 1].code = r[i].code

\* The second code c that readkey() has kept.
Kept(r, c) == c # 0 => Len(r) \in First(r) /\ r[Len(r)].code = c

\* It has looked at the events up to m.
Looked(m) ==
    m = IF tmp = <<>> THEN (IF Len(delivered) = 0 THEN 0 ELSE Len(delivered) - 1)
        ELSE (IF Len(delivered) = 1 THEN 0 ELSE Len(delivered) - 2)

Removed == tmp = <<>> \/ (Len(delivered) > 0 /\ tmp = <<delivered[Len(delivered)]>>)

ReadRight ==
    /\ results \in Seq(Result) /\ SaveKey \in 0 .. 255
    /\ Removed
    /\ \E m : Looked(m) /\ Reads(results, First(results), accepted, m)
    /\ Kept(results, SaveKey) /\ Paired(results)

LEMMA FirstIn ==
    ASSUME NEW r \in Seq(Result)
    PROVE  First(r) \in SUBSET (1 .. Len(r)) /\ Len(r) \in Nat /\ DOMAIN r = 1 .. Len(r)
  BY DEF First

LEMMA FirstNext ==
    ASSUME NEW r \in Seq(Result), NEW x \in Result
    PROVE  /\ x.level # "second" => First(Append(r, x)) = First(r) \cup {Len(r) + 1}
           /\ x.level = "second" => First(Append(r, x)) = First(r)
<1>1. PICK t : t = Append(r, x)
  OBVIOUS
<1>2. PICK n \in Nat, o \in Nat : Counts(r, n) /\ Place(n, 1, o)
  BY DEF Counts, Place
<1>3. DOMAIN r = 1 .. n /\ DOMAIN t = 1 .. n \cup {o} /\ t[o] = x /\ \A i \in 1 .. n : t[i] = r[i]
  <2>1. DOMAIN r = 1 .. n /\ DOMAIN t = 1 .. n + 1 /\ t[n + 1] = x /\ \A i \in 1 .. n : t[i] = r[i]
    BY <1>1, <1>2 DEF Counts
  <2>2. 1 .. n + 1 = 1 .. n \cup {n + 1}
    OBVIOUS
  <2> QED
    BY <1>2, <2>1, <2>2 DEF Place
<1>4. x.level # "second" => First(t) = First(r) \cup {o}
  BY <1>3 DEF First
<1>5. x.level = "second" => First(t) = First(r)
  BY <1>3 DEF First
<1> QED
  BY <1>1, <1>2, <1>4, <1>5 DEF Counts, Place

LEMMA PairedNext ==
    ASSUME NEW r \in Seq(Result), NEW x \in Result, Paired(r),
           x.level = "second" => x.code # 0 /\ Kept(r, x.code)
    PROVE  Paired(Append(r, x))
<1>1. PICK t : t = Append(r, x)
  OBVIOUS
<1>2. PICK n \in Nat, o \in Nat : Counts(r, n) /\ Place(n, 1, o)
  BY DEF Counts, Place
<1>3. DOMAIN t = 1 .. n + 1 /\ t[n + 1] = x /\ \A i \in 1 .. n : t[i] = r[i]
  BY <1>1, <1>2 DEF Counts
<1>4. First(r) \subseteq First(t) /\ First(r) \in SUBSET (1 .. n) /\ DOMAIN r = 1 .. n
  BY <1>1, <1>2, FirstNext, FirstIn DEF Counts
<1>5. ASSUME NEW i \in 1 .. n, i \notin First(t)
      PROVE  i > 1 /\ i - 1 \in First(t) /\ t[i - 1].code = t[i].code
  <2>1. i > 1 /\ i - 1 \in First(r) /\ r[i - 1].code = r[i].code
    BY <1>4, <1>5 DEF Paired
  <2> QED
    BY <1>3, <1>4, <2>1
<1>6. ASSUME n + 1 \notin First(t)
      PROVE  n + 1 > 1 /\ n \in First(t) /\ t[n].code = t[n + 1].code
  <2>1. x.level = "second"
    BY <1>3, <1>6 DEF First
  <2>2. n \in First(r) /\ r[n].code = x.code
    BY <1>2, <2>1 DEF Kept, Counts
  <2> QED
    BY <1>3, <1>4, <2>2
<1>7. ASSUME NEW i \in DOMAIN t \ First(t)
      PROVE  i > 1 /\ i - 1 \in First(t) /\ t[i - 1].code = t[i].code
  <2>1. i \in 1 .. n \/ i = n + 1
    BY <1>3
  <2>2. CASE i = n + 1
    <3>1. (n + 1) - 1 = n /\ n + 1 \notin First(t)
      BY <2>2
    <3> QED
      BY <1>6, <2>2, <3>1
  <2> QED
    BY <1>5, <2>1, <2>2
<1> QED
  BY <1>1, <1>7 DEF Paired

LEMMA ReadInit == KeyboardInit => ReadRight
<1> SUFFICES ASSUME KeyboardInit PROVE ReadRight
  OBVIOUS
<1>1. /\ results = <<>> /\ tmp = <<>> /\ SaveKey = 0 /\ delivered = <<>> /\ accepted = <<>>
  BY DEF KeyboardInit, Init
<1>2. First(<<>>) = {}
  BY DEF First
<1>3. Looked(0)
  BY <1>1 DEF Looked
<1>4. Reads(results, First(results), accepted, 0)
  BY <1>1, <1>2, NothingRead
<1>5. Kept(results, SaveKey) /\ Paired(results) /\ Removed
  BY <1>1 DEF Kept, Paired, Removed
<1> QED
  BY <1>1, <1>3, <1>4, <1>5 DEF ReadRight

LEMMA ReadKept ==
    ASSUME ReadRight, UNCHANGED <<readerVars, accepted, delivered>>
    PROVE  ReadRight'
  BY DEF readerVars, ReadRight, Removed, Looked

LEMMA LookedIn ==
    ASSUME IInv, Removed, NEW m, Looked(m)
    PROVE  m \in Nat /\ m <= Len(accepted) /\ Len(accepted) \in Nat
<1>1. Len(delivered) \in Nat /\ Len(accepted) \in Nat /\ Len(delivered) <= Len(accepted)
  BY DEF IInv, TypeOK, LaggedFIFO
<1> QED
  BY <1>1 DEF Looked, Removed

LEMMA ReadInserted ==
    ASSUME IInv, ReadRight, NEW e \in KeyEvent, Insert(e), UNCHANGED readerVars
    PROVE  ReadRight'
<1>1. CASE UNCHANGED bufferVars
  BY <1>1, ReadKept DEF bufferVars
<1>2. CASE accepted' = Append(accepted, e) /\ UNCHANGED delivered
  <2>1. PICK m : Looked(m) /\ Reads(results, First(results), accepted, m)
    BY DEF ReadRight
  <2>2. accepted \in Seq(KeyEvent)
    BY KeyAssumption DEF IInv, TypeOK
  <2>3. m \in 0 .. Len(accepted)
    BY <2>1, LookedIn DEF ReadRight
  <2>4. PICK t : t = accepted'
    OBVIOUS
  <2>5. Longer(accepted, t, e)
    BY <1>2, <2>2, <2>4, LongerBy
  <2>6. Reads(results, First(results), t, m)
    BY <2>1, <2>2, <2>3, <2>5, ReadsLonger
  <2>7. Looked(m)' /\ Removed'
    BY <1>2, <2>1 DEF Looked, readerVars, ReadRight, Removed
  <2>8. UNCHANGED <<results, SaveKey>>
    BY DEF readerVars
  <2> QED
    BY <2>4, <2>6, <2>7, <2>8 DEF ReadRight
<1> QED
  BY <1>1, <1>2 DEF Insert, KeybInsert

LEMMA ReadRemoved ==
    ASSUME IInv, ReadRight, ReadkeyRemove
    PROVE  ReadRight'
<1>1. PICK e : e = keyb_scbuffer[keyb_sc_tail]
  OBVIOUS
<1>2. /\ tmp = <<>> /\ tmp' = <<e>> /\ delivered' = Append(delivered, e)
      /\ UNCHANGED <<accepted, results, SaveKey>>
  BY <1>1 DEF ReadkeyRemove, KeybRemove
<1>3. PICK n \in Nat : Counts(delivered, n)
  BY DEF IInv, TypeOK, Counts
<1>4. Len(delivered') = n + 1 /\ delivered'[n + 1] = e
  <2>1. e \in Event \cup {Zero} /\ delivered \in Seq(Event \cup {Zero})
    BY <1>1 DEF IInv, TypeOK
  <2> QED
    BY <1>2, <1>3, <2>1, AppendProperties DEF Counts
<1>5. Removed'
  BY <1>2, <1>3, <1>4 DEF Removed
<1>6. PICK m : Looked(m) /\ Reads(results, First(results), accepted, m)
  BY DEF ReadRight
<1>7. tmp' # <<>>
  BY <1>2
<1>8. Looked(m)'
  BY <1>2, <1>3, <1>4, <1>6, <1>7 DEF Looked, Counts
<1> QED
  BY <1>2, <1>5, <1>6, <1>8 DEF ReadRight

\* The first entry was never put into the buffer; the others were.
LEMMA LookedNext ==
    ASSUME IInv, Removed, ReadkeyLook, NEW x, x = tmp[1], NEW m, Looked(m), NEW o, Place(m, 1, o)
    PROVE  \/ Looked(m)' /\ x = Untouched
           \/ Looked(o)' /\ x = accepted[o] /\ o \in 1 .. Len(accepted)
<1>1. PICK n \in Nat : Counts(delivered, n)
  BY DEF IInv, TypeOK, Counts
<1>2. n > 0 /\ tmp = <<delivered[n]>> /\ tmp' = <<>> /\ UNCHANGED <<delivered, accepted>> /\ tmp # <<>>
  BY <1>1 DEF Removed, ReadkeyLook, queueVars, bufferVars, Counts
<1>3. x = delivered[n]
  BY <1>2
<1>4. n <= Len(accepted) /\ Len(accepted) \in Nat /\ x = (IF n = 1 THEN Zero ELSE accepted[n - 1])
  <2>1. n \in 1 .. Len(delivered)
    BY <1>1, <1>2 DEF Counts
  <2>2. delivered[n] = Lagged(n)
    BY <2>1 DEF IInv, LaggedFIFO
  <2> QED
    BY <1>1, <1>3, <2>2 DEF IInv, TypeOK, LaggedFIFO, Counts, Lagged
<1>5. CASE n = 1
  <2>1. m = 0 /\ Looked(m)'
    BY <1>1, <1>2, <1>5 DEF Looked, Counts
  <2> QED
    BY <1>4, <1>5, <2>1, KeyAssumption
<1>6. CASE n # 1
  <2>1. m = n - 2 /\ o = n - 1
    <3>1. m = n - 2
      BY <1>1, <1>2, <1>6 DEF Looked, Counts
    <3> QED
      BY <1>1, <3>1 DEF Place
  <2>2. Looked(o)'
    BY <1>1, <1>2, <2>1 DEF Looked, Counts
  <2>3. o \in 1 .. Len(accepted) /\ x = accepted[o]
    BY <1>1, <1>2, <1>4, <1>6, <2>1
  <2> QED
    BY <2>2, <2>3
<1> QED
  BY <1>5, <1>6

LEMMA ReadLooked ==
    ASSUME IInv, ReadRight, ReadkeyLook
    PROVE  ReadRight'
<1>1. PICK x : x = tmp[1]
  OBVIOUS
<1>2. PICK m : Looked(m) /\ Reads(results, First(results), accepted, m)
  BY DEF ReadRight
<1>3. m \in Nat /\ Removed /\ results \in Seq(Result) /\ accepted \in Seq(KeyEvent)
  BY <1>2, LookedIn, KeyAssumption DEF ReadRight, IInv, TypeOK
<1>4. PICK o \in Nat : Place(m, 1, o)
  BY <1>3 DEF Place
<1>5. \/ Looked(m)' /\ x = Untouched
      \/ Looked(o)' /\ x = accepted[o] /\ o \in 1 .. Len(accepted)
  BY <1>1, <1>2, <1>3, <1>4, LookedNext
<1>6. tmp' = <<>> /\ UNCHANGED accepted
  BY DEF ReadkeyLook, queueVars, bufferVars
<1>7. CASE x.down /\ x.code \notin Ignored
  <2>1. x # Untouched
    <3>1. Untouched.down = FALSE
      BY DEF Untouched
    <3> QED
      BY <1>7, <3>1
  <2>2. Looked(o)' /\ x = accepted[o] /\ o \in 1 .. Len(accepted) /\ x \in KeyEvent
    BY <1>3, <1>5, <2>1
  <2>3. x \in Typeable
    BY <1>7, <2>2 DEF Typeable
  <2>4. PICK c \in 0 .. 255 : c = x.code
    BY <2>2 DEF KeyEvent
  <2>5. PICK l \in {"alt", "num", "shift", "norm"} :
          results' = Append(results, [code |-> c, level |-> l]) /\ SaveKey' = Second(c, l)
    BY <1>1, <1>7, <2>4, Levels DEF ReadkeyLook
  <2>6. PICK r \in Result : r = [code |-> c, level |-> l]
    BY DEF Result
  <2>7. r.code = c /\ r.level # "second" /\ results' = Append(results, r)
    BY <2>5, <2>6
  <2>8. First(results) \in SUBSET (1 .. Len(results)) /\ Len(results) \in Nat
    BY <1>3, FirstIn
  <2>9. Reads(Append(results, r), First(results) \cup {Len(results) + 1}, accepted, o)
    <3>1. r.code = accepted[o].code /\ accepted[o] \in Typeable
      BY <2>2, <2>3, <2>4, <2>7
    <3> QED
      BY <1>2, <1>3, <1>4, <2>2, <2>8, <3>1, ResultCodes, ReadsOn
  <2>10. First(results') = First(results) \cup {Len(results) + 1} /\ results' \in Seq(Result)
    BY <1>3, <2>7, FirstNext
  <2>11. Paired(results')
    BY <1>3, <2>7, PairedNext DEF ReadRight
  <2>12. Len(results') = Len(results) + 1 /\ results'[Len(results) + 1] = r
    BY <1>3, <2>7, AppendProperties
  <2>13. SaveKey' \in {0, c}
    BY <2>5 DEF Second
  <2>14. Kept(results', SaveKey') /\ SaveKey' \in 0 .. 255
    BY <2>7, <2>8, <2>10, <2>12, <2>13 DEF Kept
  <2> QED
    BY <1>6, <2>2, <2>7, <2>9, <2>10, <2>11, <2>14 DEF ReadRight, Removed
<1>8. CASE ~(x.down /\ x.code \notin Ignored)
  <2>1. UNCHANGED <<results, SaveKey>>
    BY <1>1, <1>8 DEF ReadkeyLook
  <2>2. ASSUME Looked(o)', x = accepted[o], o \in 1 .. Len(accepted)
        PROVE  Reads(results, First(results), accepted, o)
    <3>1. accepted[o] \notin Typeable
      BY <1>8, <2>2 DEF Typeable
    <3> QED
      BY <1>2, <1>3, <1>4, <3>1, ReadsPast
  <2>3. \E k : Looked(k)' /\ Reads(results, First(results), accepted, k)
    BY <1>2, <1>5, <2>2
  <2> QED
    BY <1>6, <2>1, <2>3 DEF ReadRight, Removed
<1> QED
  BY <1>7, <1>8

LEMMA ReadSaved ==
    ASSUME ReadRight, ReadkeySaved
    PROVE  ReadRight'
<1>1. /\ SaveKey # 0 /\ results' = Append(results, [code |-> SaveKey, level |-> "second"])
      /\ SaveKey' = 0 /\ UNCHANGED <<accepted, delivered, tmp>>
  BY DEF ReadkeySaved, queueVars, bufferVars
<1>2. PICK c \in 0 .. 255 : c = SaveKey
  BY DEF ReadRight
<1>3. PICK r \in Result : r = [code |-> c, level |-> "second"]
  BY DEF Result
<1>4. r.code = c /\ r.level = "second" /\ results' = Append(results, r) /\ results \in Seq(Result)
  BY <1>1, <1>2, <1>3 DEF ReadRight
<1>5. PICK m : Looked(m) /\ Reads(results, First(results), accepted, m)
  BY DEF ReadRight
<1>6. Reads(Append(results, r), First(results), accepted, m)
  BY <1>4, <1>5, FirstIn, ResultCodes, ReadsAside
<1>7. First(results') = First(results) /\ results' \in Seq(Result)
  BY <1>4, FirstNext
<1>8. Paired(results')
  <2>1. Paired(results) /\ Kept(results, c) /\ c # 0
    BY <1>1, <1>2 DEF ReadRight
  <2> QED
    BY <1>4, <2>1, PairedNext
<1>9. Looked(m)' /\ Removed'
  BY <1>1, <1>5 DEF Looked, ReadRight, Removed
<1>10. Kept(results', SaveKey')
  BY <1>1 DEF Kept
<1> QED
  BY <1>1, <1>4, <1>6, <1>7, <1>8, <1>9, <1>10 DEF ReadRight

LEMMA ReadStep ==
    ASSUME LedsInv, WireTypes, IInv, ReadRight, [KeyboardNext]_keyboardVars
    PROVE  ReadRight'
<1>1. CASE \/ UNCHANGED keyboardVars \/ KeyboardTakes \/ KeyboardReplies
           \/ ReadReply \/ ReadPrefix \/ ReadBoot \/ ReadLock \/ SendAgain \/ SendNext
  <2>1. UNCHANGED <<readerVars, accepted, delivered>>
    BY <1>1 DEF keyboardVars, queueVars, bufferVars, KeyboardTakes, KeyboardReplies, ReadReply, ReadPrefix,
        ReadBoot, ReadLock, ReadKeycode, ReadByte, SendAgain, SendNext, SendByte
  <2> QED
    BY <2>1, ReadKept
<1>2. ASSUME NEW k \in Key, Press(k) \/ Release(k) PROVE ReadRight'
  <2>1. UNCHANGED <<readerVars, accepted, delivered>>
    BY <1>2 DEF queueVars, bufferVars, Press, Release
  <2> QED
    BY <2>1, ReadKept
<1>3. CASE ReadKey
  <2>1. PICK b : b = Head(wire).code
    OBVIOUS
  <2>2. PICK e \in KeyEvent : e = [code |-> b, down |-> b < 128] /\ Insert(e)
    BY <1>3, <2>1, KeyInserted, KeyAssumption
  <2>3. UNCHANGED readerVars
    BY <1>3 DEF ReadKey, ReadKeycode, ReadByte
  <2> QED
    BY <2>2, <2>3, ReadInserted
<1>4. CASE SendLast
  <2>1. PICK c : c = Frame.code
    OBVIOUS
  <2>2. UNCHANGED readerVars
    BY <1>4 DEF SendLast, SendByte
  <2>3. CASE c = 0
    <3>1. UNCHANGED queueVars
      BY <1>4, <2>1, <2>3, LastInserted
    <3> QED
      BY <2>2, <3>1, ReadKept DEF queueVars, bufferVars
  <2>4. CASE c # 0
    <3>1. PICK e \in KeyEvent : e = [code |-> c, down |-> FALSE] /\ Insert(e)
      BY <1>4, <2>1, <2>4, LastInserted, KeyAssumption
    <3> QED
      BY <2>2, <3>1, ReadInserted
  <2> QED
    BY <2>3, <2>4
<1> QED
  BY <1>1, <1>2, <1>3, <1>4, Steps, ReadRemoved, ReadLooked, ReadSaved

LEMMA ReadAlways == KeyboardSpec => []ReadRight
  BY LedsAlways, Types, BufferAlways, ReadInit, ReadStep, PTL DEF KeyboardSpec

\* The key that was typed, for an event that is sent.
LEMMA TypedFor ==
    ASSUME WireTypes, TypedRight, NEW l \in Counted(sent, Typeable), NEW t,
           t = Upto(Counted(sent, Typeable), l)
    PROVE  t <= Len(typed) /\ typed[t].code = sent[l].code
<1>1. PICK S : S = Counted(sent, Typeable)
  OBVIOUS
<1>2. PICK n \in Nat, p \in Nat : Counts(sent, n) /\ Counts(typed, p) /\ DOMAIN typed = 1 .. p
  BY DEF WireTypes, TypedRight, Counts
<1>3. S \in SUBSET (1 .. n) /\ S \in SUBSET (Nat \ {0}) /\ l \in S /\ sent \in Seq(KeyEvent)
  BY <1>1, <1>2, CountedIn DEF WireTypes, Counts
<1>4. Follows(Codes(typed), 1 .. p, Codes(sent), S, n)
  BY <1>1, <1>2 DEF TypedRight, Reads, Counts
<1>5. Cardinality(S) = p
  <2>1. Cardinality(1 .. p) = Upto(S, n)
    BY <1>4 DEF Follows
  <2>2. Upto(S, n) = Cardinality(S)
    BY <1>2, <1>3, UptoAll
  <2>3. Cardinality(1 .. p) = p
    BY <1>2, FS_Interval
  <2> QED
    BY <2>1, <2>2, <2>3
<1>6. t \in 1 .. p
  BY <1>1, <1>2, <1>3, <1>5, UptoBounds
<1>7. PICK j \in S : Upto(1 .. p, t) = Upto(S, j) /\ Codes(typed)[t] = Codes(sent)[j]
  BY <1>4, <1>6 DEF Follows
<1>8. Upto(S, j) = Upto(S, l)
  BY <1>1, <1>2, <1>6, <1>7, UptoOfAll
<1>9. j = l
  BY <1>3, <1>7, <1>8, UptoInjective
<1>10. Codes(typed)[t] = typed[t].code
  BY <1>2, <1>6, ResultCodes, CodesIn DEF TypedRight, Counts
<1>11. Codes(sent)[j] = sent[j].code
  BY <1>2, <1>3, <1>7, EventCodes, CodesIn DEF Counts
<1> QED
  BY <1>2, <1>6, <1>7, <1>9, <1>10, <1>11 DEF Counts

(***************************************************************************)
(* What readkey() returns are the keys that were pressed, in their order:  *)
(* through the handler, the buffer with its entry that was never put in,   *)
(* and readkey() itself, which passes over some events and keeps the second*)
(* code of others for its next call.                                       *)
(***************************************************************************)
THEOREM KeysRead == KeyboardSpec => []KeysReadInOrder
<1>1. ASSUME WireTypes, IInv, AlongBoth, TypedRight, ReadRight PROVE KeysReadInOrder
  <2>1. ASSUME ~dropped, NEW i \in First(results), NEW t, t = Upto(First(results), i)
        PROVE  t <= Len(typed) /\ results[i].code = typed[t].code
    <3>1. PICK m : Reads(results, First(results), accepted, m)
      BY <1>1 DEF ReadRight
    <3>2. PICK j \in Counted(accepted, Typeable) :
             t = Upto(Counted(accepted, Typeable), j) /\ Codes(results)[i] = Codes(accepted)[j]
      BY <2>1, <3>1 DEF Reads, Follows
    <3>3. PICK n : Catches(accepted, sent, Typeable, n)
      BY <1>1, <2>1 DEF AlongBoth, Along, Caught
    <3>4. PICK l \in Counted(sent, Typeable) :
             Upto(Counted(accepted, Typeable), j) = Upto(Counted(sent, Typeable), l) /\ accepted[j] = sent[l]
      BY <3>3 DEF Catches, Follows
    <3>5. t <= Len(typed) /\ typed[t].code = sent[l].code
      BY <1>1, <3>2, <3>4, TypedFor
    <3>6. Codes(results)[i] = results[i].code
      <4>1. results \in Seq(Result) /\ i \in 1 .. Len(results)
        BY <1>1, <2>1, FirstIn DEF ReadRight
      <4> QED
        BY <4>1, ResultCodes, CodesIn
    <3>7. Codes(accepted)[j] = accepted[j].code
      <4>1. accepted \in Seq(KeyEvent)
        BY <1>1, KeyAssumption DEF IInv, TypeOK
      <4>2. j \in 1 .. Len(accepted)
        BY <3>2, <4>1, CountedIn
      <4> QED
        BY <4>1, <4>2, EventCodes, CodesIn
    <3> QED
      BY <3>2, <3>4, <3>5, <3>6, <3>7
  <2>2. Paired(results)
    BY <1>1 DEF ReadRight
  <2> QED
    BY <2>1, <2>2 DEF KeysReadInOrder, First, Paired
<1> QED
  BY <1>1, AlongAlways, Types, BufferAlways, TypedAlways, ReadAlways, PTL
=============================================================================
