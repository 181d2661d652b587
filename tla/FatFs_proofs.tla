---------------------------- MODULE FatFs_proofs ----------------------------
(***************************************************************************)
(* What fs_fat_init() calls OK is whole, listings are complete, and every  *)
(* handle yields its file in order: for all directories, tables, patterns, *)
(* numbers of handles and of failed reads.                                 *)
(***************************************************************************)
EXTENDS FatFs, NaturalFacts

Cluster == 0 .. 4095

LEMMA Clusters ==
    /\ DOMAIN Table \subseteq Cluster
    /\ \A c \in DOMAIN Table : Table[c] \in Cluster
    /\ 4095 \in Cluster /\ 4095 \notin DOMAIN Table
    /\ \A c \in Cluster : Links(Table)[c] = IF c \in DOMAIN Table THEN Table[c] ELSE 4095
<1>1. \A c \in 0 .. fat_end - 1 : c \in Cluster /\ c # 4095
  BY DEF Cluster, fat_end
<1>2. DOMAIN Table \subseteq Cluster /\ 4095 \notin DOMAIN Table
  BY <1>1, TableAssumption
<1>3. \A c \in DOMAIN Table : Table[c] \in Cluster
  BY TableAssumption DEF Cluster
<1>4. 4095 \in Cluster
  BY DEF Cluster
<1>5. \A c \in Cluster : Links(Table)[c] = IF c \in DOMAIN Table THEN Table[c] ELSE 4095
  <2>1. Links(Table) = [c \in Cluster |-> IF c \in DOMAIN Table THEN Table[c] ELSE 4095]
    BY DEF Links, Cluster
  <2> HIDE DEF Cluster
  <2> QED
    BY <2>1
<1> QED
  BY <1>2, <1>3, <1>4, <1>5

\* What the buffer for the table may hold.
LEMMA Buffers ==
    ASSUME NEW t \in GarbageTables \cup {Table}
    PROVE  /\ \A c \in DOMAIN Table : c \in DOMAIN t /\ t[c] \in Cluster
           /\ Within(Links(t), Cluster)
<1>1. t \in [DOMAIN Table -> Cluster]
  BY TableAssumption DEF Cluster
<1>2. Links(t) = [c \in Cluster |-> IF c \in DOMAIN t THEN t[c] ELSE 4095]
  BY DEF Links, Cluster
<1>3. 4095 \in Cluster
  BY DEF Cluster
<1> HIDE DEF Cluster
<1>4. \A c \in Cluster : Links(t)[c] \in Cluster
  BY <1>1, <1>2, <1>3
<1> QED
  BY <1>1, <1>4 DEF Within

-----------------------------------------------------------------------------
(* Searching *)

LEMMA MinIsLeast ==
    ASSUME NEW S \in SUBSET Nat, S # {}
    PROVE  Min(S) \in S /\ \A i \in S : Min(S) <= i
<1>1. PICK x \in S : \A y \in S : x <= y
  BY LeastNat
<1> QED
  BY <1>1 DEF Min

LEMMA FileNameIsString ==
    ASSUME NEW e \in Entries
    PROVE  FileName(e) \in Seq(Char)
<1>1. "." \in Char
  BY DirectoryAssumption
<1>2. e.base \in Seq(Char) /\ e.ext \in Seq(Char) /\ <<".">> \in Seq(Char)
  BY <1>1 DEF Entries
<1> QED
  BY <1>2 DEF FileName

LEMMA OneMore ==
    ASSUME NEW T, NEW t \in Seq(T), NEW x \in T
    PROVE  <<x>> \in Seq(T) /\ Append(t, x) \in Seq(T)
  OBVIOUS

LEMMA UpToNext ==
    ASSUME NEW H \in SUBSET Nat, NEW p \in Nat, NEW q \in H, p < q, \A i \in H : p < i => q <= i
    PROVE  /\ {i \in H : i <= q} = {i \in H : i <= p} \cup {q}
           /\ \A i \in {j \in H : j <= p} : i < q
<1>1. q \in Nat /\ \A i \in H : i \in Nat
  OBVIOUS
<1>2. \A i \in H : i <= q <=> i <= p \/ i = q
  BY <1>1
<1>3. {i \in H : i <= q} = {i \in H : i <= p \/ i = q}
  BY <1>2
<1>4. {i \in H : i <= p \/ i = q} = {i \in H : i <= p} \cup {q}
  OBVIOUS
<1> QED
  BY <1>1, <1>3, <1>4

\* The names in l are those of the entries S of d, in order.
Lists(l, d, S) ==
    \E at \in [1 .. Len(l) -> S] :
        /\ \A k, i \in 1 .. Len(l) : k < i => at[k] < at[i]
        /\ \A i \in S : \E k \in 1 .. Len(l) : at[k] = i
        /\ \A k \in 1 .. Len(l) : l[k] = FileName(d[at[k]])

LEMMA ListsNothing ==
    ASSUME NEW d
    PROVE  Lists(<<>>, d, {})
<1>1. Len(<<>>) = 0 /\ 1 .. 0 = {}
  OBVIOUS
<1>2. [k \in 1 .. 0 |-> 0] \in [1 .. Len(<<>>) -> {}]
  BY <1>1
<1> QED
  BY <1>1, <1>2 DEF Lists

\* One more name, of an entry behind all of them.
LEMMA ListsNext ==
    ASSUME NEW l \in Seq(Seq(Char)), NEW d, NEW S \in SUBSET Nat, Lists(l, d, S),
           NEW q \in Nat, \A i \in S : i < q, FileName(d[q]) \in Seq(Char)
    PROVE  Lists(Append(l, FileName(d[q])), d, S \cup {q})
<1>1. PICK at \in [1 .. Len(l) -> S] :
         /\ \A k, i \in 1 .. Len(l) : k < i => at[k] < at[i]
         /\ \A i \in S : \E k \in 1 .. Len(l) : at[k] = i
         /\ \A k \in 1 .. Len(l) : l[k] = FileName(d[at[k]])
  BY DEF Lists
<1>2. PICK n \in Nat : n = Len(l)
  OBVIOUS
<1>3. PICK m : m = Append(l, FileName(d[q]))
  OBVIOUS
<1>4. /\ Len(m) = n + 1
      /\ \A k \in 1 .. n : m[k] = l[k]
      /\ m[n + 1] = FileName(d[q])
  BY <1>2, <1>3
<1> DEFINE to == [k \in 1 .. n + 1 |-> IF k = n + 1 THEN q ELSE at[k]]
<1>5. /\ to[n + 1] = q
      /\ \A k \in 1 .. n : to[k] = at[k] /\ at[k] \in S
      /\ \A k \in 1 .. n + 1 : k = n + 1 \/ k \in 1 .. n
  <2>1. /\ n + 1 \in 1 .. n + 1
        /\ \A k \in 1 .. n : k \in 1 .. n + 1 /\ k # n + 1
        /\ \A k \in 1 .. n + 1 : k = n + 1 \/ k \in 1 .. n
    OBVIOUS
  <2> QED
    BY <1>1, <1>2, <2>1
<1>6. to \in [1 .. n + 1 -> S \cup {q}]
  BY <1>5
<1> HIDE DEF to
<1>7. ASSUME NEW k \in 1 .. n + 1, NEW i \in 1 .. n + 1, k < i PROVE to[k] < to[i]
  <2>1. k \in 1 .. n
    BY <1>7
  <2>2. CASE i = n + 1
    BY <1>5, <2>1, <2>2
  <2>3. CASE i \in 1 .. n
    BY <1>1, <1>2, <1>5, <1>7, <2>1, <2>3
  <2> QED
    BY <1>5, <2>2, <2>3
<1>8. ASSUME NEW i \in S \cup {q} PROVE \E k \in 1 .. n + 1 : to[k] = i
  <2>1. n + 1 \in 1 .. n + 1 /\ \A k \in 1 .. n : k \in 1 .. n + 1
    OBVIOUS
  <2>2. CASE i = q
    BY <1>5, <2>1, <2>2
  <2>3. CASE i \in S
    <3>1. PICK k \in 1 .. n : at[k] = i
      BY <1>1, <1>2, <2>3
    <3> QED
      BY <1>5, <2>1, <3>1
  <2> QED
    BY <2>2, <2>3
<1>9. ASSUME NEW k \in 1 .. n + 1 PROVE m[k] = FileName(d[to[k]])
  <2>1. CASE k = n + 1
    BY <1>4, <1>5, <2>1
  <2>2. CASE k \in 1 .. n
    BY <1>1, <1>2, <1>4, <1>5, <2>2
  <2> QED
    BY <1>5, <2>1, <2>2
<1>10. Lists(m, d, S \cup {q})
  BY <1>4, <1>6, <1>7, <1>8, <1>9 DEF Lists
<1> QED
  BY <1>3, <1>10

-----------------------------------------------------------------------------
(* wildcmp() *)

\* The pattern from its i-th character on matches the name from its j-th on.
Rest(w, s, i, j) ==
    \E to \in [i - 1 .. Len(w) -> 0 .. Len(s)] :
        /\ to[i - 1] = j - 1 /\ to[Len(w)] = Len(s)
        /\ \A x \in i .. Len(w) :
              IF w[x] = "*" THEN to[x - 1] <= to[x]
              ELSE to[x] = to[x - 1] + 1 /\ w[x] \in {s[to[x]], "?"}

LEMMA MatchesIsRest ==
    ASSUME NEW w, NEW s
    PROVE  Matches(w, s) <=> Rest(w, s, 1, 1)
  BY DEF Matches, Rest

LEMMA RestEnd ==
    ASSUME NEW C, NEW w \in Seq(C), NEW s \in Seq(C), NEW j \in 1 .. Len(s) + 1
    PROVE  Rest(w, s, Len(w) + 1, j) <=> j = Len(s) + 1
<1>1. PICK n \in Nat, m \in Nat : n = Len(w) /\ m = Len(s)
  OBVIOUS
<1>2. ASSUME j = m + 1 PROVE Rest(w, s, n + 1, j)
  <2> DEFINE to == [x \in n + 1 - 1 .. n |-> m]
  <2>1. to \in [n + 1 - 1 .. n -> 0 .. m] /\ to[n + 1 - 1] = j - 1 /\ to[n] = m
    BY <1>1, <1>2
  <2>2. n + 1 .. n = {}
    BY <1>1
  <2> HIDE DEF to
  <2> QED
    BY <1>1, <2>1, <2>2 DEF Rest
<1>3. ASSUME Rest(w, s, n + 1, j) PROVE j = m + 1
  <2>1. PICK to : to[n + 1 - 1] = j - 1 /\ to[n] = m
    BY <1>1, <1>3 DEF Rest
  <2>2. n + 1 - 1 = n
    BY <1>1
  <2> QED
    BY <1>1, <2>1, <2>2
<1> QED
  BY <1>1, <1>2, <1>3

\* The next character of the pattern, and where it may leave the name.
Takes(w, s, i, j, q) ==
    IF w[i] = "*" THEN j <= q ELSE j <= Len(s) /\ q = j + 1 /\ w[i] \in {s[j], "?"}

LEMMA RestStep ==
    ASSUME NEW C, NEW w \in Seq(C), NEW s \in Seq(C),
           NEW i \in 1 .. Len(w), NEW j \in 1 .. Len(s) + 1
    PROVE  Rest(w, s, i, j) <=> \E q \in 1 .. Len(s) + 1 : Takes(w, s, i, j, q) /\ Rest(w, s, i + 1, q)
<1>1. PICK n \in Nat, m \in Nat : n = Len(w) /\ m = Len(s)
  OBVIOUS
<1>2. i \in Nat /\ 1 <= i /\ i <= n /\ j \in Nat /\ 1 <= j /\ j <= m + 1 /\ i + 1 - 1 = i
  BY <1>1
<1>3. ASSUME Rest(w, s, i, j)
      PROVE  \E q \in 1 .. m + 1 : Takes(w, s, i, j, q) /\ Rest(w, s, i + 1, q)
  <2>1. PICK to \in [i - 1 .. n -> 0 .. m] :
          /\ to[i - 1] = j - 1 /\ to[n] = m
          /\ \A x \in i .. n : IF w[x] = "*" THEN to[x - 1] <= to[x]
                               ELSE to[x] = to[x - 1] + 1 /\ w[x] \in {s[to[x]], "?"}
    BY <1>1, <1>3 DEF Rest
  <2> DEFINE on == [x \in i .. n |-> to[x]]
  <2>2. \A x \in i .. n : x \in i - 1 .. n /\ on[x] = to[x] /\ to[x] \in 0 .. m
    BY <1>2, <2>1
  <2>3. on \in [i .. n -> 0 .. m]
    BY <2>2
  <2>4. \A x \in i + 1 .. n : x \in i .. n /\ x - 1 \in i .. n
    BY <1>2
  <2>5. i \in i .. n /\ n \in i .. n
    BY <1>1, <1>2
  <2>6. PICK q : q = to[i] + 1
    OBVIOUS
  <2>7. q \in 1 .. m + 1 /\ q - 1 = to[i]
    BY <1>1, <2>2, <2>5, <2>6
  <2> HIDE DEF on
  <2>8. Rest(w, s, i + 1, q)
    <3>1. PICK k : k = i + 1
      OBVIOUS
    <3>2. on \in [k - 1 .. n -> 0 .. m] /\ on[k - 1] = q - 1 /\ on[n] = m
      BY <1>2, <2>1, <2>2, <2>3, <2>5, <2>7, <3>1
    <3>3. \A x \in k .. n : IF w[x] = "*" THEN on[x - 1] <= on[x]
                            ELSE on[x] = on[x - 1] + 1 /\ w[x] \in {s[on[x]], "?"}
      BY <2>1, <2>2, <2>4, <3>1
    <3>4. Rest(w, s, k, q)
      BY <1>1, <3>2, <3>3 DEF Rest
    <3> QED
      BY <3>1, <3>4
  <2>9. Takes(w, s, i, j, q)
    <3>1. IF w[i] = "*" THEN j - 1 <= to[i] ELSE to[i] = j - 1 + 1 /\ w[i] \in {s[to[i]], "?"}
      BY <2>1, <2>5
    <3> QED
      BY <1>1, <1>2, <2>7, <3>1 DEF Takes
  <2> QED
    BY <2>7, <2>8, <2>9
<1>4. ASSUME NEW q \in 1 .. m + 1, Takes(w, s, i, j, q), Rest(w, s, i + 1, q)
      PROVE  Rest(w, s, i, j)
  <2>1. PICK to \in [i .. n -> 0 .. m] :
          /\ to[i] = q - 1 /\ to[n] = m
          /\ \A x \in i + 1 .. n : IF w[x] = "*" THEN to[x - 1] <= to[x]
                               ELSE to[x] = to[x - 1] + 1 /\ w[x] \in {s[to[x]], "?"}
    BY <1>1, <1>2, <1>4 DEF Rest
  <2> DEFINE on == [x \in i - 1 .. n |-> IF x = i - 1 THEN j - 1 ELSE to[x]]
  <2>2. /\ i - 1 \in i - 1 .. n
        /\ \A x \in i .. n : x \in i - 1 .. n /\ x # i - 1 /\ to[x] \in 0 .. m
        /\ \A x \in i - 1 .. n : x = i - 1 \/ x \in i .. n
    BY <1>2, <2>1
  <2>3. on[i - 1] = j - 1 /\ \A x \in i .. n : on[x] = to[x]
    BY <2>2
  <2>4. on \in [i - 1 .. n -> 0 .. m]
    BY <1>1, <1>2, <2>2
  <2>5. n \in i .. n /\ i \in i .. n
    BY <1>1, <1>2
  <2>6. \A x \in i .. n : x = i \/ (x \in i + 1 .. n /\ x - 1 \in i .. n)
    BY <1>2
  <2> HIDE DEF on
  <2>7. IF w[i] = "*" THEN on[i - 1] <= on[i]
        ELSE on[i] = on[i - 1] + 1 /\ w[i] \in {s[on[i]], "?"}
    <3>1. on[i] = q - 1
      BY <2>1, <2>3, <2>5
    <3> QED
      BY <1>1, <1>2, <1>4, <2>3, <3>1 DEF Takes
  <2>8. \A x \in i .. n : IF w[x] = "*" THEN on[x - 1] <= on[x]
                          ELSE on[x] = on[x - 1] + 1 /\ w[x] \in {s[on[x]], "?"}
    BY <2>1, <2>3, <2>6, <2>7
  <2> QED
    BY <1>1, <2>1, <2>3, <2>4, <2>5, <2>8 DEF Rest
<1> QED
  BY <1>1, <1>3, <1>4

LEMMA RestStar ==
    ASSUME NEW C, NEW w \in Seq(C), NEW s \in Seq(C),
           NEW i \in 1 .. Len(w), NEW j \in 1 .. Len(s) + 1, w[i] = "*"
    PROVE  Rest(w, s, i, j) <=> \E q \in j .. Len(s) + 1 : Rest(w, s, i + 1, q)
<1>1. PICK m \in Nat : m = Len(s)
  OBVIOUS
<1>2. Rest(w, s, i, j) <=> \E q \in 1 .. m + 1 : Takes(w, s, i, j, q) /\ Rest(w, s, i + 1, q)
  BY <1>1, RestStep
<1>3. \A q \in 1 .. m + 1 : Takes(w, s, i, j, q) <=> q \in j .. m + 1
  BY <1>1 DEF Takes
<1>4. \A q \in j .. m + 1 : q \in 1 .. m + 1
  BY <1>1
<1> QED
  BY <1>1, <1>2, <1>3, <1>4

LEMMA RestOther ==
    ASSUME NEW C, NEW w \in Seq(C), NEW s \in Seq(C),
           NEW i \in 1 .. Len(w), NEW j \in 1 .. Len(s) + 1, w[i] # "*"
    PROVE  Rest(w, s, i, j) <=> j <= Len(s) /\ w[i] \in {s[j], "?"} /\ Rest(w, s, i + 1, j + 1)
<1>1. PICK m \in Nat : m = Len(s)
  OBVIOUS
<1>2. Rest(w, s, i, j) <=> \E q \in 1 .. m + 1 : Takes(w, s, i, j, q) /\ Rest(w, s, i + 1, q)
  BY <1>1, RestStep
<1>3. \A q \in 1 .. m + 1 : Takes(w, s, i, j, q) <=> j <= m /\ q = j + 1 /\ w[i] \in {s[j], "?"}
  BY <1>1 DEF Takes
<1>4. j <= m => j + 1 \in 1 .. m + 1
  BY <1>1
<1> QED
  BY <1>1, <1>2, <1>3, <1>4

\* The end of the name leaves room for nothing but stars.
LEMMA RestStars ==
    ASSUME NEW C, NEW w \in Seq(C), NEW s \in Seq(C), NEW i \in 1 .. Len(w) + 1
    PROVE  Rest(w, s, i, Len(s) + 1) <=> \A x \in i .. Len(w) : w[x] = "*"
<1>1. PICK n \in Nat, m \in Nat : n = Len(w) /\ m = Len(s)
  OBVIOUS
<1> DEFINE P(k) == Rest(w, s, k, m + 1) <=> \A x \in k .. n : w[x] = "*"
           T == {d \in Nat : d <= n /\ ~P(n + 1 - d)}
<1>2. P(n + 1)
  <2>1. n + 1 .. n = {} /\ m + 1 \in 1 .. m + 1
    BY <1>1
  <2> QED
    BY <1>1, <2>1, RestEnd
<1>3. ASSUME NEW k \in 1 .. n, P(k + 1) PROVE P(k)
  <2>1. \A x \in k .. n : x = k \/ x \in k + 1 .. n
    BY <1>1
  <2>2. k \in k .. n /\ \A x \in k + 1 .. n : x \in k .. n
    BY <1>1
  <2>3. (\A x \in k .. n : w[x] = "*") <=> w[k] = "*" /\ \A x \in k + 1 .. n : w[x] = "*"
    BY <2>1, <2>2
  <2>4. m + 1 \in 1 .. m + 1 /\ ~(m + 1 <= m) /\ \A q : q \in m + 1 .. m + 1 <=> q = m + 1
    BY <1>1
  <2>5. CASE w[k] = "*"
    <3>1. Rest(w, s, k, m + 1) <=> \E q \in m + 1 .. m + 1 : Rest(w, s, k + 1, q)
      BY <1>1, <2>4, <2>5, RestStar
    <3> QED
      BY <1>3, <2>3, <2>4, <2>5, <3>1
  <2>6. CASE w[k] # "*"
    <3>1. ~Rest(w, s, k, m + 1)
      BY <1>1, <2>4, <2>6, RestOther
    <3> QED
      BY <2>3, <2>6, <3>1
  <2> QED
    BY <2>5, <2>6
<1> HIDE DEF P
<1>4. T = {}
  <2> SUFFICES ASSUME T # {} PROVE FALSE
    OBVIOUS
  <2>1. PICK d \in T : \A y \in T : d <= y
    BY LeastNat
  <2>2. d # 0
    <3>1. n + 1 - 0 = n + 1
      BY <1>1
    <3> QED
      BY <1>2, <2>1, <3>1
  <2>3. d - 1 \in Nat /\ d - 1 <= n /\ ~(d <= d - 1) /\ n + 1 - d \in 1 .. n /\ n + 1 - (d - 1) = n + 1 - d + 1
    BY <1>1, <2>1, <2>2
  <2>4. P(n + 1 - d + 1)
    BY <2>1, <2>3
  <2> QED
    BY <1>3, <2>1, <2>3, <2>4
<1>5. P(i)
  <2>1. n + 1 - i \in Nat /\ n + 1 - i <= n /\ n + 1 - (n + 1 - i) = i
    BY <1>1
  <2> QED
    BY <1>4, <2>1
<1> QED
  BY <1>1, <1>5 DEF P

\* Through a part of the pattern without stars, pattern and name go in step.
LEMMA RestSegment ==
    ASSUME NEW C, NEW w \in Seq(C), NEW s \in Seq(C),
           NEW i \in 1 .. Len(w) + 1, NEW j \in 1 .. Len(s) + 1, NEW d \in Nat, i + d <= Len(w) + 1,
           \A x \in i .. i + d - 1 : w[x] # "*", Rest(w, s, i, j)
    PROVE  j + d <= Len(s) + 1 /\ Rest(w, s, i + d, j + d)
<1>1. PICK n \in Nat, m \in Nat : n = Len(w) /\ m = Len(s)
  OBVIOUS
<1> DEFINE P(k) == j + k <= m + 1 /\ Rest(w, s, i + k, j + k)
           T == {k \in Nat : k <= d /\ ~P(k)}
<1>2. P(0)
  <2>1. i + 0 = i /\ j + 0 = j
    OBVIOUS
  <2> QED
    BY <1>1, <2>1
<1>3. ASSUME NEW k \in Nat, k + 1 <= d, P(k) PROVE P(k + 1)
  <2>1. i + k \in 1 .. n /\ j + k \in 1 .. m + 1 /\ i + k \in i .. i + d - 1
        /\ i + k + 1 = i + (k + 1) /\ j + k + 1 = j + (k + 1)
    BY <1>1, <1>3
  <2>2. j + k <= m /\ Rest(w, s, i + k + 1, j + k + 1)
    BY <1>1, <1>3, <2>1, RestOther
  <2> QED
    BY <1>1, <2>1, <2>2
<1> HIDE DEF P
<1>4. T = {}
  <2> SUFFICES ASSUME T # {} PROVE FALSE
    OBVIOUS
  <2>1. PICK k \in T : \A y \in T : k <= y
    BY LeastNat
  <2>2. k # 0
    BY <1>2, <2>1
  <2>3. k - 1 \in Nat /\ k - 1 <= d /\ ~(k <= k - 1) /\ k - 1 + 1 = k /\ k <= d
    BY <2>1, <2>2
  <2>4. P(k - 1)
    BY <2>1, <2>3
  <2> QED
    BY <1>3, <2>1, <2>3, <2>4
<1>5. P(d)
  BY <1>4
<1> QED
  BY <1>1, <1>5 DEF P

\* Before the first star: what has been passed agrees.
Fresh(w, s, c) ==
    c.cp = 1 /\ c.mp = 1 /\ (Matches(w, s) <=> Rest(w, s, c.wild, c.string))

\* Behind a star: mp is behind the last one, and the name goes on here or from some
\* place from cp on.
Starred(w, s, c) ==
    /\ 2 <= c.cp /\ c.mp <= c.wild /\ c.string + c.mp + 1 = c.cp + c.wild
    /\ \A x \in c.mp .. c.wild - 1 : w[x] # "*"
    /\ Matches(w, s) <=> \/ Rest(w, s, c.wild, c.string)
                         \/ \E q \in c.cp .. Len(s) + 1 : Rest(w, s, c.mp, q)

Good(w, s, c) ==
    /\ c.loop = "first" => Fresh(w, s, c)
    /\ c.loop = "second" => \/ Starred(w, s, c)
                            \/ Fresh(w, s, c) /\ (c.string = Len(s) + 1 \/ At(w, c.wild) = "*")
    /\ c.loop = "yes" => Matches(w, s)
    /\ c.loop = "no" => ~Matches(w, s)

Places(w, s) == {c \in Pointers(w, s) : Good(w, s, c)}

\* Goes up with every round.
Progress(w, c) == c.cp * (Len(w) + 2) + c.wild + (IF c.loop = "first" THEN 0 ELSE 1)

Done(c) == c.loop \in {"yes", "no"}

LEMMA PointersAreNumbers ==
    ASSUME NEW C, NEW w \in Seq(C), NEW s \in Seq(C), NEW c \in Pointers(w, s)
    PROVE  /\ c.wild \in 1 .. Len(w) + 1 /\ c.string \in 1 .. Len(s) + 1
           /\ c.mp \in 1 .. Len(w) + 1 /\ c.cp \in 1 .. Len(s) + 2
           /\ c.loop \in {"first", "second", "yes", "no"}
  BY DEF Pointers

LEMMA AtFacts ==
    ASSUME NEW C, Nul \notin C, NEW t \in Seq(C), NEW i \in 1 .. Len(t) + 2
    PROVE  /\ At(t, i) = Nul <=> i > Len(t)
           /\ i <= Len(t) => At(t, i) = t[i]
  BY DEF At

\* Two rounds a pointer makes.
LEMMA OnwardsFacts ==
    ASSUME NEW C, NEW w \in Seq(C), NEW s \in Seq(C), NEW c \in Pointers(w, s),
           c.wild <= Len(w), c.string <= Len(s)
    PROVE  LET d == Onwards(c)
           IN  /\ d \in Pointers(w, s)
               /\ d.wild = c.wild + 1 /\ d.string = c.string + 1
               /\ d.mp = c.mp /\ d.cp = c.cp /\ d.loop = c.loop
<1>1. /\ c.wild + 1 \in 1 .. Len(w) + 1 /\ c.string + 1 \in 1 .. Len(s) + 1
      /\ c.mp \in 1 .. Len(w) + 1 /\ c.cp \in 1 .. Len(s) + 2
      /\ c.loop \in {"first", "second", "yes", "no"}
  BY PointersAreNumbers
<1>2. PICK x, y : x = c.wild + 1 /\ y = c.string + 1
  OBVIOUS
<1>3. PICK d : d = [[c EXCEPT !.wild = x] EXCEPT !.string = y]
  OBVIOUS
<1>4. /\ d \in Pointers(w, s)
      /\ d.wild = x /\ d.string = y
      /\ d.mp = c.mp /\ d.cp = c.cp /\ d.loop = c.loop
  BY <1>1, <1>2, <1>3 DEF Pointers
<1>5. Onwards(c) = d
  BY <1>2, <1>3 DEF Onwards, Pointers
<1> QED
  BY <1>2, <1>4, <1>5

LEMMA AnswerFacts ==
    ASSUME NEW C, NEW w \in Seq(C), NEW s \in Seq(C), NEW c \in Pointers(w, s), NEW yes \in BOOLEAN
    PROVE  LET d == Answer(c, yes)
           IN  /\ d \in Pointers(w, s)
               /\ d.loop = IF yes THEN "yes" ELSE "no"
  BY DEF Answer, Pointers

\* The characters at the pointers agree, or the pattern does not match from here.
LEMMA AgreeFacts ==
    ASSUME NEW C, Nul \notin C, NEW w \in Seq(C), NEW s \in Seq(C), NEW c \in Pointers(w, s),
           c.string <= Len(s), At(w, c.wild) # "*"
    PROVE  /\ Agree(w, s, c) => /\ c.wild <= Len(w) /\ w[c.wild] # "*"
                                /\ Rest(w, s, c.wild, c.string) <=> Rest(w, s, c.wild + 1, c.string + 1)
           /\ ~Agree(w, s, c) => ~Rest(w, s, c.wild, c.string)
<1>1. c.wild \in 1 .. Len(w) + 1 /\ c.string \in 1 .. Len(s) + 1 /\ c.string \in 1 .. Len(s)
  BY PointersAreNumbers
<1>2. At(s, c.string) = s[c.string] /\ s[c.string] \in C /\ At(s, c.string) # Nul
  BY <1>1, AtFacts
<1>3. CASE c.wild = Len(w) + 1
  <2>1. At(w, c.wild) = Nul
    BY <1>1, <1>3, AtFacts
  <2>2. ~Agree(w, s, c)
    BY <1>2, <2>1 DEF Agree, Nul
  <2>3. ~Rest(w, s, c.wild, c.string)
    BY <1>1, <1>3, RestEnd
  <2> QED
    BY <2>2, <2>3
<1>4. CASE c.wild # Len(w) + 1
  <2>1. c.wild \in 1 .. Len(w) /\ c.wild <= Len(w)
    BY <1>1, <1>4
  <2>2. At(w, c.wild) = w[c.wild]
    BY <1>1, <2>1, AtFacts
  <2>3. Rest(w, s, c.wild, c.string) <=> w[c.wild] \in {s[c.string], "?"} /\ Rest(w, s, c.wild + 1, c.string + 1)
    BY <1>1, <2>1, <2>2, RestOther
  <2> QED
    BY <1>2, <2>1, <2>2, <2>3 DEF Agree
<1> QED
  BY <1>3, <1>4

LEMMA Times ==
    ASSUME NEW a \in Nat, NEW b \in Nat, NEW n \in Nat
    PROVE  /\ a * n \in Nat
           /\ (a + 1) * n = a * n + n
           /\ a <= b => a * n <= b * n
  OBVIOUS

\* What is shown of a round from c to d.
Advances(w, s, c, d) ==
    d \in Places(w, s) /\ (Done(d) \/ Progress(w, c) + 1 <= Progress(w, d))

LEMMA ProgressIsNumber ==
    ASSUME NEW C, NEW w \in Seq(C), NEW s \in Seq(C), NEW c \in Pointers(w, s)
    PROVE  Progress(w, c) \in Nat /\ Progress(w, c) <= (Len(s) + 2) * (Len(w) + 2) + Len(w) + 2
<1>1. PICK n \in Nat, m \in Nat : n = Len(w) /\ m = Len(s)
  OBVIOUS
<1>2. c.wild \in 1 .. n + 1 /\ c.cp \in 1 .. m + 2
  BY <1>1, PointersAreNumbers
<1>3. PICK p : p = c.cp * (n + 2)
  OBVIOUS
<1>4. PICK r : r = (m + 2) * (n + 2)
  OBVIOUS
<1>5. p \in Nat /\ r \in Nat /\ p <= r
  <2>1. c.cp \in Nat /\ m + 2 \in Nat /\ n + 2 \in Nat /\ c.cp <= m + 2
    BY <1>1, <1>2
  <2> QED
    BY <1>3, <1>4, <2>1, Times
<1>6. Progress(w, c) = p + c.wild + (IF c.loop = "first" THEN 0 ELSE 1)
  BY <1>1, <1>3 DEF Progress
<1>7. Progress(w, c) \in Nat /\ Progress(w, c) <= r + n + 2
  BY <1>2, <1>5, <1>6
<1> QED
  BY <1>1, <1>4, <1>7

\* A round that moves wild on and cp not back, in the same loop.
LEMMA ProgressOn ==
    ASSUME NEW C, NEW w \in Seq(C), NEW s \in Seq(C),
           NEW c \in Pointers(w, s), NEW d \in Pointers(w, s),
           d.wild = c.wild + 1, c.cp <= d.cp, d.loop = c.loop
    PROVE  Progress(w, c) + 1 <= Progress(w, d)
<1>1. PICK n \in Nat : n = Len(w) + 2
  OBVIOUS
<1>2. c.wild \in Nat /\ c.cp \in Nat /\ d.cp \in Nat
  BY PointersAreNumbers
<1>3. PICK p, r : p = c.cp * n /\ r = d.cp * n
  OBVIOUS
<1>4. p \in Nat /\ r \in Nat /\ p <= r
  BY <1>1, <1>2, <1>3, Times
<1>5. /\ Progress(w, c) = p + c.wild + (IF c.loop = "first" THEN 0 ELSE 1)
      /\ Progress(w, d) = r + (c.wild + 1) + (IF c.loop = "first" THEN 0 ELSE 1)
  BY <1>1, <1>3 DEF Progress
<1> QED
  BY <1>2, <1>4, <1>5

LEMMA FirstRound ==
    ASSUME NEW C, Nul \notin C, NEW w \in Seq(C), NEW s \in Seq(C),
           NEW c \in Places(w, s), c.loop = "first"
    PROVE  Advances(w, s, c, First(w, s, c))
<1>0. c \in Pointers(w, s) /\ Fresh(w, s, c)
  BY DEF Places, Good
<1>1. c.wild \in 1 .. Len(w) + 1 /\ c.string \in 1 .. Len(s) + 1
  BY <1>0, PointersAreNumbers
<1>2. PICK d : d = First(w, s, c)
  OBVIOUS
<1>3. CASE At(s, c.string) = Nul \/ At(w, c.wild) = "*"
  <2>1. d = [c EXCEPT !.loop = "second"]
    BY <1>2, <1>3 DEF First
  <2>2. /\ d \in Pointers(w, s) /\ d.loop = "second"
        /\ d.wild = c.wild /\ d.string = c.string /\ d.mp = c.mp /\ d.cp = c.cp
    BY <1>0, <2>1 DEF Pointers
  <2>3. c.string = Len(s) + 1 \/ At(w, c.wild) = "*"
    BY <1>1, <1>3, AtFacts
  <2>4. d \in Places(w, s)
    BY <1>0, <2>2, <2>3 DEF Places, Good, Fresh
  <2>5. Progress(w, d) = Progress(w, c) + 1
    <3>1. PICK p : p = c.cp * (Len(w) + 2) + c.wild
      OBVIOUS
    <3>2. p \in Nat
      <4>1. c.cp \in Nat /\ Len(w) + 2 \in Nat /\ c.wild \in Nat
        BY <1>0, PointersAreNumbers
      <4>2. c.cp * (Len(w) + 2) \in Nat
        BY <4>1, Times
      <4> QED
        BY <3>1, <4>1, <4>2
    <3>3. Progress(w, c) = p + 0 /\ Progress(w, d) = p + 1
      BY <2>2, <3>1 DEF Progress
    <3> QED
      BY <3>2, <3>3
  <2>6. Progress(w, c) \in Nat
    BY <1>0, ProgressIsNumber
  <2> QED
    BY <1>2, <2>4, <2>5, <2>6 DEF Advances
<1>4. CASE ~(At(s, c.string) = Nul \/ At(w, c.wild) = "*") /\ Agree(w, s, c)
  <2>1. d = Onwards(c)
    BY <1>2, <1>4 DEF First
  <2>2. c.string <= Len(s)
    BY <1>1, <1>4, AtFacts
  <2>3. c.wild <= Len(w) /\ (Rest(w, s, c.wild, c.string) <=> Rest(w, s, c.wild + 1, c.string + 1))
    BY <1>0, <1>4, <2>2, AgreeFacts
  <2>4. /\ d \in Pointers(w, s)
        /\ d.wild = c.wild + 1 /\ d.string = c.string + 1
        /\ d.mp = c.mp /\ d.cp = c.cp /\ d.loop = c.loop
    BY <1>0, <2>1, <2>2, <2>3, OnwardsFacts
  <2>5. d \in Places(w, s)
    BY <1>0, <2>3, <2>4 DEF Places, Good, Fresh
  <2>6. c.cp <= d.cp
    BY <1>0, <2>4, PointersAreNumbers
  <2>7. Progress(w, c) + 1 <= Progress(w, d)
    BY <1>0, <2>4, <2>6, ProgressOn
  <2> QED
    BY <1>2, <2>5, <2>7 DEF Advances
<1>5. CASE ~(At(s, c.string) = Nul \/ At(w, c.wild) = "*") /\ ~Agree(w, s, c)
  <2>1. d = Answer(c, FALSE)
    BY <1>2, <1>5 DEF First
  <2>2. c.string <= Len(s)
    BY <1>1, <1>5, AtFacts
  <2>3. ~Matches(w, s)
    BY <1>0, <1>5, <2>2, AgreeFacts DEF Fresh
  <2>4. d \in Pointers(w, s) /\ d.loop = "no"
    BY <1>0, <2>1, AnswerFacts
  <2> QED
    BY <1>2, <2>3, <2>4 DEF Advances, Places, Good, Done
<1> QED
  BY <1>3, <1>4, <1>5

\* Behind a star, a place farther on in the name is a place farther on here.
LEMMA StarredSegment ==
    ASSUME NEW C, NEW w \in Seq(C), NEW s \in Seq(C), NEW c \in Pointers(w, s), Starred(w, s, c),
           NEW q \in c.cp .. Len(s) + 1, Rest(w, s, c.mp, q)
    PROVE  \E r \in 1 .. Len(s) + 1 : c.string < r /\ Rest(w, s, c.wild, r)
<1>1. /\ c.wild \in 1 .. Len(w) + 1 /\ c.string \in 1 .. Len(s) + 1
      /\ c.mp \in 1 .. Len(w) + 1 /\ c.cp \in 1 .. Len(s) + 2
  BY PointersAreNumbers
<1>2. /\ c.mp <= c.wild /\ c.string + c.mp + 1 = c.cp + c.wild
      /\ \A x \in c.mp .. c.wild - 1 : w[x] # "*"
  BY DEF Starred
<1>3. PICK d \in Nat : c.wild = c.mp + d
  <2>1. c.wild - c.mp \in Nat /\ c.wild = c.mp + (c.wild - c.mp)
    BY <1>1, <1>2
  <2> QED
    BY <2>1
<1>4. /\ q \in 1 .. Len(s) + 1 /\ c.mp + d <= Len(w) + 1
      /\ \A x \in c.mp .. c.mp + d - 1 : w[x] # "*"
  BY <1>1, <1>2, <1>3
<1>5. q + d <= Len(s) + 1 /\ Rest(w, s, c.mp + d, q + d)
  BY <1>1, <1>3, <1>4, RestSegment
<1>6. c.string < q + d /\ q + d \in 1 .. Len(s) + 1
  BY <1>1, <1>2, <1>3, <1>4, <1>5
<1> QED
  BY <1>3, <1>5, <1>6

LEMMA SecondEnd ==
    ASSUME NEW C, Nul \notin C, NEW w \in Seq(C), NEW s \in Seq(C),
           NEW c \in Places(w, s), c.loop = "second", At(s, c.string) = Nul
    PROVE  Advances(w, s, c, Second(w, s, c))
<1>0. c \in Pointers(w, s) /\ (Starred(w, s, c) \/ Fresh(w, s, c))
  BY DEF Places, Good
<1>1. c.wild \in 1 .. Len(w) + 1 /\ c.string \in 1 .. Len(s) + 1 /\ c.mp \in 1 .. Len(w) + 1
  BY <1>0, PointersAreNumbers
<1>2. c.string = Len(s) + 1
  <2>1. c.string \in 1 .. Len(s) + 2
    BY <1>1
  <2>2. c.string > Len(s)
    BY <2>1, AtFacts
  <2> QED
    BY <1>1, <2>2
<1> DEFINE stars == \A i \in c.wild .. Len(w) : w[i] = "*"
<1>3. Rest(w, s, c.wild, c.string) <=> stars
  BY <1>1, <1>2, RestStars
<1>4. Matches(w, s) <=> stars
  <2>1. CASE Fresh(w, s, c)
    BY <1>3, <2>1 DEF Fresh
  <2>2. CASE Starred(w, s, c)
    <3>1. ~\E q \in c.cp .. Len(s) + 1 : Rest(w, s, c.mp, q)
      <4> SUFFICES ASSUME NEW q \in c.cp .. Len(s) + 1, Rest(w, s, c.mp, q) PROVE FALSE
        OBVIOUS
      <4>1. PICK r \in 1 .. Len(s) + 1 : c.string < r
        BY <1>0, <2>2, StarredSegment
      <4> QED
        BY <1>2, <4>1
    <3> QED
      BY <1>3, <2>2, <3>1 DEF Starred
  <2> QED
    BY <1>0, <2>1, <2>2
<1>5. PICK d : d = Answer(c, stars)
  OBVIOUS
<1>6. Second(w, s, c) = d
  BY <1>5 DEF Second
<1>7. d \in Pointers(w, s) /\ d.loop = IF stars THEN "yes" ELSE "no"
  <2>1. stars \in BOOLEAN
    OBVIOUS
  <2> HIDE DEF stars
  <2> QED
    BY <1>0, <1>5, <2>1, AnswerFacts
<1> HIDE DEF stars
<1> QED
  BY <1>4, <1>6, <1>7 DEF Advances, Places, Good, Done

LEMMA SecondStar ==
    ASSUME NEW C, Nul \notin C, NEW w \in Seq(C), NEW s \in Seq(C),
           NEW c \in Places(w, s), c.loop = "second", At(s, c.string) # Nul, At(w, c.wild) = "*"
    PROVE  Advances(w, s, c, Second(w, s, c))
<1>0. c \in Pointers(w, s) /\ (Starred(w, s, c) \/ Fresh(w, s, c))
  BY DEF Places, Good
<1>1. /\ c.wild \in 1 .. Len(w) + 1 /\ c.string \in 1 .. Len(s) + 1 /\ c.mp \in 1 .. Len(w) + 1
      /\ c.cp \in 1 .. Len(s) + 2
  BY <1>0, PointersAreNumbers
<1>2. c.string <= Len(s)
  BY <1>1, AtFacts
<1>3. c.wild <= Len(w) /\ w[c.wild] = "*"
  <2>1. c.wild \in 1 .. Len(w) + 2
    BY <1>1
  <2>2. At(w, c.wild) # Nul
    BY DEF Nul
  <2>3. ~(c.wild > Len(w)) /\ (c.wild <= Len(w) => At(w, c.wild) = w[c.wild])
    BY <2>1, <2>2, AtFacts
  <2> QED
    BY <1>1, <2>3
<1>4. c.wild \in 1 .. Len(w) /\ c.wild + 1 \in 1 .. Len(w) + 2
  BY <1>1, <1>3
<1>5. Rest(w, s, c.wild, c.string) <=> \E q \in c.string .. Len(s) + 1 : Rest(w, s, c.wild + 1, q)
  BY <1>1, <1>3, <1>4, RestStar
<1>6. Matches(w, s) <=> Rest(w, s, c.wild, c.string)
  <2>1. CASE Fresh(w, s, c)
    BY <2>1 DEF Fresh
  <2>2. CASE Starred(w, s, c)
    <3>1. ASSUME NEW q \in c.cp .. Len(s) + 1, Rest(w, s, c.mp, q)
          PROVE  Rest(w, s, c.wild, c.string)
      <4>1. PICK r \in 1 .. Len(s) + 1 : c.string < r /\ Rest(w, s, c.wild, r)
        BY <1>0, <2>2, <3>1, StarredSegment
      <4>2. PICK p \in r .. Len(s) + 1 : Rest(w, s, c.wild + 1, p)
        BY <1>3, <1>4, <4>1, RestStar
      <4>3. p \in c.string .. Len(s) + 1
        BY <1>1, <4>1, <4>2
      <4> QED
        BY <1>5, <4>2, <4>3
    <3> QED
      BY <2>2, <3>1 DEF Starred
  <2> QED
    BY <1>0, <2>1, <2>2
<1>7. CASE At(w, c.wild + 1) = Nul
  <2>1. c.wild = Len(w)
    BY <1>4, <1>7, AtFacts
  <2>2. Rest(w, s, c.wild + 1, Len(s) + 1)
    <3>1. Len(s) + 1 \in 1 .. Len(s) + 1
      BY <1>1
    <3> QED
      BY <2>1, <3>1, RestEnd
  <2>3. Len(s) + 1 \in c.string .. Len(s) + 1
    BY <1>1
  <2>4. Matches(w, s)
    BY <1>5, <1>6, <2>2, <2>3
  <2>5. PICK d : d = Answer(c, TRUE)
    OBVIOUS
  <2>6. Second(w, s, c) = d
    BY <1>7, <2>5 DEF Second
  <2>7. d \in Pointers(w, s) /\ d.loop = "yes"
    BY <1>0, <2>5, AnswerFacts
  <2> QED
    BY <2>4, <2>6, <2>7 DEF Advances, Places, Good, Done
<1>8. CASE At(w, c.wild + 1) # Nul
  <2>1. c.wild + 1 <= Len(w)
    BY <1>4, <1>8, AtFacts
  <2>2. PICK i, j : i = c.wild + 1 /\ j = c.string + 1
    OBVIOUS
  <2>3. i \in 1 .. Len(w) + 1 /\ j \in 1 .. Len(s) + 2 /\ j \in 2 .. Len(s) + 1
    BY <1>1, <1>2, <2>1, <2>2
  <2>4. PICK d : d = [[[c EXCEPT !.wild = i] EXCEPT !.mp = i] EXCEPT !.cp = j]
    OBVIOUS
  <2>5. /\ d \in Pointers(w, s)
        /\ d.wild = i /\ d.mp = i /\ d.cp = j /\ d.string = c.string /\ d.loop = "second"
    BY <1>0, <2>3, <2>4 DEF Pointers
  <2>6. Second(w, s, c) = d
    BY <1>0, <1>8, <2>2, <2>4 DEF Second, Pointers
  <2>7. (\E q \in c.string .. Len(s) + 1 : Rest(w, s, i, q))
        <=> Rest(w, s, i, c.string) \/ \E q \in j .. Len(s) + 1 : Rest(w, s, i, q)
    <3>1. \A q : q \in c.string .. Len(s) + 1 <=> q = c.string \/ q \in j .. Len(s) + 1
      BY <1>1, <2>2
    <3> QED
      BY <3>1
  <2>8. Starred(w, s, d)
    <3>0. i \in Nat /\ j \in Nat /\ 2 <= j /\ c.string \in Nat /\ i .. i - 1 = {}
      BY <1>1, <2>3
    <3>1. /\ 2 <= d.cp /\ d.mp <= d.wild /\ d.string + d.mp + 1 = d.cp + d.wild
          /\ d.mp .. d.wild - 1 = {}
      BY <2>2, <2>5, <3>0
    <3>2. Matches(w, s) <=> \/ Rest(w, s, d.wild, d.string)
                            \/ \E q \in d.cp .. Len(s) + 1 : Rest(w, s, d.mp, q)
      BY <1>5, <1>6, <2>2, <2>5, <2>7
    <3> QED
      BY <3>1, <3>2 DEF Starred
  <2>9. c.cp <= d.cp
    <3>1. CASE Fresh(w, s, c)
      BY <2>3, <2>5, <3>1 DEF Fresh
    <3>2. CASE Starred(w, s, c)
      <4>1. c.mp <= c.wild /\ c.string + c.mp + 1 = c.cp + c.wild
        BY <3>2 DEF Starred
      <4> QED
        BY <1>1, <2>2, <2>5, <4>1
    <3> QED
      BY <1>0, <3>1, <3>2
  <2>10. Progress(w, c) + 1 <= Progress(w, d)
    BY <1>0, <2>2, <2>5, <2>9, ProgressOn
  <2> QED
    BY <2>5, <2>6, <2>8, <2>10 DEF Advances, Places, Good
<1> QED
  BY <1>7, <1>8

LEMMA SecondOther ==
    ASSUME NEW C, Nul \notin C, NEW w \in Seq(C), NEW s \in Seq(C),
           NEW c \in Places(w, s), c.loop = "second", At(s, c.string) # Nul, At(w, c.wild) # "*"
    PROVE  Advances(w, s, c, Second(w, s, c))
<1>0. c \in Pointers(w, s)
  BY DEF Places
<1>1. /\ c.wild \in 1 .. Len(w) + 1 /\ c.string \in 1 .. Len(s) + 1 /\ c.mp \in 1 .. Len(w) + 1
      /\ c.cp \in 1 .. Len(s) + 2
  BY <1>0, PointersAreNumbers
<1>2. c.string <= Len(s)
  BY <1>1, AtFacts
<1>3. Starred(w, s, c)
  BY <1>1, <1>2 DEF Places, Good
<1>4. /\ 2 <= c.cp /\ c.mp <= c.wild /\ c.string + c.mp + 1 = c.cp + c.wild
      /\ \A x \in c.mp .. c.wild - 1 : w[x] # "*"
      /\ Matches(w, s) <=> \/ Rest(w, s, c.wild, c.string)
                           \/ \E q \in c.cp .. Len(s) + 1 : Rest(w, s, c.mp, q)
  BY <1>3 DEF Starred
<1>5. CASE Agree(w, s, c)
  <2>1. PICK d : d = Onwards(c)
    OBVIOUS
  <2>2. Second(w, s, c) = d
    BY <1>5, <2>1 DEF Second
  <2>3. /\ c.wild <= Len(w) /\ w[c.wild] # "*"
        /\ Rest(w, s, c.wild, c.string) <=> Rest(w, s, c.wild + 1, c.string + 1)
    BY <1>0, <1>2, <1>5, AgreeFacts
  <2>4. /\ d \in Pointers(w, s)
        /\ d.wild = c.wild + 1 /\ d.string = c.string + 1
        /\ d.mp = c.mp /\ d.cp = c.cp /\ d.loop = c.loop
    BY <1>0, <1>2, <2>1, <2>3, OnwardsFacts
  <2>5. Starred(w, s, d)
    <3>0. /\ c.wild \in Nat /\ c.string \in Nat /\ c.mp \in Nat /\ c.cp \in Nat
          /\ c.string + 1 + c.mp + 1 = c.cp + (c.wild + 1) /\ c.mp <= c.wild + 1
      <4>1. c.wild \in Nat /\ c.string \in Nat /\ c.mp \in Nat /\ c.cp \in Nat
        BY <1>1
      <4>2. PICK i \in Nat, j \in Nat, k \in Nat, l \in Nat :
                i = c.wild /\ j = c.string /\ k = c.mp /\ l = c.cp
        BY <4>1
      <4>3. k <= i /\ j + k + 1 = l + i
        BY <1>4, <4>2
      <4>4. j + 1 + k + 1 = l + (i + 1) /\ k <= i + 1
        BY <4>3
      <4> QED
        BY <4>1, <4>2, <4>4
    <3>1. 2 <= d.cp /\ d.mp <= d.wild /\ d.string + d.mp + 1 = d.cp + d.wild
      BY <1>4, <2>4, <3>0
    <3>2. \A x \in d.mp .. d.wild - 1 : w[x] # "*"
      <4>1. d.wild - 1 = c.wild
        BY <2>4, <3>0
      <4>2. \A x \in c.mp .. c.wild : x = c.wild \/ x \in c.mp .. c.wild - 1
        BY <3>0
      <4>3. \A x \in c.mp .. c.wild : w[x] # "*"
        BY <1>4, <2>3, <4>2
      <4> QED
        BY <2>4, <4>1, <4>3
    <3>3. Matches(w, s) <=> \/ Rest(w, s, d.wild, d.string)
                            \/ \E q \in d.cp .. Len(s) + 1 : Rest(w, s, d.mp, q)
      BY <1>4, <2>3, <2>4
    <3> QED
      BY <3>1, <3>2, <3>3 DEF Starred
  <2>6. c.cp <= d.cp
    BY <1>1, <2>4
  <2>7. Progress(w, c) + 1 <= Progress(w, d)
    BY <1>0, <2>4, <2>6, ProgressOn
  <2> QED
    BY <2>2, <2>4, <2>5, <2>7 DEF Advances, Places, Good
<1>6. CASE ~Agree(w, s, c)
  <2>1. c.cp <= Len(s) + 1
    BY <1>1, <1>2, <1>4
  <2>2. PICK i : i = c.cp + 1
    OBVIOUS
  <2>3. i \in 1 .. Len(s) + 2 /\ c.cp \in 1 .. Len(s) + 1
    BY <1>1, <2>1, <2>2
  <2>4. PICK d : d = [[[c EXCEPT !.wild = c.mp] EXCEPT !.string = c.cp] EXCEPT !.cp = i]
    OBVIOUS
  <2>5. /\ d \in Pointers(w, s)
        /\ d.wild = c.mp /\ d.mp = c.mp /\ d.cp = i /\ d.string = c.cp /\ d.loop = "second"
    BY <1>0, <1>1, <2>3, <2>4 DEF Pointers
  <2>6. Second(w, s, c) = d
    BY <1>0, <1>6, <2>2, <2>4 DEF Second, Pointers
  <2>7. ~Rest(w, s, c.wild, c.string)
    BY <1>0, <1>2, <1>6, AgreeFacts
  <2>8. (\E q \in c.cp .. Len(s) + 1 : Rest(w, s, c.mp, q))
        <=> Rest(w, s, c.mp, c.cp) \/ \E q \in i .. Len(s) + 1 : Rest(w, s, c.mp, q)
    <3>1. \A q : q \in c.cp .. Len(s) + 1 <=> q = c.cp \/ q \in i .. Len(s) + 1
      BY <1>1, <2>1, <2>2
    <3> QED
      BY <3>1
  <2>9. Starred(w, s, d)
    <3>0. i \in Nat /\ 2 <= i /\ c.cp \in Nat /\ c.mp \in Nat /\ c.mp .. c.mp - 1 = {}
      BY <1>1, <1>4, <2>2
    <3>1. /\ 2 <= d.cp /\ d.mp <= d.wild /\ d.string + d.mp + 1 = d.cp + d.wild
          /\ d.mp .. d.wild - 1 = {}
      BY <2>2, <2>5, <3>0
    <3>2. Matches(w, s) <=> \/ Rest(w, s, d.wild, d.string)
                            \/ \E q \in d.cp .. Len(s) + 1 : Rest(w, s, d.mp, q)
      BY <1>4, <2>5, <2>7, <2>8
    <3> QED
      BY <3>1, <3>2 DEF Starred
  <2>10. Progress(w, c) + 1 <= Progress(w, d)
    <3>1. PICK n \in Nat : n = Len(w)
      OBVIOUS
    <3>2. PICK p, r : p = c.cp * (n + 2) /\ r = d.cp * (n + 2)
      OBVIOUS
    <3>3. p \in Nat /\ r = p + (n + 2)
      <4>1. c.cp \in Nat /\ n + 2 \in Nat
        BY <1>1, <3>1
      <4> QED
        BY <2>2, <2>5, <3>2, <4>1, Times
    <3>4. Progress(w, c) = p + c.wild + 1 /\ Progress(w, d) = r + c.mp + 1
      BY <2>5, <3>1, <3>2 DEF Progress
    <3>5. c.wild \in 1 .. n + 1 /\ c.mp \in 1 .. n + 1
      BY <1>1, <3>1
    <3> QED
      BY <3>1, <3>3, <3>4, <3>5
  <2> QED
    BY <2>5, <2>6, <2>9, <2>10 DEF Advances, Places, Good
<1> QED
  BY <1>5, <1>6

LEMMA EveryRound ==
    ASSUME NEW C, Nul \notin C, NEW w \in Seq(C), NEW s \in Seq(C), NEW c \in Places(w, s)
    PROVE  LET d == Round(w, s)[c]
           IN  /\ d \in Places(w, s)
               /\ Done(c) => d = c
               /\ Done(d) \/ Progress(w, c) + 1 <= Progress(w, d)
<1>1. c \in Pointers(w, s) /\ c.loop \in {"first", "second", "yes", "no"}
  BY PointersAreNumbers DEF Places
<1>2. PICK d : d = Round(w, s)[c]
  OBVIOUS
<1>3. CASE c.loop = "first"
  <2>1. d = First(w, s, c)
    BY <1>1, <1>2, <1>3 DEF Round
  <2>2. Advances(w, s, c, d)
    BY <1>3, <2>1, FirstRound
  <2> QED
    BY <1>2, <1>3, <2>2 DEF Advances, Done
<1>4. CASE c.loop = "second"
  <2>1. d = Second(w, s, c)
    BY <1>1, <1>2, <1>4 DEF Round
  <2>2. Advances(w, s, c, d)
    BY <1>4, <2>1, SecondEnd, SecondStar, SecondOther
  <2> QED
    BY <1>2, <1>4, <2>2 DEF Advances, Done
<1>5. CASE Done(c)
  <2>1. d = c
    BY <1>1, <1>2, <1>5 DEF Round, Done
  <2> QED
    BY <1>2, <1>5, <2>1
<1> QED
  BY <1>1, <1>3, <1>4, <1>5 DEF Done

IsRounds(at, w, s) ==
    /\ at \in [Nat -> Places(w, s)] /\ at = Walk(Round(w, s), Start) /\ at[0] = Start
    /\ \A k \in Nat : at[k + 1] = Round(w, s)[at[k]]

LEMMA RoundsWalk ==
    ASSUME NEW w, NEW s, Start \in Places(w, s), Within(Round(w, s), Places(w, s))
    PROVE  \E at : IsRounds(at, w, s)
<1>1. PICK F, S, x : F = Round(w, s) /\ S = Places(w, s) /\ x = Start
  OBVIOUS
<1>2. Within(F, S) /\ x \in S
  BY <1>1
<1>3. /\ Walk(F, x) \in [Nat -> S] /\ Walk(F, x)[0] = x
      /\ \A k \in Nat : Walk(F, x)[k + 1] = F[Walk(F, x)[k]]
  BY <1>2, WalkFacts
<1> QED
  BY <1>1, <1>3 DEF IsRounds

(***************************************************************************)
(* wildcmp() says yes of exactly the names that match the pattern, for all *)
(* patterns and names, whatever their length; and it ends.                 *)
(***************************************************************************)
THEOREM WildcmpMatches ==
    ASSUME NEW C, Nul \notin C, NEW w \in Seq(C), NEW s \in Seq(C)
    PROVE  wildcmp(w, s) <=> Matches(w, s)
<1>1. PICK n \in Nat, m \in Nat : n = Len(w) /\ m = Len(s)
  OBVIOUS
<1>2. Start \in Places(w, s)
  <2>1. Start \in Pointers(w, s)
    BY <1>1 DEF Start, Pointers
  <2> QED
    BY <2>1, MatchesIsRest DEF Start, Places, Good, Fresh
<1>3. Within(Round(w, s), Places(w, s))
  BY EveryRound DEF Within
<1>4. PICK at : IsRounds(at, w, s)
  BY <1>2, <1>3, RoundsWalk
<1>5. /\ at \in [Nat -> Places(w, s)] /\ at = Walk(Round(w, s), Start) /\ at[0] = Start
      /\ \A k \in Nat : at[k + 1] = Round(w, s)[at[k]]
  BY <1>4 DEF IsRounds
<1>6. ASSUME NEW k \in Nat
      PROVE  /\ at[k] \in Places(w, s) /\ at[k] \in Pointers(w, s)
             /\ Done(at[k]) => Done(at[k + 1])
             /\ Done(at[k + 1]) \/ Progress(w, at[k]) + 1 <= Progress(w, at[k + 1])
             /\ Progress(w, at[k]) \in Nat
  <2>1. at[k] \in Places(w, s) /\ at[k] \in Pointers(w, s)
    BY <1>5 DEF Places
  <2>2. Progress(w, at[k]) \in Nat
    BY <2>1, ProgressIsNumber
  <2>3. PICK c : c = at[k]
    OBVIOUS
  <2>4. PICK d : d = Round(w, s)[c]
    OBVIOUS
  <2>5. (Done(c) => d = c) /\ (Done(d) \/ Progress(w, c) + 1 <= Progress(w, d))
    BY <2>1, <2>3, <2>4, EveryRound
  <2>6. d = at[k + 1]
    BY <1>5, <2>3, <2>4
  <2> QED
    BY <2>1, <2>2, <2>3, <2>5, <2>6
<1> DEFINE T == {k \in Nat : ~Done(at[k]) /\ ~(k + n + 3 <= Progress(w, at[k]))}
<1>7. T = {}
  <2> SUFFICES ASSUME T # {} PROVE FALSE
    OBVIOUS
  <2>1. PICK k \in T : \A y \in T : k <= y
    BY LeastNat
  <2>2. k # 0
    <3>1. Progress(w, Start) = n + 2 + 1 + 0
      BY <1>1 DEF Progress, Start
    <3> QED
      BY <1>1, <1>5, <2>1, <3>1
  <2>3. PICK j \in Nat : k = j + 1 /\ j \notin T
    <3>1. k - 1 \in Nat /\ k = k - 1 + 1 /\ ~(k <= k - 1)
      BY <2>1, <2>2
    <3> QED
      BY <2>1, <3>1
  <2>4. ~Done(at[j]) /\ Progress(w, at[j]) + 1 <= Progress(w, at[k])
    BY <1>6, <2>1, <2>3
  <2>5. j + n + 3 <= Progress(w, at[j])
    BY <2>3, <2>4
  <2>6. k + n + 3 <= Progress(w, at[k])
    <3>1. PICK p \in Nat, q \in Nat : p = Progress(w, at[j]) /\ q = Progress(w, at[k])
      BY <1>6, <2>1, <2>3
    <3> QED
      BY <1>1, <2>3, <2>4, <2>5, <3>1
  <2> QED
    BY <2>1, <2>6
<1>8. PICK e : e = Rounds(w, s)
  OBVIOUS
<1>9. e \in Nat /\ e = (m + 2) * (n + 2)
  BY <1>1, <1>8 DEF Rounds
<1>10. Done(at[e])
  <2>1. Progress(w, at[e]) <= e + n + 2
    BY <1>1, <1>6, <1>9, ProgressIsNumber
  <2>2. ~(e + n + 3 <= Progress(w, at[e]))
    BY <1>1, <1>6, <1>9, <2>1
  <2> QED
    BY <1>7, <1>9, <2>2
<1>11. at[e].loop = "yes" <=> Matches(w, s)
  BY <1>6, <1>9, <1>10 DEF Places, Good, Done
<1> QED
  BY <1>5, <1>8, <1>11 DEF wildcmp

-----------------------------------------------------------------------------
(* Clusters *)

\* Walking through the table.
LEMMA TableWalk ==
    ASSUME NEW t \in GarbageTables \cup {Table}, NEW x \in Cluster
    PROVE  LET at == Walk(Links(t), x)
           IN  /\ at \in [Nat -> Cluster]
               /\ at[0] = x
               /\ \A k \in Nat : at[k + 1] = Links(t)[at[k]]
<1>1. Within(Links(t), Cluster)
  BY Buffers
<1> QED
  BY <1>1, WalkFacts

LEMMA TableWalkOn ==
    ASSUME NEW x \in Cluster, NEW k \in Nat, NEW n \in Nat
    PROVE  Walk(Links(Table), Walk(Links(Table), x)[k])[n] = Walk(Links(Table), x)[k + n]
<1>1. Within(Links(Table), Cluster)
  BY Clusters DEF Within
<1> QED
  BY <1>1, WalkOn

\* The clusters of a file are used, as far as they are on the disk.
LEMMA FileClusters ==
    ASSUME NEW x \in Used \cup {0}, NEW k \in Nat
    PROVE  LET c == Walk(Links(Table), x)[k + 1] IN c \in Used \/ c \notin DOMAIN Table
<1> DEFINE S == Used \cup {0} \cup (Cluster \ DOMAIN Table)
           F == Links(Table)
<1>1. S \subseteq Cluster
  BY Clusters, TableAssumption DEF Used
<1>2. \A c \in S : F[c] \in Used \/ F[c] \in Cluster \ DOMAIN Table
  <2> SUFFICES ASSUME NEW c \in S PROVE F[c] \in Used \/ F[c] \in Cluster \ DOMAIN Table
    OBVIOUS
  <2>1. F[c] = IF c \in DOMAIN Table THEN Table[c] ELSE 4095
    BY <1>1, Clusters
  <2>2. CASE c \in DOMAIN Table
    <3>1. c \in Used \cup {0}
      BY <2>2
    <3>2. Table[c] \in Cluster
      BY <2>2, Clusters
    <3> QED
      BY <2>1, <2>2, <3>1, <3>2, TableAssumption
  <2>3. CASE c \notin DOMAIN Table
    BY <2>1, <2>3, Clusters
  <2> QED
    BY <2>2, <2>3
<1>3. Within(F, S)
  BY <1>2 DEF Within
<1>4. x \in S
  OBVIOUS
<1> HIDE DEF S, F
<1>5. PICK W : W = Walk(F, x)
  OBVIOUS
<1>6. W \in [Nat -> S] /\ \A n \in Nat : W[n + 1] = F[W[n]]
  <2>1. Walk(F, x) \in [Nat -> S] /\ \A n \in Nat : Walk(F, x)[n + 1] = F[Walk(F, x)[n]]
    BY <1>3, <1>4, WalkFacts
  <2> QED
    BY <1>5, <2>1
<1>7. W[k + 1] \in Used \/ W[k + 1] \notin DOMAIN Table
  BY <1>2, <1>6
<1> QED
  BY <1>5, <1>7 DEF F

LEMMA AheadFacts ==
    ASSUME NEW at, NEW n \in Nat
    PROVE  /\ Ahead(at, n) \in 0 .. n
           /\ n # 0 /\ Ahead(at, n) = 0 => at[0] >= fat_end
<1> DEFINE S == {k \in 0 .. n : k = n \/ at[k] >= fat_end}
<1>1. S \in SUBSET Nat /\ n \in S
  OBVIOUS
<1>2. Min(S) \in S
  BY <1>1, MinIsLeast
<1> QED
  BY <1>2 DEF Ahead

-----------------------------------------------------------------------------
(* The inductive invariant *)

Typed ==
    /\ disk \in Disks
    /\ root \in {Null, disk} \cup Garbage
    /\ pattern \in Seq(Char)
    /\ listed \in Seq(Seq(Char))
    /\ handles \in [Handle -> [init : {0, 1}, pos : Cluster]]
    /\ file \in [Handle -> Seq(Char)]
    /\ got \in [Handle -> Seq(Cluster)]
    /\ lost \in [Handle -> BOOLEAN]

\* Nothing is searched or open before the disk is mounted, and the buffers do not
\* change after that.
Order ==
    /\ ~Mounted => search = "none" /\ \A h \in Handle \ {0} : handles[h].init = 0
    /\ Mounted => fat \in GarbageTables \cup {Table}
    /\ whole => Mounted /\ root = disk /\ fat = Table

Hits == {i \in DOMAIN disk : Wanted(disk[i])}

UpTo(p) == {i \in Hits : i <= p}

\* A listing under way has got as far as the entry with the last name.
Listing ==
    whole /\ Dense(disk) =>
        /\ search = "on" => \E p \in Hits : last = FileName(disk[p]) /\ Lists(listed, disk, UpTo(p))
        /\ search = "over" => Lists(listed, disk, Hits)

ClustersOf(name) == Walk(Links(Table), FirstCluster[name])

\* The handle is at the cluster behind the last one it has got.
Placed(h) ==
    LET cluster == ClustersOf(file[h])
    IN  /\ file[h] \in DOMAIN FirstCluster
        /\ handles[h].pos = cluster[Len(got[h]) + 1]
        /\ \A i \in 1 .. Len(got[h]) : got[h][i] = cluster[i] /\ cluster[i] \in Used
        /\ result = <<h, 0>> => handles[h].pos >= fat_end

Reading ==
    whole => \A h \in Handle \ {0} : handles[h].init = 1 /\ ~lost[h] => Placed(h)

IInv == Typed /\ Order /\ OkMeansWhole /\ Listing /\ Reading

-----------------------------------------------------------------------------
(* The invariant holds when the kernel starts *)

LEMMA ZeroIsHandle == 0 \in Handle /\ Handle \subseteq Nat
  BY FatFsAssumption DEF Handle

LEMMA InitIInv == Init => IInv
<1> SUFFICES ASSUME Init PROVE IInv
  OBVIOUS
<1>1. 0 \in Cluster
  BY DEF Cluster
<1>2. <<>> \in Seq(Char) /\ <<>> \in Seq(Cluster) /\ <<>> \in Seq(Seq(Char))
  OBVIOUS
<1>3. handles \in [Handle -> [init : {0, 1}, pos : Cluster]]
  BY <1>1 DEF Init, Closed
<1>4. Typed
  BY <1>2, <1>3 DEF Init, Typed, Null
<1>5. Order
  BY DEF Init, Order, Mounted, Closed
<1>6. OkMeansWhole /\ Listing /\ Reading
  BY DEF Init, OkMeansWhole, Listing, Reading
<1> QED
  BY <1>4, <1>5, <1>6 DEF IInv

-----------------------------------------------------------------------------
(* Mounting *)

\* On a disk whose tables lie on its first cylinder, no request for them is split.
LEMMA NotSplit ==
    /\ ~Split(FatStart, FatSectors)
    /\ ~Split(FatStart + 2 * FatSectors, RootSectors)
<1>1. /\ FatStart \in Nat /\ FatSectors \in Nat /\ RootSectors \in Nat
      /\ CylinderSectors \in Nat \ {0}
      /\ FatStart + 2 * FatSectors + RootSectors < CylinderSectors
  BY FatFsAssumption
<1>2. \A n \in Nat : n < CylinderSectors => n \div CylinderSectors = 0
  BY <1>1
<1>3. /\ FatStart < CylinderSectors /\ FatStart + FatSectors < CylinderSectors
      /\ FatStart + 2 * FatSectors < CylinderSectors
      /\ {FatStart + FatSectors, FatStart + 2 * FatSectors, FatStart + 2 * FatSectors + RootSectors} \subseteq Nat
  BY <1>1
<1> QED
  BY <1>1, <1>2, <1>3 DEF Split

LEMMA InitStep ==
    ASSUME IInv, FatInit
    PROVE  IInv'
<1>1. PICK boot \in Outcomes(0, 1), table \in Outcomes(FatStart, FatSectors),
           dir \in Outcomes(FatStart + 2 * FatSectors, RootSectors) :
         /\ said' = IF ~(boot[1] /\ table[1]) THEN "error" ELSE IF dir[1] THEN "OK" ELSE "read table"
         /\ whole' = (boot[1] /\ table[1] /\ table[2] /\ dir[2])
         /\ root' \in IF whole' THEN {disk} ELSE IF ~boot[1] THEN {Null} ELSE Garbage
         /\ fat' \in IF boot[1] /\ table[2] THEN {Table} ELSE GarbageTables
  BY DEF FatInit
<1>2. /\ said = "nothing"
      /\ UNCHANGED <<disk, searchVars, fileVars>>
  BY DEF FatInit
<1>3. said' \in {"error", "OK", "read table"}
  BY <1>1
<1>4. Typed'
  BY <1>1, <1>2 DEF IInv, Typed, searchVars, fileVars
<1>5. Order'
  BY <1>1, <1>2, <1>3 DEF IInv, Order, Mounted
<1>6. OkMeansWhole'
  <2>1. table \in {<<TRUE, TRUE>>, <<FALSE, FALSE>>} /\ dir \in {<<TRUE, TRUE>>, <<FALSE, FALSE>>}
    BY NotSplit DEF Outcomes
  <2>2. said' = "OK" => table[1] /\ boot[1] /\ dir[1]
    BY <1>1
  <2>3. ASSUME table[1] PROVE table[2]
    <3>1. CASE table = <<TRUE, TRUE>>
      BY <3>1
    <3>2. CASE table = <<FALSE, FALSE>>
      <4>1. ~table[1]
        BY <3>2
      <4> QED
        BY <2>3, <4>1
    <3> QED
      BY <2>1, <3>1, <3>2
  <2>4. ASSUME dir[1] PROVE dir[2]
    <3>1. CASE dir = <<TRUE, TRUE>>
      BY <3>1
    <3>2. CASE dir = <<FALSE, FALSE>>
      <4>1. ~dir[1]
        BY <3>2
      <4> QED
        BY <2>4, <4>1
    <3> QED
      BY <2>1, <3>1, <3>2
  <2> QED
    BY <1>1, <2>2, <2>3, <2>4 DEF OkMeansWhole
<1>7. Listing'
  BY <1>2 DEF IInv, Order, Mounted, Listing, searchVars
<1>8. Reading'
  BY <1>2 DEF IInv, Order, Mounted, Reading, fileVars
<1> QED
  BY <1>4, <1>5, <1>6, <1>7, <1>8 DEF IInv

-----------------------------------------------------------------------------
(* Searching *)

LEMMA Directory ==
    ASSUME Typed
    PROVE  /\ \A i \in DOMAIN disk : i \in Nat /\ FileName(disk[i]) \in Seq(Char)
           /\ \A i \in DOMAIN root : i \in Nat /\ FileName(root[i]) \in Seq(Char)
           /\ \A i, j \in DOMAIN disk :
                 disk[i].kind = "file" /\ disk[j].kind = "file" /\ FileName(disk[i]) = FileName(disk[j]) => i = j
<1>1. disk \in Seq(Entries) /\ root \in Seq(Entries)
  <2>1. <<>> \in Seq(Entries)
    OBVIOUS
  <2>2. disk \in Seq(Entries) /\ (root = Null \/ root \in Disks \cup Garbage)
    BY DirectoryAssumption DEF Typed
  <2> QED
    BY <2>1, <2>2, DirectoryAssumption DEF Null
<1>2. /\ \A i \in DOMAIN disk : i \in Nat /\ disk[i] \in Entries
      /\ \A i \in DOMAIN root : i \in Nat /\ root[i] \in Entries
  BY <1>1
<1>3. \A e \in Entries : FileName(e) \in Seq(Char)
  BY FileNameIsString
<1> QED
  BY <1>2, <1>3, DirectoryAssumption DEF Typed

\* What the code and the reference take of a directory without gaps.
LEMMA FirstHitsAreHits ==
    ASSUME Typed, Order, whole, Dense(disk), NEW name \in Seq(Char)
    PROVE  FirstHits(name) = {i \in DOMAIN disk : disk[i].kind = "file" /\ Matches(name, FileName(disk[i]))}
<1>1. root = disk
  BY DEF Order
<1>2. ASSUME NEW i \in DOMAIN disk PROVE wildcmp(name, FileName(disk[i])) <=> Matches(name, FileName(disk[i]))
  BY Directory, WildcmpMatches, DirectoryAssumption
<1>3. ASSUME NEW i \in DOMAIN disk, disk[i].kind = "file", NEW j \in Free PROVE i < j
  <2>1. j \in DOMAIN disk /\ disk[j].kind = "free" /\ i # j
    BY <1>1, <1>3 DEF Free
  <2>2. i \in Nat /\ j \in Nat
    BY <2>1, Directory
  <2>3. ~(j < i)
    BY <1>3, <2>1 DEF Dense
  <2> QED
    BY <2>1, <2>2, <2>3
<1>4. FirstHits(name) = {i \in DOMAIN disk : /\ disk[i].kind = "file"
                                             /\ wildcmp(name, FileName(disk[i]))
                                             /\ \A j \in Free : i < j}
  BY <1>1 DEF FirstHits, Comparable
<1> QED
  BY <1>2, <1>3, <1>4

LEMMA NextHitsAreHits ==
    ASSUME Typed, Order, whole, Dense(disk), NEW p \in Hits, last = FileName(disk[p])
    PROVE  NextHits = {i \in Hits : p < i}
<1>1. root = disk
  BY DEF Order
<1>2. ASSUME NEW i \in DOMAIN disk PROVE wildcmp(pattern, FileName(disk[i])) <=> Matches(pattern, FileName(disk[i]))
  BY Directory, WildcmpMatches, DirectoryAssumption DEF Typed
<1>3. p \in DOMAIN disk /\ disk[p].kind = "file" /\ p \in Nat
  BY Directory DEF Hits, Wanted
<1>4. ASSUME NEW i \in DOMAIN disk, disk[i].kind = "file"
      PROVE  /\ FileName(disk[i]) # last <=> i # p
             /\ (\E j \in 1 .. i - 1 : disk[j].kind = "file" /\ FileName(disk[j]) = last) <=> p < i
  <2>1. FileName(disk[i]) # last <=> i # p
    BY <1>3, <1>4, Directory
  <2>2. i \in Nat /\ \A j \in 1 .. i - 1 : j \in DOMAIN disk
    <3>1. disk \in Seq(Entries)
      BY DirectoryAssumption DEF Typed
    <3> QED
      BY <3>1
  <2>3. ASSUME NEW j \in 1 .. i - 1, disk[j].kind = "file", FileName(disk[j]) = last PROVE p < i
    <3>1. j = p
      BY <1>3, <2>2, <2>3, Directory
    <3> QED
      BY <2>2, <3>1
  <2>4. ASSUME p < i PROVE p \in 1 .. i - 1
    <3>1. p # 0
      <4>1. disk \in Seq(Entries)
        BY DirectoryAssumption DEF Typed
      <4> QED
        BY <1>3, <4>1
    <3> QED
      BY <1>3, <2>2, <2>4, <3>1
  <2> QED
    BY <1>3, <2>1, <2>3, <2>4
<1>5. NextHits = {i \in DOMAIN disk : /\ disk[i].kind = "file" /\ FileName(disk[i]) # last
                         /\ wildcmp(pattern, FileName(disk[i]))
                         /\ \E j \in 1 .. i - 1 : disk[j].kind = "file" /\ FileName(disk[j]) = last}
  BY <1>1 DEF NextHits, Comparable
<1>6. Hits = {i \in DOMAIN disk : disk[i].kind = "file" /\ Matches(pattern, FileName(disk[i]))}
  BY DEF Hits, Wanted
<1>7. \A i \in DOMAIN disk : i \in Nat
  BY Directory
<1> QED
  BY <1>2, <1>3, <1>4, <1>5, <1>6, <1>7

\* Steps that leave a listing, or the reading of files, alone.
LEMMA ListingKept ==
    ASSUME Listing, UNCHANGED <<disk, whole, searchVars>>
    PROVE  Listing'
  BY DEF Listing, Hits, UpTo, Wanted, Dense, searchVars

LEMMA ReadingKept ==
    ASSUME Reading, UNCHANGED <<whole, fileVars>>
    PROVE  Reading'
  BY DEF Reading, Placed, ClustersOf, fileVars

LEMMA OrderKept ==
    ASSUME Order, UNCHANGED <<disksVars>>, search' = "none" \/ Mounted,
           Mounted \/ UNCHANGED handles
    PROVE  Order'
  BY DEF Order, Mounted, disksVars

LEMMA FindFirstStep ==
    ASSUME IInv, NEW name \in Wilds, FindFirst(name)
    PROVE  IInv'
<1> USE DEF IInv
<1>1. /\ Mounted /\ pattern' = name /\ UNCHANGED <<disksVars, fileVars>>
      /\ IF FirstHits(name) = {} THEN search' = "over" /\ listed' = <<>>
         ELSE search' = "on" /\ last' = FileName(root[Min(FirstHits(name))]) /\ listed' = <<last'>>
  BY DEF FindFirst
<1>2. name \in Seq(Char)
  BY DirectoryAssumption
<1>3. FirstHits(name) # {} => Min(FirstHits(name)) \in FirstHits(name) /\ \A i \in FirstHits(name) : Min(FirstHits(name)) <= i
  <2>1. FirstHits(name) \in SUBSET Nat
    BY Directory DEF FirstHits
  <2> QED
    BY <2>1, MinIsLeast
<1>4. listed' \in Seq(Seq(Char))
  <2>1. CASE FirstHits(name) = {}
    <3>1. listed' = <<>>
      BY <1>1, <2>1
    <3> QED
      BY <3>1
  <2>2. CASE FirstHits(name) # {}
    <3>1. last' \in Seq(Char) /\ listed' = <<last'>>
      BY <1>1, <1>3, <2>2, Directory DEF FirstHits
    <3> QED
      BY <3>1, OneMore DEF Typed
  <2> QED
    BY <2>1, <2>2
<1>5. Typed'
  BY <1>1, <1>2, <1>4 DEF Typed, disksVars, fileVars
<1>6. Order' /\ OkMeansWhole' /\ Reading'
  BY <1>1, OrderKept, ReadingKept DEF OkMeansWhole, disksVars, fileVars
<1>7. Listing'
  <2> SUFFICES ASSUME whole', Dense(disk)'
               PROVE  /\ search' = "on" => \E p \in Hits' : last' = FileName(disk'[p]) /\ Lists(listed', disk', UpTo(p)')
                      /\ search' = "over" => Lists(listed', disk', Hits')
    BY DEF Listing
  <2>1. whole /\ Dense(disk) /\ disk' = disk /\ root = disk
    BY <1>1 DEF Order, Dense, disksVars
  <2>2. Hits' = FirstHits(name)
    <3>1. Hits' = {i \in DOMAIN disk : disk[i].kind = "file" /\ Matches(name, FileName(disk[i]))}
      BY <1>1, <2>1 DEF Hits, Wanted
    <3> QED
      BY <1>2, <2>1, <3>1, FirstHitsAreHits
  <2>3. CASE FirstHits(name) = {}
    BY <1>1, <2>1, <2>2, <2>3, ListsNothing
  <2>4. CASE FirstHits(name) # {}
    <3>1. PICK p : p = Min(FirstHits(name))
      OBVIOUS
    <3>2. /\ p \in Hits' /\ p \in Nat /\ p \in DOMAIN disk
          /\ \A i \in Hits' : i \in Nat /\ p <= i
      BY <1>3, <2>1, <2>2, <2>4, <3>1, Directory DEF FirstHits
    <3>3. last' = FileName(disk[p]) /\ listed' = <<last'>> /\ FileName(disk[p]) \in Seq(Char)
      BY <1>1, <2>1, <2>4, <3>1, <3>2, Directory
    <3>4. UpTo(p)' = {} \cup {p}
      <4>1. UpTo(p)' = {i \in Hits' : i <= p}
        BY DEF UpTo
      <4>2. \A i \in Hits' : i <= p <=> i = p
        BY <3>2
      <4> QED
        BY <3>2, <4>1, <4>2
    <3>5. Lists(Append(<<>>, FileName(disk[p])), disk, {} \cup {p})
      <4>1. <<>> \in Seq(Seq(Char)) /\ {} \in SUBSET Nat
        OBVIOUS
      <4> QED
        BY <3>2, <3>3, <4>1, ListsNothing, ListsNext
    <3>6. listed' = Append(<<>>, FileName(disk[p]))
      BY <3>3
    <3> QED
      BY <1>1, <2>1, <2>4, <3>2, <3>3, <3>4, <3>5, <3>6
  <2> QED
    BY <2>3, <2>4
<1> QED
  BY <1>5, <1>6, <1>7

LEMMA FindNextStep ==
    ASSUME IInv, FindNext
    PROVE  IInv'
<1> USE DEF IInv
<1>1. /\ search = "on" /\ UNCHANGED <<pattern, disksVars, fileVars>>
      /\ IF NextHits = {} THEN search' = "over" /\ UNCHANGED <<last, listed>>
         ELSE last' = FileName(root[Min(NextHits)]) /\ listed' = Append(listed, last') /\ UNCHANGED search
  BY DEF FindNext
<1>2. Mounted
  BY <1>1 DEF Order
<1>3. NextHits # {} => Min(NextHits) \in NextHits /\ \A i \in NextHits : Min(NextHits) <= i
  <2>1. NextHits \in SUBSET Nat
    BY Directory DEF NextHits
  <2> QED
    BY <2>1, MinIsLeast
<1>4. NextHits # {} => last' \in Seq(Char)
  BY <1>1, <1>3, Directory DEF NextHits
<1>5. Typed'
  <2>1. listed' \in Seq(Seq(Char))
    <3>1. listed \in Seq(Seq(Char))
      BY DEF Typed
    <3> QED
      BY <1>1, <1>4, <3>1, OneMore
  <2> QED
    BY <1>1, <2>1 DEF Typed, disksVars, fileVars
<1>6. Order' /\ OkMeansWhole' /\ Reading'
  BY <1>1, <1>2, OrderKept, ReadingKept DEF OkMeansWhole, disksVars, fileVars
<1>7. Listing'
  <2> SUFFICES ASSUME whole', Dense(disk)'
               PROVE  /\ search' = "on" => \E p \in Hits' : last' = FileName(disk'[p]) /\ Lists(listed', disk', UpTo(p)')
                      /\ search' = "over" => Lists(listed', disk', Hits')
    BY DEF Listing
  <2>1. whole /\ Dense(disk) /\ disk' = disk /\ root = disk
    BY <1>1 DEF Order, Dense, disksVars
  <2>2. Hits' = Hits /\ \A p : UpTo(p)' = UpTo(p)
    BY <1>1, <2>1 DEF Hits, UpTo, Wanted
  <2>3. PICK p \in Hits : last = FileName(disk[p]) /\ Lists(listed, disk, UpTo(p))
    BY <1>1, <2>1 DEF Listing
  <2>4. NextHits = {i \in Hits : p < i}
    BY <2>1, <2>3, NextHitsAreHits
  <2>5. p \in Nat /\ \A i \in Hits : i \in Nat /\ i \in DOMAIN disk
    BY Directory DEF Hits
  <2>6. CASE NextHits = {}
    <3>1. UpTo(p) = Hits
      <4>1. \A i \in Hits : i <= p
        BY <2>4, <2>5, <2>6
      <4> QED
        BY <4>1 DEF UpTo
    <3> QED
      BY <1>1, <2>1, <2>2, <2>3, <2>6, <3>1
  <2>7. CASE NextHits # {}
    <3>1. PICK q : q = Min(NextHits)
      OBVIOUS
    <3>2. q \in Hits /\ q \in Nat /\ p < q /\ \A i \in Hits : p < i => q <= i
      BY <1>3, <2>4, <2>5, <2>7, <3>1
    <3>3. last' = FileName(disk[q]) /\ listed' = Append(listed, FileName(disk[q])) /\ FileName(disk[q]) \in Seq(Char)
      BY <1>1, <2>1, <2>5, <2>7, <3>1, <3>2, Directory
    <3>4. Hits \in SUBSET Nat
      BY <2>5
    <3>5. UpTo(q) = UpTo(p) \cup {q} /\ \A i \in UpTo(p) : i < q
      BY <2>5, <3>2, <3>4, UpToNext DEF UpTo
    <3>6. Lists(Append(listed, FileName(disk[q])), disk, UpTo(p) \cup {q})
      <4>1. UpTo(p) \in SUBSET Nat
        BY <3>4 DEF UpTo
      <4> QED
        BY <2>3, <3>2, <3>3, <3>5, <4>1, ListsNext DEF Typed
    <3> QED
      BY <1>1, <2>1, <2>2, <2>7, <3>2, <3>3, <3>5, <3>6
  <2> QED
    BY <2>6, <2>7
<1> QED
  BY <1>5, <1>6, <1>7

-----------------------------------------------------------------------------
(* Files *)

LEMMA FoundCluster ==
    ASSUME Typed, NEW name, FirstHits(name) # {}
    PROVE  LET found == FileName(root[Min(FirstHits(name))])
           IN  /\ found \in Seq(Char)
               /\ found \in DOMAIN FirstCluster
               /\ FirstCluster[found] \in Used \cup {0}
               /\ FirstCluster[found] \in DOMAIN Table
<1>1. PICK p : p = Min(FirstHits(name))
  OBVIOUS
<1>2. p \in DOMAIN root /\ root[p].kind = "file"
  <2>1. FirstHits(name) \in SUBSET Nat
    BY Directory DEF FirstHits
  <2>2. p \in FirstHits(name)
    BY <1>1, <2>1, MinIsLeast
  <2> QED
    BY <2>2 DEF FirstHits, Comparable
<1>3. root \in Disks \cup Garbage
  <2>1. root # Null
    BY <1>2 DEF Null
  <2> QED
    BY <2>1 DEF Typed
<1>4. FileName(root[p]) \in DOMAIN FirstCluster
  BY <1>2, <1>3, TableAssumption
<1>5. FirstCluster[FileName(root[p])] \in Used \cup {0}
  BY <1>4, TableAssumption
<1>6. FirstCluster[FileName(root[p])] \in DOMAIN Table
  BY <1>5, TableAssumption DEF Used
<1>7. FileName(root[p]) \in Seq(Char)
  BY <1>2, Directory
<1> QED
  BY <1>1, <1>4, <1>5, <1>6, <1>7

LEMMA UnusedHandle ==
    ASSUME Typed, Unused # {}
    PROVE  Min(Unused) \in Handle /\ handles[Min(Unused)].init = 0
<1>1. Unused \in SUBSET Nat
  BY ZeroIsHandle DEF Unused
<1>2. Min(Unused) \in Unused
  BY <1>1, MinIsLeast
<1> QED
  BY <1>2 DEF Unused

\* A file just opened has yielded nothing, and its handle is at its second cluster.
LEMMA SecondCluster ==
    ASSUME NEW name \in DOMAIN FirstCluster
    PROVE  ClustersOf(name)[1] = Table[FirstCluster[name]]
<1>1. PICK x : x = FirstCluster[name]
  OBVIOUS
<1>2. x \in DOMAIN Table /\ x \in Cluster
  <2>1. x \in Used \cup {0}
    BY <1>1, TableAssumption
  <2>2. x \in DOMAIN Table
    BY <2>1, TableAssumption DEF Used
  <2> QED
    BY <2>2, Clusters
<1>3. PICK W : W = Walk(Links(Table), x)
  OBVIOUS
<1>4. W[0] = x /\ \A k \in Nat : W[k + 1] = Links(Table)[W[k]]
  BY <1>2, <1>3, TableWalk
<1>5. W[0 + 1] = Table[x]
  BY <1>2, <1>4, Clusters
<1> QED
  BY <1>1, <1>3, <1>5 DEF ClustersOf

LEMMA AssignStep ==
    ASSUME IInv, NEW name \in Names, FatAssign(name)
    PROVE  IInv'
<1> USE DEF IInv
<1>1. /\ Mounted /\ UNCHANGED disksVars
      /\ pattern' = name /\ search' = "none" /\ listed' = <<>>
  BY DEF FatAssign
<1>2. Order'
  BY <1>1, OrderKept
<1>3. Listing' /\ OkMeansWhole'
  BY <1>1 DEF Listing, OkMeansWhole, disksVars
<1>4. pattern' \in Seq(Char) /\ listed' \in Seq(Seq(Char))
  BY <1>1, DirectoryAssumption
<1>5. CASE UNCHANGED <<handles, file, got, lost>> /\ Len(result') = 1
  <2>1. Typed'
    BY <1>1, <1>4, <1>5 DEF Typed, disksVars
  <2>2. \A h : result' # <<h, 0>>
    BY <1>5
  <2>3. Reading'
    BY <1>1, <1>5, <2>2 DEF Reading, Placed, ClustersOf, disksVars
  <2> QED
    BY <1>2, <1>3, <2>1, <2>3
<1>6. CASE FirstHits(name) # {} /\ Unused # {}
  <2>1. PICK found, h : /\ found = FileName(root[Min(FirstHits(name))]) /\ h = Min(Unused)
                        /\ handles' = [handles EXCEPT ![h] =
                              [init |-> 1, pos |-> get_fat_entry(FirstCluster[found])]]
                        /\ file' = [file EXCEPT ![h] = found]
                        /\ got' = [got EXCEPT ![h] = <<>>]
                        /\ lost' = [lost EXCEPT ![h] = FALSE]
                        /\ result' = <<>>
    BY <1>6 DEF FatAssign
  <2>2. /\ found \in Seq(Char) /\ found \in DOMAIN FirstCluster
        /\ FirstCluster[found] \in DOMAIN Table
        /\ h \in Handle
    BY <1>6, <2>1, FoundCluster, UnusedHandle
  <2>3. /\ get_fat_entry(FirstCluster[found]) \in Cluster
        /\ whole => get_fat_entry(FirstCluster[found]) = Table[FirstCluster[found]]
    BY <1>1, <2>2, Buffers DEF get_fat_entry, Order
  <2>4. Typed'
    <3>1. handles' \in [Handle -> [init : {0, 1}, pos : Cluster]]
      BY <2>1, <2>2, <2>3 DEF Typed
    <3>2. /\ file' \in [Handle -> Seq(Char)] /\ lost' \in [Handle -> BOOLEAN]
          /\ got' \in [Handle -> Seq(Cluster)]
      BY <2>1, <2>2 DEF Typed
    <3> QED
      BY <1>1, <1>4, <3>1, <3>2 DEF Typed, disksVars
  <2>5. Reading'
    <3> SUFFICES ASSUME whole', NEW g \in Handle \ {0}, handles'[g].init = 1, ~lost'[g]
                 PROVE  Placed(g)'
      BY DEF Reading
    <3>1. \A i : result' # <<i, 0>>
      BY <2>1
    <3>2. CASE g = h
      <4>1. file'[g] = found /\ got'[g] = <<>> /\ handles'[g].pos = Table[FirstCluster[found]]
        BY <1>1, <2>1, <2>2, <2>3, <3>2 DEF Typed, disksVars
      <4>2. Len(got'[g]) = 0
        BY <4>1
      <4>3. handles'[g].pos = ClustersOf(file'[g])[0 + 1]
        BY <2>2, <4>1, SecondCluster
      <4> QED
        BY <2>2, <3>1, <4>1, <4>2, <4>3 DEF Placed, ClustersOf
    <3>3. CASE g # h
      <4>1. file'[g] = file[g] /\ got'[g] = got[g] /\ handles'[g] = handles[g] /\ lost'[g] = lost[g]
        BY <2>1, <3>3 DEF Typed
      <4>2. Placed(g)
        BY <1>1, <4>1 DEF Reading, disksVars
      <4> QED
        BY <3>1, <4>1, <4>2 DEF Placed, ClustersOf
    <3> QED
      BY <3>2, <3>3
  <2> QED
    BY <1>2, <1>3, <2>4, <2>5
<1> QED
  BY <1>5, <1>6 DEF FatAssign

LEMMA CloseStep ==
    ASSUME IInv, NEW h \in Handle, FatClose(h)
    PROVE  IInv'
<1> USE DEF IInv
<1>1. /\ UNCHANGED <<disksVars, searchVars>> /\ handles[h].init = 1 /\ h # 0
      /\ handles' = [handles EXCEPT ![h].init = 0]
      /\ file' = [file EXCEPT ![h] = <<>>]
      /\ got' = [got EXCEPT ![h] = <<>>]
      /\ lost' = [lost EXCEPT ![h] = FALSE]
      /\ result' = <<>>
  BY DEF FatClose
<1>2. Mounted
  BY <1>1 DEF Order
<1>3. Order' /\ OkMeansWhole' /\ Listing'
  BY <1>1, <1>2, OrderKept, ListingKept DEF OkMeansWhole, disksVars, searchVars
<1>4. Typed'
  <2>1. handles' \in [Handle -> [init : {0, 1}, pos : Cluster]]
    BY <1>1 DEF Typed
  <2>2. file' \in [Handle -> Seq(Char)] /\ lost' \in [Handle -> BOOLEAN]
    BY <1>1 DEF Typed
  <2>3. got' \in [Handle -> Seq(Cluster)]
    BY <1>1 DEF Typed
  <2> QED
    BY <1>1, <2>1, <2>2, <2>3 DEF Typed, disksVars, searchVars
<1>5. Reading'
  <2> SUFFICES ASSUME whole', NEW g \in Handle \ {0}, handles'[g].init = 1, ~lost'[g]
               PROVE  Placed(g)'
    BY DEF Reading
  <2>1. g # h
    BY <1>1 DEF Typed
  <2>2. file'[g] = file[g] /\ got'[g] = got[g] /\ handles'[g] = handles[g] /\ lost'[g] = lost[g]
    BY <1>1, <2>1 DEF Typed
  <2>3. Placed(g)
    BY <1>1, <2>2 DEF Reading, disksVars
  <2>4. result' # <<g, 0>>
    BY <1>1
  <2> QED
    BY <2>2, <2>3, <2>4 DEF Placed, ClustersOf
<1> QED
  BY <1>3, <1>4, <1>5

LEMMA Joined ==
    ASSUME NEW s \in Seq(Cluster), NEW t \in Seq(Cluster)
    PROVE  /\ s \o t \in Seq(Cluster)
           /\ Len(s \o t) = Len(s) + Len(t)
           /\ \A i \in 1 .. Len(s) : (s \o t)[i] = s[i]
           /\ \A i \in 1 .. Len(t) : (s \o t)[Len(s) + i] = t[i]
  OBVIOUS

\* Along the clusters of a file.
LEMMA ClustersOfFacts ==
    ASSUME NEW name \in DOMAIN FirstCluster
    PROVE  /\ ClustersOf(name) \in [Nat -> Cluster]
           /\ \A k \in Nat : ClustersOf(name)[k + 1] \in Used \/ ClustersOf(name)[k + 1] \notin DOMAIN Table
           /\ \A k, n \in Nat : Walk(Links(Table), ClustersOf(name)[k])[n] = ClustersOf(name)[k + n]
<1>1. FirstCluster[name] \in Used \cup {0}
  BY TableAssumption
<1>2. FirstCluster[name] \in Cluster
  BY <1>1, TableAssumption, Clusters DEF Used
<1> QED
  BY <1>1, <1>2, TableWalk, TableWalkOn, FileClusters DEF ClustersOf

\* A call that has read k sectors, all there were to read or none.
LEMMA ReadOn ==
    ASSUME NEW h \in Handle, Typed, Placed(h), NEW k \in Nat,
           NEW at \in [Nat -> Cluster], at = Walk(Links(Table), handles[h].pos),
           \A i \in 0 .. k - 1 : at[i] \in DOMAIN Table,
           NEW more \in Seq(Cluster), Len(more) = k, \A i \in 1 .. k : more[i] = at[i - 1]
    PROVE  LET cluster == ClustersOf(file[h])
               sofar == got[h] \o more
           IN  /\ sofar \in Seq(Cluster)
               /\ at[k] = cluster[Len(sofar) + 1]
               /\ \A i \in 1 .. Len(sofar) : sofar[i] = cluster[i] /\ cluster[i] \in Used
<1>0. got[h] \in Seq(Cluster)
  BY DEF Typed
<1>1. PICK W : W = ClustersOf(file[h])
  OBVIOUS
<1>2. PICK L \in Nat : L = Len(got[h])
  BY <1>0
<1>3. /\ W \in [Nat -> Cluster]
      /\ \A j \in Nat : W[j + 1] \in Used \/ W[j + 1] \notin DOMAIN Table
      /\ \A j, m \in Nat : Walk(Links(Table), W[j])[m] = W[j + m]
  BY <1>1, ClustersOfFacts DEF Placed
<1>4. /\ handles[h].pos = W[L + 1]
      /\ \A i \in 1 .. L : got[h][i] = W[i] /\ W[i] \in Used
  BY <1>1, <1>2 DEF Placed
<1>5. \A i \in Nat : at[i] = W[L + 1 + i]
  <2>1. L + 1 \in Nat
    BY <1>2
  <2>2. \A i \in Nat : Walk(Links(Table), W[L + 1])[i] = W[L + 1 + i]
    BY <1>3, <2>1
  <2> QED
    BY <1>4, <2>2
<1>6. PICK sofar : sofar = got[h] \o more
  OBVIOUS
<1>9. /\ sofar \in Seq(Cluster) /\ Len(sofar) = L + k
      /\ \A i \in 1 .. L : sofar[i] = got[h][i]
      /\ \A i \in 1 .. k : sofar[L + i] = more[i]
  <2>1. /\ got[h] \o more \in Seq(Cluster)
        /\ Len(got[h] \o more) = Len(got[h]) + Len(more)
        /\ \A i \in 1 .. Len(got[h]) : (got[h] \o more)[i] = got[h][i]
        /\ \A i \in 1 .. Len(more) : (got[h] \o more)[Len(got[h]) + i] = more[i]
    <3>1. PICK g \in Seq(Cluster) : g = got[h]
      BY <1>0
    <3>2. /\ g \o more \in Seq(Cluster)
          /\ Len(g \o more) = Len(g) + Len(more)
          /\ \A i \in 1 .. Len(g) : (g \o more)[i] = g[i]
          /\ \A i \in 1 .. Len(more) : (g \o more)[Len(g) + i] = more[i]
      BY <3>1, Joined
    <3> QED
      BY <3>1, <3>2
  <2> QED
    BY <1>2, <1>6, <2>1
<1>10. at[k] = W[Len(sofar) + 1]
  <2>1. L + k + 1 = L + 1 + k
    BY <1>0, <1>2
  <2> QED
    BY <1>0, <1>5, <1>9, <2>1
<1>11. ASSUME NEW i \in 1 .. Len(sofar) PROVE sofar[i] = W[i] /\ W[i] \in Used
  <2>1. CASE i \in 1 .. L
    BY <1>4, <1>9, <2>1
  <2>2. CASE i \notin 1 .. L
    <3>1. PICK j \in 1 .. k : i = L + j /\ j - 1 \in Nat /\ L + 1 + (j - 1) = i /\ i - 1 \in Nat /\ i - 1 + 1 = i
      <4>1. i \in Nat /\ L \in Nat /\ L < i /\ i <= L + k
        BY <1>2, <1>9, <2>2
      <4>2. i - L \in 1 .. k
        BY <4>1
      <4> QED
        BY <4>1, <4>2
    <3>2. sofar[i] = at[j - 1] /\ at[j - 1] = W[i]
      BY <1>5, <1>9, <3>1
    <3>3. j - 1 \in 0 .. k - 1
      BY <1>0, <3>1
    <3>4. W[i] \in DOMAIN Table
      BY <3>2, <3>3
    <3>5. W[i] \in Used
      BY <1>3, <3>1, <3>4
    <3> QED
      BY <3>2, <3>5
  <2> QED
    BY <2>1, <2>2
<1> QED
  BY <1>1, <1>6, <1>9, <1>10, <1>11

LEMMA ReadStep ==
    ASSUME IInv, NEW h \in Handle, NEW n \in Counts, FatRead(h, n)
    PROVE  IInv'
<1> USE DEF IInv
<1>1. PICK at, all : at = Walk(Links(fat), handles[h].pos) /\ all = Ahead(at, n)
  OBVIOUS
<1>2. PICK k \in 0 .. all :
         /\ \A i \in 0 .. k - 1 : at[i] \in DOMAIN fat
         /\ handles' = [handles EXCEPT ![h].pos = at[k]]
         /\ IF k = all
            THEN /\ got' = [got EXCEPT ![h] = @ \o [i \in 1 .. k |-> at[i - 1]]]
                 /\ result' = <<h, k>>
                 /\ UNCHANGED lost
            ELSE /\ lost' = [lost EXCEPT ![h] = @ \/ k > 0]
                 /\ result' = <<ReadError>>
                 /\ UNCHANGED got
  BY <1>1 DEF FatRead, EndOf
<1>3. handles[h].init = 1 /\ h # 0 /\ UNCHANGED <<disksVars, searchVars, file>>
  BY DEF FatRead
<1>4. Mounted /\ fat \in GarbageTables \cup {Table}
  BY <1>3 DEF Order
<1>5. n \in Nat /\ n # 0
  BY FatFsAssumption
<1>6. all \in 0 .. n /\ (all = 0 => at[0] >= fat_end)
  BY <1>1, <1>5, AheadFacts
<1>7. k \in Nat /\ k \in 0 .. n
  BY <1>5, <1>6
<1>8. handles[h].pos \in Cluster
  BY DEF Typed
<1>9. at \in [Nat -> Cluster] /\ at[0] = handles[h].pos
  BY <1>1, <1>4, <1>8, TableWalk
<1>10. Order' /\ OkMeansWhole' /\ Listing'
  BY <1>3, <1>4, OrderKept, ListingKept DEF OkMeansWhole, disksVars, searchVars
<1> DEFINE sofar == got[h] \o [i \in 1 .. k |-> at[i - 1]]
<1>11. Typed'
  <2>1. handles' \in [Handle -> [init : {0, 1}, pos : Cluster]]
    <3>1. at[k] \in Cluster
      BY <1>7, <1>9
    <3> QED
      BY <1>2, <3>1 DEF Typed
  <2>2. lost' \in [Handle -> BOOLEAN]
    BY <1>2 DEF Typed
  <2>3. got' \in [Handle -> Seq(Cluster)]
    <3>1. sofar \in Seq(Cluster)
      <4>1. \A i \in 1 .. k : at[i - 1] \in Cluster
        BY <1>7, <1>9
      <4>2. [i \in 1 .. k |-> at[i - 1]] \in Seq(Cluster)
        BY <1>7, <4>1
      <4>3. got[h] \in Seq(Cluster)
        BY DEF Typed
      <4> QED
        BY <4>2, <4>3
    <3> QED
      BY <1>2, <3>1 DEF Typed
  <2> QED
    BY <1>3, <2>1, <2>2, <2>3 DEF Typed, disksVars, searchVars
<1>12. Reading'
  <2> SUFFICES ASSUME whole', NEW g \in Handle \ {0}, handles'[g].init = 1, ~lost'[g]
               PROVE  Placed(g)'
    BY DEF Reading
  <2>1. whole /\ fat = Table
    BY <1>3 DEF disksVars, Order
  <2>2. CASE g # h
    <3>1. file'[g] = file[g] /\ got'[g] = got[g] /\ handles'[g] = handles[g] /\ lost'[g] = lost[g]
      BY <1>2, <1>3, <2>2 DEF Typed
    <3>2. Placed(g)
      BY <2>1, <3>1 DEF Reading
    <3>3. result' # <<g, 0>>
      <4>1. result' = <<h, k>> \/ result' = <<ReadError>>
        BY <1>2
      <4> QED
        BY <2>2, <4>1
    <3> QED
      BY <3>1, <3>2, <3>3 DEF Placed, ClustersOf
  <2>3. CASE g = h
    <3>1. ~lost[h] /\ (k = all \/ k = 0)
      <4>2. CASE k = all
        BY <1>2, <2>3, <4>2
      <4>3. CASE k # all
        <5>1. ~(lost[h] \/ k > 0)
          BY <1>2, <2>3, <4>3 DEF Typed
        <5> QED
          BY <1>7, <5>1
      <4> QED
        BY <4>2, <4>3
    <3>2. Placed(h)
      BY <1>3, <2>1, <3>1 DEF Reading
    <3>3. file'[h] = file[h] /\ handles'[h].pos = at[k]
      BY <1>2, <1>3 DEF Typed
    <3>4. CASE k = all
      <4>1. got'[h] = sofar /\ result' = <<h, k>>
        BY <1>2, <3>4 DEF Typed
      <4>2. LET cluster == ClustersOf(file[h])
            IN  /\ at[k] = cluster[Len(sofar) + 1]
                /\ \A i \in 1 .. Len(sofar) : sofar[i] = cluster[i] /\ cluster[i] \in Used
        <5>1. at = Walk(Links(Table), handles[h].pos) /\ \A i \in 0 .. k - 1 : at[i] \in DOMAIN Table
          BY <1>1, <1>2, <2>1
        <5>2. PICK more : more = [i \in 1 .. k |-> at[i - 1]]
          OBVIOUS
        <5>3. more \in Seq(Cluster) /\ Len(more) = k /\ \A i \in 1 .. k : more[i] = at[i - 1]
          <6>1. \A i \in 1 .. k : at[i - 1] \in Cluster
            BY <1>7, <1>9
          <6> QED
            BY <1>7, <5>2, <6>1
        <5>4. sofar = got[h] \o more
          BY <5>2
        <5> HIDE DEF sofar
        <5>5. LET cluster == ClustersOf(file[h])
              IN  /\ at[k] = cluster[Len(got[h] \o more) + 1]
                  /\ \A i \in 1 .. Len(got[h] \o more) :
                        (got[h] \o more)[i] = cluster[i] /\ cluster[i] \in Used
          BY <1>7, <1>9, <3>2, <5>1, <5>3, ReadOn
        <5> QED
          BY <5>4, <5>5
      <4>3. result' = <<h, 0>> => at[k] >= fat_end
        BY <1>6, <3>4, <4>1
      <4> HIDE DEF sofar
      <4> QED
        BY <2>3, <3>2, <3>3, <4>1, <4>2, <4>3 DEF Placed, ClustersOf
    <3>5. CASE k # all
      <4>1. got'[h] = got[h] /\ result' = <<ReadError>> /\ at[k] = handles[h].pos
        BY <1>2, <1>9, <3>1, <3>5
      <4>2. result' # <<h, 0>>
        BY <4>1
      <4> QED
        BY <2>3, <3>2, <3>3, <4>1, <4>2 DEF Placed, ClustersOf
    <3> QED
      BY <3>4, <3>5
  <2> QED
    BY <2>2, <2>3
<1> QED
  BY <1>10, <1>11, <1>12

-----------------------------------------------------------------------------
(* The theorems *)

LEMMA NextIInv == IInv /\ [Next]_vars => IInv'
<1> SUFFICES ASSUME IInv, [Next]_vars PROVE IInv'
  OBVIOUS
<1>1. CASE FatInit
  BY <1>1, InitStep
<1>2. ASSUME NEW name \in Wilds, FindFirst(name) PROVE IInv'
  BY <1>2, FindFirstStep
<1>3. ASSUME NEW name \in Names, FatAssign(name) PROVE IInv'
  BY <1>3, AssignStep
<1>4. CASE FindNext
  BY <1>4, FindNextStep
<1>5. ASSUME NEW h \in Handle, NEW n \in Counts, FatRead(h, n) PROVE IInv'
  BY <1>5, ReadStep
<1>6. ASSUME NEW h \in Handle, FatClose(h) PROVE IInv'
  BY <1>6, CloseStep
<1>7. CASE UNCHANGED vars
  <2>1. UNCHANGED <<disksVars, searchVars, fileVars>>
    BY <1>7 DEF vars
  <2>2. Typed'
    BY <2>1 DEF IInv, Typed, disksVars, searchVars, fileVars
  <2>3. Order' /\ OkMeansWhole'
    BY <2>1 DEF IInv, Order, Mounted, OkMeansWhole, disksVars, searchVars, fileVars
  <2>4. Listing' /\ Reading'
    BY <2>1, ListingKept, ReadingKept DEF IInv, disksVars
  <2> QED
    BY <2>2, <2>3, <2>4 DEF IInv
<1> QED
  BY <1>1, <1>2, <1>3, <1>4, <1>5, <1>6, <1>7 DEF Next

THEOREM SpecIInv == Spec => []IInv
  BY InitIInv, NextIInv, PTL DEF Spec

(***************************************************************************)
(* When fs_fat_init() says OK, table and directory are in memory as they   *)
(* are on the disk, wherever they lie, if that is on the first cylinder:   *)
(* then no request for them is one of those whose failures are forgotten.  *)
(***************************************************************************)
THEOREM OkIsWhole == Spec => []OkMeansWhole
  BY SpecIInv, PTL DEF IInv

(***************************************************************************)
(* A listing that has come to its end has every file the pattern matches,  *)
(* once and in order, whatever the directory and the pattern.              *)
(***************************************************************************)
THEOREM ListingsAreComplete == Spec => []ListingComplete
<1>1. IInv => ListingComplete
  <2> SUFFICES ASSUME IInv, search = "over", whole, Dense(disk)
               PROVE  Lists(listed, disk, Hits)
    BY DEF ListingComplete, Lists, Hits
  <2> QED
    BY DEF IInv, Listing
<1> QED
  BY <1>1, SpecIInv, PTL

(***************************************************************************)
(* Through every handle come sectors that follow each other in its file    *)
(* with none left out, and none before there are no more, for every table  *)
(* whose chains are well formed and any number of handles open at once.    *)
(* What is proved of the first of them is that it is the second of the     *)
(* file: the strengthening that makes this inductive.                      *)
(***************************************************************************)
THEOREM HandlesReadInOrder == Spec => []ReadsInOrder
<1>1. IInv => ReadsInOrder
  <2> SUFFICES ASSUME IInv, whole, NEW h \in Handle \ {0}, handles[h].init = 1, ~lost[h]
               PROVE  LET cluster == ClustersOf(file[h])
                      IN  \E skipped \in {0, 1} :
                             /\ \A i \in 1 .. Len(got[h]) :
                                   LET c == cluster[i - 1 + skipped] IN got[h][i] = c /\ c \in Used
                             /\ result = <<h, 0>> => cluster[Len(got[h]) + skipped] \notin Used
    BY DEF ReadsInOrder, ClustersOf
  <2>1. Placed(h)
    BY DEF IInv, Reading
  <2>2. ASSUME NEW c \in Used PROVE ~(c >= fat_end)
    <3>1. c \in 0 .. fat_end - 1 /\ fat_end \in Nat
      BY TableAssumption DEF Used, fat_end
    <3> QED
      BY <3>1
  <2>3. \A i \in 1 .. Len(got[h]) : i - 1 + 1 = i
    BY DEF IInv, Typed
  <2>4. \A i \in 1 .. Len(got[h]) :
           LET c == ClustersOf(file[h])[i - 1 + 1] IN got[h][i] = c /\ c \in Used
    BY <2>1, <2>3 DEF Placed
  <2>5. result = <<h, 0>> => ClustersOf(file[h])[Len(got[h]) + 1] \notin Used
    BY <2>1, <2>2 DEF Placed
  <2> QED
    BY <2>4, <2>5
<1> QED
  BY <1>1, SpecIInv, PTL
=============================================================================
