---------------------------- MODULE NaturalFacts ----------------------------
(***************************************************************************)
(* Facts about natural numbers that the proofs of several components use.  *)
(***************************************************************************)
EXTENDS Integers, WellFoundedInduction, Walks, TLAPS

(***************************************************************************)
(* Every non-empty set of natural numbers has a smallest element.  It      *)
(* stands in for induction: a counterexample to a claim about all numbers  *)
(* has a smallest one.                                                     *)
(***************************************************************************)
LEMMA LeastNat ==
    ASSUME NEW T \in SUBSET Nat, T # {}
    PROVE  \E x \in T : \A y \in T : x <= y
<1>1. PICK x \in T : \A y \in T : ~ (<<y, x>> \in OpToRel(<, Nat))
  BY NatLessThanWellFounded, WFMin
<1>2. \A y \in T : ~(y < x)
  BY <1>1 DEF OpToRel
<1> QED
  BY <1>2

-----------------------------------------------------------------------------

\* The links F do not lead out of S.
Within(F, S) == \A y \in S : F[y] \in S

\* The first n steps of a walk, which stays in S.
IsWalk(g, n, F, x, S) ==
    /\ g \in [0 .. n -> S]
    /\ g[0] = x
    /\ \A k \in 1 .. n : g[k] = F[g[k - 1]]

(***************************************************************************)
(* For every n there is a walk of n steps, and any two agree as far as     *)
(* both go: what the recursive definition of Walk needs to mean something. *)
(***************************************************************************)
LEMMA WalkExists ==
    ASSUME NEW S, NEW F, Within(F, S), NEW x \in S, NEW n \in Nat
    PROVE  \E g : IsWalk(g, n, F, x, S)
<1> DEFINE T == {m \in Nat : ~\E g : IsWalk(g, m, F, x, S)}
<1> SUFFICES ASSUME T # {} PROVE FALSE
  OBVIOUS
<1>1. PICK m \in T : \A y \in T : m <= y
  BY LeastNat
<1>2. CASE m = 0
  <2>1. IsWalk([k \in 0 .. 0 |-> x], 0, F, x, S)
    BY DEF IsWalk
  <2> QED
    BY <1>2, <2>1
<1>3. CASE m # 0
  <2>1. m - 1 \in Nat /\ m - 1 \notin T
    BY <1>1, <1>3
  <2>2. PICK g : IsWalk(g, m - 1, F, x, S)
    BY <2>1
  <2> DEFINE h == [k \in 0 .. m |-> IF k = m THEN F[g[m - 1]] ELSE g[k]]
  <2>3. /\ \A k \in 0 .. m - 1 : g[k] \in S
        /\ g[0] = x
        /\ \A k \in 1 .. m - 1 : g[k] = F[g[k - 1]]
    BY <2>2 DEF IsWalk
  <2>4. h \in [0 .. m -> S]
    BY <2>1, <2>3 DEF Within
  <2>5. h[0] = x
    BY <1>3, <2>1, <2>3
  <2>6. ASSUME NEW k \in 1 .. m PROVE h[k] = F[h[k - 1]]
    <3>1. k - 1 \in 0 .. m /\ k - 1 # m /\ h[k - 1] = g[k - 1]
      BY <2>1
    <3>2. CASE k = m
      BY <3>1, <3>2
    <3>3. CASE k # m
      <4>1. k \in 1 .. m - 1 /\ h[k] = g[k]
        BY <2>1, <3>3
      <4> QED
        BY <2>3, <3>1, <4>1
    <3> QED
      BY <3>2, <3>3
  <2>7. IsWalk(h, m, F, x, S)
    BY <2>4, <2>5, <2>6 DEF IsWalk
  <2> QED
    BY <1>1, <2>7
<1> QED
  BY <1>2, <1>3

LEMMA WalkUnique ==
    ASSUME NEW S, NEW F, Within(F, S), NEW x \in S, NEW n \in Nat, NEW m \in Nat,
           NEW g, IsWalk(g, n, F, x, S), NEW h, IsWalk(h, m, F, x, S)
    PROVE  \A k \in Nat : k <= n /\ k <= m => g[k] = h[k]
<1> DEFINE T == {k \in Nat : k <= n /\ k <= m /\ g[k] # h[k]}
<1> SUFFICES ASSUME T # {} PROVE FALSE
  OBVIOUS
<1>1. PICK k \in T : \A y \in T : k <= y
  BY LeastNat
<1>2. k # 0
  BY <1>1 DEF IsWalk
<1>3. k - 1 \in Nat /\ k - 1 <= n /\ k - 1 <= m /\ k - 1 \notin T
  BY <1>1, <1>2
<1>4. k \in 1 .. n /\ k \in 1 .. m
  BY <1>1, <1>2
<1>5. g[k] = F[g[k - 1]] /\ h[k] = F[h[k - 1]]
  BY <1>4 DEF IsWalk
<1> QED
  BY <1>1, <1>3, <1>5

(***************************************************************************)
(* A walk along links that do not lead out of S: it stays in S, and each   *)
(* step follows a link.                                                    *)
(***************************************************************************)
LEMMA WalkFacts ==
    ASSUME NEW S, NEW F, Within(F, S), NEW x \in S
    PROVE  /\ Walk(F, x) \in [Nat -> S]
           /\ Walk(F, x)[0] = x
           /\ \A k \in Nat : Walk(F, x)[k + 1] = F[Walk(F, x)[k]]
<1> DEFINE G(n) == CHOOSE g : IsWalk(g, n, F, x, S)
<1> DEFINE w == [n \in Nat |-> G(n)[n]]
<1>1. \A n \in Nat : IsWalk(G(n), n, F, x, S)
  BY WalkExists
<1> HIDE DEF G
<1>2. \A n \in Nat : G(n)[n] \in S
  BY <1>1 DEF IsWalk
<1>3. w[0] = x
  BY <1>1 DEF IsWalk
<1>4. ASSUME NEW n \in Nat, n # 0 PROVE w[n] = F[w[n - 1]]
  <2>1. G(n)[n] = F[G(n)[n - 1]]
    BY <1>1, <1>4 DEF IsWalk
  <2>2. n - 1 \in Nat /\ n - 1 <= n
    BY <1>4
  <2>3. G(n)[n - 1] = G(n - 1)[n - 1]
    BY <1>1, <2>2, WalkUnique
  <2> QED
    BY <2>1, <2>2, <2>3
<1>5. w = [k \in Nat |-> IF k = 0 THEN x ELSE F[w[k - 1]]]
  <2> DEFINE v == [k \in Nat |-> IF k = 0 THEN x ELSE F[w[k - 1]]]
  <2>1. \A k \in Nat : w[k] = v[k]
    BY <1>3, <1>4
  <2> QED
    BY <2>1
<1> HIDE DEF w
<1>6. Walk(F, x) = [k \in Nat |-> IF k = 0 THEN x ELSE F[Walk(F, x)[k - 1]]]
  BY <1>5 DEF Walk
<1> DEFINE W == Walk(F, x)
<1> HIDE DEF W
<1>7. W[0] = x /\ \A k \in Nat : k # 0 => W[k] = F[W[k - 1]]
  BY <1>6 DEF W
<1>8. W \in [Nat -> S]
  <2> DEFINE T == {k \in Nat : W[k] \notin S}
  <2>1. T = {}
    <3> SUFFICES ASSUME T # {} PROVE FALSE
      OBVIOUS
    <3>1. PICK k \in T : \A y \in T : k <= y
      BY LeastNat
    <3>2. k # 0
      BY <1>7, <3>1
    <3>3. k - 1 \in Nat /\ k - 1 \notin T
      BY <3>1, <3>2
    <3> QED
      BY <1>7, <3>1, <3>2, <3>3 DEF Within
  <2>2. W = [k \in Nat |-> W[k]]
    BY <1>6 DEF W
  <2> HIDE DEF W
  <2> QED
    BY <2>1, <2>2
<1>9. ASSUME NEW k \in Nat PROVE W[k + 1] = F[W[k]]
  <2>1. k + 1 \in Nat /\ k + 1 # 0 /\ k + 1 - 1 = k
    OBVIOUS
  <2> QED
    BY <1>7, <2>1
<1> QED
  BY <1>7, <1>8, <1>9 DEF W

(***************************************************************************)
(* Going on from where one is after k steps.                               *)
(***************************************************************************)
LEMMA WalkOn ==
    ASSUME NEW S, NEW F, Within(F, S), NEW x \in S, NEW k \in Nat
    PROVE  /\ Walk(F, x)[k] \in S
           /\ \A n \in Nat : Walk(F, Walk(F, x)[k])[n] = Walk(F, x)[k + n]
<1>1. PICK V : V = Walk(F, x)
  OBVIOUS
<1>2. PICK y : y = V[k]
  OBVIOUS
<1>3. PICK W : W = Walk(F, y)
  OBVIOUS
<1>4. /\ V \in [Nat -> S]
      /\ \A n \in Nat : V[n + 1] = F[V[n]]
  BY <1>1, WalkFacts
<1>5. y \in S
  BY <1>2, <1>4
<1>6. /\ W \in [Nat -> S]
      /\ W[0] = y
      /\ \A n \in Nat : W[n + 1] = F[W[n]]
  <2>1. /\ Walk(F, y) \in [Nat -> S]
        /\ Walk(F, y)[0] = y
        /\ \A n \in Nat : Walk(F, y)[n + 1] = F[Walk(F, y)[n]]
    BY <1>5, WalkFacts
  <2> QED
    BY <1>3, <2>1
<1> DEFINE T == {n \in Nat : W[n] # V[k + n]}
<1>7. ASSUME T # {} PROVE FALSE
  <2>1. PICK n \in T : \A m \in T : n <= m
    BY <1>7, LeastNat
  <2>2. n # 0
    BY <1>2, <1>6, <2>1
  <2>3. PICK m \in Nat : n = m + 1 /\ m \notin T
    <3>1. n - 1 \in Nat /\ n = n - 1 + 1 /\ ~(n <= n - 1)
      BY <2>1, <2>2
    <3> QED
      BY <2>1, <3>1
  <2>4. W[m] = V[k + m]
    BY <2>3
  <2>5. W[n] = F[W[m]] /\ V[k + n] = F[V[k + m]]
    <3>1. k + m \in Nat /\ k + n = k + m + 1
      BY <2>3
    <3> QED
      BY <1>4, <1>6, <2>3, <3>1
  <2> QED
    BY <2>1, <2>4, <2>5
<1> QED
  BY <1>1, <1>2, <1>3, <1>5, <1>7
=============================================================================
