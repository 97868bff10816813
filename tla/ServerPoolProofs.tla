-------------------------- MODULE ServerPoolProofs --------------------------
(***************************************************************************)
(* Proofs about ServerPool, for any number of servers, of hashes and of    *)
(* points, any weights, and any limits and timeouts.  First what its       *)
(* operators compute: sums, the order of the points, the binary search,    *)
(* the continuum.  Then the invariant: what the plan of rebuilds and the   *)
(* statistics of ejections say of each other (Health), and that the        *)
(* continuum is the one of a set of servers that are not ejected           *)
(* (RingLive, RingBuilt).                                                  *)
(***************************************************************************)
EXTENDS ServerPool, FiniteSetTheorems, WellFoundedInduction, TLAPS

(* Induction over the numbers, by a set: what holds of 0 and of the        *)
(* successor of what it holds of holds of all.                             *)
LEMMA SetInduction ==
    ASSUME NEW G, 0 \in G, \A n \in Nat : n \in G => n + 1 \in G
    PROVE  \A n \in Nat : n \in G
<1> DEFINE T == {n \in Nat : n \notin G}
           R == OpToRel(LAMBDA x, y : x < y, Nat)
<1> SUFFICES ASSUME T # {} PROVE FALSE
    OBVIOUS
<1>1. IsWellFoundedOn(R, Nat)
    BY NatLessThanWellFounded DEF OpToRel
<1>2. PICK x \in T : \A y \in T : <<y, x>> \notin R
  <2>1. T \subseteq Nat /\ T # {}
      OBVIOUS
  <2> HIDE DEF T, R
  <2> QED BY <1>1, <2>1, WFMin
<1>3. x # 0 /\ x \in Nat /\ x \notin G
    OBVIOUS
<1>4. x - 1 \in Nat /\ x - 1 < x /\ (x - 1) + 1 = x
    BY <1>3
<1>5. x - 1 \in G
  <2> SUFFICES ASSUME x - 1 \notin G PROVE FALSE
      OBVIOUS
  <2>1. x - 1 \in T
      BY <1>4
  <2>2. <<x - 1, x>>[1] = x - 1 /\ <<x - 1, x>>[2] = x /\ <<x - 1, x>> \in Nat \X Nat
      BY <1>3, <1>4
  <2>3. <<x - 1, x>> \notin R
      BY <1>2, <2>1
  <2> QED BY <1>4, <2>2, <2>3 DEF OpToRel
<1> QED
    BY <1>3, <1>4, <1>5

(* The least of a set of numbers.                                          *)
LEMMA LeastIsThere ==
    ASSUME NEW S \in SUBSET Nat, S # {}
    PROVE  Min(S) \in S /\ \A y \in S : Min(S) <= y
<1> DEFINE R == OpToRel(LAMBDA x, y : x < y, Nat)
<1>1. IsWellFoundedOn(R, Nat)
    BY NatLessThanWellFounded DEF OpToRel
<1>2. PICK x \in S : \A y \in S : <<y, x>> \notin R
  <2> HIDE DEF R
  <2> QED BY <1>1, WFMin
<1>3. ASSUME NEW y \in S PROVE x <= y
  <2>1. x \in Nat /\ y \in Nat
      OBVIOUS
  <2>2. <<y, x>>[1] = y /\ <<y, x>>[2] = x /\ <<y, x>> \in Nat \X Nat
      BY <2>1
  <2>3. ~(y < x)
      BY <1>2, <2>2 DEF OpToRel
  <2> QED BY <2>1, <2>3
<1> QED
    BY <1>3 DEF Min

(* What holds of the empty set, and of a set when it holds of the set      *)
(* without the element a fold takes first, holds of every finite set.      *)
LEMMA PeelInduction ==
    ASSUME NEW L, IsFiniteSet(L), NEW G,
           {} \in G,
           \A s \in SUBSET L : s # {} /\ s \ {CHOOSE x \in s : TRUE} \in G => s \in G
    PROVE  \A s \in SUBSET L : s \in G
<1> DEFINE N == {n \in Nat : \A s \in SUBSET L : Cardinality(s) <= n => s \in G}
<1>0. \A s \in SUBSET L : IsFiniteSet(s) /\ Cardinality(s) \in Nat
    BY FS_Subset, FS_CardinalityType
<1>1. 0 \in N
  <2>1. ASSUME NEW s \in SUBSET L, Cardinality(s) <= 0 PROVE s \in G
    <3>1. Cardinality(s) = 0
        BY <1>0, <2>1
    <3> QED BY <3>1, <1>0, FS_EmptySet
  <2> QED BY <2>1
<1>2. ASSUME NEW n \in Nat, n \in N PROVE n + 1 \in N
  <2>1. ASSUME NEW s \in SUBSET L, Cardinality(s) <= n + 1, s # {} PROVE s \in G
    <3> DEFINE x == CHOOSE x \in s : TRUE
    <3>1. x \in s
        BY <2>1
    <3> HIDE DEF x
    <3>2. Cardinality(s \ {x}) = Cardinality(s) - 1 /\ s \ {x} \in SUBSET L
        BY <3>1, <1>0, FS_RemoveElement
    <3>3. Cardinality(s \ {x}) <= n
        BY <3>2, <2>1, <1>0
    <3>4. s \ {x} \in G
        BY <3>2, <3>3, <1>2
    <3> QED BY <3>4, <2>1 DEF x
  <2>2. \A s \in SUBSET L : Cardinality(s) <= n + 1 => s \in G
      BY <2>1
  <2> QED BY <2>2
<1>3. \A n \in Nat : n \in N
  <2> HIDE DEF N
  <2>1. \A n \in Nat : n \in N => n + 1 \in N
      BY <1>2
  <2> QED BY ONLY <1>1, <2>1, SetInduction
<1>4. ASSUME NEW s \in SUBSET L PROVE s \in G
    BY <1>0, <1>3
<1> QED
    BY <1>4

(* The function a sum over L of w is computed by: there is one.            *)
IsSum(h, L, w) ==
    h = [s \in SUBSET L |->
            IF s = {} THEN 0
            ELSE w[CHOOSE x \in s : TRUE] + h[s \ {CHOOSE x \in s : TRUE}]]

(* Sums over a finite set have such a function: each value needs that of a *)
(* smaller set only.                                                       *)
LEMMA SumExists ==
    ASSUME NEW L, IsFiniteSet(L), NEW w
    PROVE  \E h : IsSum(h, L, w)
<1> DEFINE e(s) == CHOOSE x \in s : TRUE
           F(h, s) == IF s = {} THEN 0 ELSE w[e(s)] + h[s \ {e(s)}]
           N == {n \in Nat : \E h : h = [s \in SUBSET L |-> h[s]]
                                  /\ \A s \in SUBSET L : Cardinality(s) <= n => h[s] = F(h, s)}
<1>0. \A s \in SUBSET L : IsFiniteSet(s) /\ Cardinality(s) \in Nat
    BY FS_Subset, FS_CardinalityType
<1>1. 0 \in N
  <2> DEFINE h == [s \in SUBSET L |-> 0]
  <2>1. ASSUME NEW s \in SUBSET L, Cardinality(s) <= 0 PROVE h[s] = F(h, s)
    <3>1. Cardinality(s) = 0
        BY <1>0, <2>1
    <3> QED BY <3>1, <1>0, FS_EmptySet
  <2>2. h = [s \in SUBSET L |-> h[s]]
      OBVIOUS
  <2> HIDE DEF h, F
  <2> QED BY <2>1, <2>2
<1>2. ASSUME NEW n \in Nat, n \in N PROVE n + 1 \in N
  <2>1. PICK h : /\ h = [s \in SUBSET L |-> h[s]]
                 /\ \A s \in SUBSET L : Cardinality(s) <= n => h[s] = F(h, s)
      BY <1>2
  <2> DEFINE g == [s \in SUBSET L |-> F(h, s)]
  <2>2. ASSUME NEW s \in SUBSET L, Cardinality(s) <= n + 1 PROVE g[s] = F(g, s)
    <3>1. CASE s = {}
        BY <3>1
    <3>2. CASE s # {}
      <4>1. e(s) \in s
          BY <3>2
      <4>2. Cardinality(s \ {e(s)}) = Cardinality(s) - 1 /\ s \ {e(s)} \in SUBSET L
        <5> HIDE DEF e
        <5> QED BY <4>1, <1>0, FS_RemoveElement
      <4>3. Cardinality(s \ {e(s)}) <= n
        <5> HIDE DEF e
        <5> QED BY <4>2, <2>2, <1>0
      <4>4. g[s \ {e(s)}] = h[s \ {e(s)}]
        <5> HIDE DEF e, F
        <5> QED BY <4>2, <4>3, <2>1
      <4>5. g[s] = F(h, s)
        <5> HIDE DEF e, F
        <5> QED OBVIOUS
      <4> HIDE DEF e, g
      <4> QED BY <4>4, <4>5
    <3> QED BY <3>1, <3>2
  <2>3. g = [s \in SUBSET L |-> g[s]]
      OBVIOUS
  <2>4. \A s \in SUBSET L : Cardinality(s) <= n + 1 => g[s] = F(g, s)
    <3> HIDE DEF g, F
    <3> QED BY <2>2
  <2>5. n + 1 \in Nat
      OBVIOUS
  <2> HIDE DEF g, F
  <2> QED BY ONLY <2>3, <2>4, <2>5
<1>3. \A n \in Nat : n \in N
  <2> HIDE DEF N
  <2>1. \A n \in Nat : n \in N => n + 1 \in N
      BY <1>2
  <2> QED BY ONLY <1>1, <2>1, SetInduction
<1>4. Cardinality(L) \in N
  <2> HIDE DEF N
  <2> QED BY <1>0, <1>3
<1>5. PICK h : /\ h = [s \in SUBSET L |-> h[s]]
               /\ \A s \in SUBSET L : Cardinality(s) <= Cardinality(L) => h[s] = F(h, s)
    BY <1>4
<1>6. \A s \in SUBSET L : h[s] = F(h, s)
    BY <1>5, FS_Subset
<1>7. h = [s \in SUBSET L |-> F(h, s)]
  <2> HIDE DEF F
  <2> QED BY <1>5, <1>6
<1>8. IsSum(h, L, w)
    BY ONLY <1>7 DEF IsSum
<1> QED
    BY ONLY <1>8

(* What the sums of weights are: they are the value at L of a function that *)
(* adds them.                                                              *)
LEMMA WeightsSum ==
    ASSUME NEW p, NEW L, IsFiniteSet(L)
    PROVE  \E h : IsSum(h, L, p.weight) /\ Weights(p, L) = h[L]
<1> DEFINE h == CHOOSE h : IsSum(h, L, p.weight)
<1>1. IsSum(h, L, p.weight)
    BY SumExists
<1>2. Weights(p, L) = h[L]
    BY DEF Weights, MapThenSumSet, MapThenFoldSet, IsSum
<1> QED
    BY <1>1, <1>2

(* Sums of weights: they are numbers, no smaller than a summand, no larger *)
(* than as many times the largest; of equal weights they are products.     *)
LEMMA SumFacts ==
    ASSUME NEW L, IsFiniteSet(L), NEW w, \A x \in L : w[x] \in Nat,
           NEW h, IsSum(h, L, w)
    PROVE  \A s \in SUBSET L :
              /\ h[s] \in Nat
              /\ \A x \in s : w[x] <= h[s]
              /\ s # {} => \E x \in s : h[s] <= Cardinality(s) * w[x]
              /\ \A c \in Nat : (\A x \in s : w[x] = c) => h[s] = Cardinality(s) * c
<1> DEFINE Ok(s) ==
              /\ h[s] \in Nat
              /\ \A x \in s : w[x] <= h[s]
              /\ s # {} => \E x \in s : h[s] <= Cardinality(s) * w[x]
              /\ \A c \in Nat : (\A x \in s : w[x] = c) => h[s] = Cardinality(s) * c
           G == {s \in SUBSET L : Ok(s)}
<1>0. \A s \in SUBSET L : IsFiniteSet(s) /\ Cardinality(s) \in Nat
    BY FS_Subset, FS_CardinalityType
<1>1. {} \in G
  <2>1. h[{}] = 0 /\ Cardinality({}) = 0
      BY FS_EmptySet DEF IsSum
  <2> QED BY <2>1
<1>2. ASSUME NEW s \in SUBSET L, s # {}, s \ {CHOOSE x \in s : TRUE} \in G
      PROVE  s \in G
  <2> DEFINE x == CHOOSE x \in s : TRUE
             r == s \ {x}
             n == Cardinality(r)
  <2>1. x \in s
      BY <1>2
  <2>2. h[s] = w[x] + h[r]
      BY <1>2 DEF IsSum
  <2>3. r \in SUBSET L /\ Ok(r)
      BY <1>2
  <2> HIDE DEF x
  <2>4. Cardinality(s) = n + 1 /\ n \in Nat
      BY <1>0, <2>1, <2>3, FS_RemoveElement
  <2>5. w[x] \in Nat /\ h[r] \in Nat
      BY <2>1, <2>3
  <2> DEFINE k == h[r]
             v == w[x]
  <2>6. h[s] \in Nat /\ \A y \in s : w[y] <= h[s]
    <3>1. h[s] = v + k /\ v \in Nat /\ k \in Nat
        BY <2>2, <2>5
    <3>2. \A y \in r : w[y] <= k /\ w[y] \in Nat
        BY <2>3
    <3>3. \A y \in s : y = x \/ y \in r
        OBVIOUS
    <3> HIDE DEF v, k, r
    <3>4. ASSUME NEW y \in s PROVE w[y] <= v + k
      <4>1. CASE y = x
          BY <4>1, <3>1 DEF v
      <4>2. CASE y \in r
          BY <4>2, <3>1, <3>2
      <4> QED BY <3>3, <4>1, <4>2
    <3> QED BY <3>1, <3>4
  <2>7. \E y \in s : h[s] <= Cardinality(s) * w[y]
    <3>1. CASE r = {}
      <4>1. n = 0 /\ h[r] = 0
          BY <3>1, FS_EmptySet DEF IsSum
      <4>2. h[s] = w[x] /\ Cardinality(s) = 1
          BY <4>1, <2>2, <2>4, <2>5
      <4>3. h[s] <= Cardinality(s) * w[x]
          BY <4>2, <2>5
      <4> QED BY <4>3, <2>1
    <3>2. CASE r # {}
      <4>1. PICK y \in r : h[r] <= n * w[y]
          BY <3>2, <2>3
      <4>2. w[y] \in Nat /\ y \in s
          BY <4>1, <2>3
      <4> DEFINE u == w[y]
      <4>3. k <= n * u /\ h[s] = v + k /\ u \in Nat /\ k \in Nat /\ v \in Nat
          BY <4>1, <4>2, <2>2, <2>5
      <4>4. CASE u <= v
        <5>1. n * u <= n * v
          <6> HIDE DEF u, v, n
          <6> QED BY <4>3, <4>4, <2>4
        <5>2. h[s] <= (n + 1) * v
          <6> HIDE DEF u, v, n, k
          <6>1. (n + 1) * v = n * v + v /\ n * v \in Nat /\ n * u \in Nat
              BY <4>3, <2>4
          <6> QED BY <5>1, <4>3, <6>1
        <5> QED BY <5>2, <2>1, <2>4
      <4>5. CASE v <= u
        <5>1. h[s] <= (n + 1) * u
          <6> HIDE DEF u, v, n, k
          <6>1. (n + 1) * u = n * u + u /\ n * u \in Nat
              BY <4>3, <2>4
          <6> QED BY <4>3, <4>5, <6>1
        <5> QED BY <5>1, <4>2, <2>4
      <4>6. u <= v \/ v <= u
        <5> HIDE DEF u, v
        <5> QED BY <4>3
      <4> QED BY <4>4, <4>5, <4>6
    <3> QED BY <3>1, <3>2
  <2>8. ASSUME NEW c \in Nat, \A y \in s : w[y] = c
        PROVE  h[s] = Cardinality(s) * c
    <3>1. h[r] = n * c /\ w[x] = c
        BY <2>1, <2>3, <2>8
    <3>2. h[s] = c + n * c
        BY <3>1, <2>2
    <3>3. (n + 1) * c = c + n * c
      <4> HIDE DEF n
      <4> QED BY <2>4
    <3> QED BY <3>2, <3>3, <2>4
  <2>9. Ok(s)
      BY <2>6, <2>7, <2>8
  <2> QED BY <2>9
<1>3. \A s \in SUBSET L : s \in G
  <2> HIDE DEF G
  <2>1. \A s \in SUBSET L : s # {} /\ s \ {CHOOSE x \in s : TRUE} \in G => s \in G
      BY <1>2
  <2> QED BY ONLY <1>1, <2>1, PeelInduction, IsFiniteSet(L)
<1>4. ASSUME NEW s \in SUBSET L PROVE Ok(s)
  <2>1. s \in G
      BY <1>3
  <2> QED BY <2>1
<1> QED
    BY <1>4

(* An element a sum goes over may be taken out of it, whichever comes      *)
(* first.                                                                  *)
LEMMA SumRemoves ==
    ASSUME NEW L, IsFiniteSet(L), NEW w, \A x \in L : w[x] \in Nat,
           NEW h, IsSum(h, L, w)
    PROVE  \A s \in SUBSET L : \A x \in s : h[s] = w[x] + h[s \ {x}]
<1> DEFINE Ok(s) == \A x \in s : h[s] = w[x] + h[s \ {x}]
           N == {n \in Nat : \A s \in SUBSET L : Cardinality(s) <= n => Ok(s)}
<1>0. \A s \in SUBSET L : IsFiniteSet(s) /\ Cardinality(s) \in Nat /\ h[s] \in Nat
    BY FS_Subset, FS_CardinalityType, SumFacts
<1>1. 0 \in N
  <2>1. ASSUME NEW s \in SUBSET L, Cardinality(s) <= 0 PROVE Ok(s)
    <3>1. Cardinality(s) = 0
        BY <1>0, <2>1
    <3>2. s = {}
        BY <3>1, <1>0, FS_EmptySet
    <3> QED BY <3>2
  <2> HIDE DEF Ok
  <2> QED BY <2>1
<1>2. ASSUME NEW n \in Nat, n \in N PROVE n + 1 \in N
  <2>1. ASSUME NEW s \in SUBSET L, Cardinality(s) <= n + 1, NEW x \in s
        PROVE  h[s] = w[x] + h[s \ {x}]
    <3> DEFINE y == CHOOSE y \in s : TRUE
    <3>1. y \in s /\ h[s] = w[y] + h[s \ {y}]
        BY <2>1 DEF IsSum
    <3> HIDE DEF y
    <3>2. CASE x = y
        BY <3>1, <3>2
    <3>3. CASE x # y
      <4> DEFINE a == s \ {y}
                 b == s \ {x}
                 c == s \ {x, y}
      <4>1. a \in SUBSET L /\ b \in SUBSET L /\ c \in SUBSET L /\ x \in a /\ y \in b
            /\ a \ {x} = c /\ b \ {y} = c
          BY <3>1, <3>3
      <4>2. Cardinality(a) <= n /\ Cardinality(b) <= n
        <5>1. Cardinality(a) = Cardinality(s) - 1 /\ Cardinality(b) = Cardinality(s) - 1
            BY <3>1, <1>0, FS_RemoveElement
        <5> HIDE DEF a, b
        <5> QED BY <5>1, <2>1, <1>0
      <4> HIDE DEF a, b, c
      <4>3. Ok(a) /\ Ok(b)
        <5> HIDE DEF Ok
        <5> QED BY <4>1, <4>2, <1>2
      <4>4. h[a] = w[x] + h[c] /\ h[b] = w[y] + h[c]
          BY <4>1, <4>3
      <4>5. w[x] \in Nat /\ w[y] \in Nat /\ h[c] \in Nat /\ h[s] = w[y] + h[a]
          BY <1>0, <3>1, <4>1 DEF a
      <4>6. h[s] = w[x] + h[b]
          BY ONLY <4>4, <4>5
      <4> QED BY <4>6 DEF b
    <3> QED BY <3>2, <3>3
  <2>2. \A s \in SUBSET L : Cardinality(s) <= n + 1 => Ok(s)
      BY <2>1
  <2> HIDE DEF Ok
  <2> QED BY <2>2
<1>3. \A n \in Nat : n \in N
  <2> HIDE DEF N
  <2>1. \A n \in Nat : n \in N => n + 1 \in N
      BY <1>2
  <2> QED BY ONLY <1>1, <2>1, SetInduction
<1>4. \A s \in SUBSET L : Ok(s)
  <2> HIDE DEF Ok
  <2> QED BY <1>0, <1>3
<1> QED
    BY <1>4

(* A sum over fewer is no larger.                                          *)
LEMMA SumGrows ==
    ASSUME NEW L, IsFiniteSet(L), NEW w, \A x \in L : w[x] \in Nat,
           NEW h, IsSum(h, L, w)
    PROVE  \A s \in SUBSET L : h[s] <= h[L]
<1> DEFINE G == {R \in SUBSET L : h[L \ R] <= h[L]}
<1>0. \A s \in SUBSET L : h[s] \in Nat
    BY SumFacts
<1>1. {} \in G
  <2>1. L \ {} = L /\ h[L] \in Nat
      BY <1>0
  <2> QED BY <2>1
<1>2. ASSUME NEW R \in SUBSET L, R # {}, R \ {CHOOSE x \in R : TRUE} \in G
      PROVE  R \in G
  <2> DEFINE x == CHOOSE x \in R : TRUE
  <2>1. x \in R /\ R \ {x} \in G
      BY <1>2
  <2> HIDE DEF x
  <2> DEFINE a == L \ (R \ {x})
             b == L \ R
  <2>2. a \in SUBSET L /\ b \in SUBSET L /\ x \in a /\ a \ {x} = b /\ x \in L
      BY <2>1
  <2>3. h[a] <= h[L]
      BY <2>1
  <2>4. h[a] \in Nat /\ h[b] \in Nat /\ h[L] \in Nat /\ w[x] \in Nat
      BY <1>0, <2>2
  <2>5. h[a] = w[x] + h[b]
    <3> HIDE DEF a, b
    <3> QED BY <2>2, SumRemoves
  <2>6. h[b] <= h[L]
    <3> HIDE DEF a, b
    <3> QED BY ONLY <2>3, <2>4, <2>5
  <2> QED BY <2>6
<1>3. \A R \in SUBSET L : R \in G
  <2> HIDE DEF G
  <2>1. \A R \in SUBSET L : R # {} /\ R \ {CHOOSE x \in R : TRUE} \in G => R \in G
      BY <1>2
  <2> QED BY ONLY <1>1, <2>1, PeelInduction, IsFiniteSet(L)
<1>4. ASSUME NEW s \in SUBSET L PROVE h[s] <= h[L]
  <2>1. L \ s \in SUBSET L /\ L \ (L \ s) = s
      OBVIOUS
  <2>2. L \ s \in G
    <3> HIDE DEF G
    <3> QED BY <1>3, <2>1
  <2> QED BY <2>1, <2>2
<1> QED
    BY <1>4

(* Sums over a set are sums over a larger one.                             *)
LEMMA SumsAgree ==
    ASSUME NEW M, NEW L \in SUBSET M, IsFiniteSet(L), NEW w,
           NEW h, IsSum(h, M, w), NEW g, IsSum(g, L, w)
    PROVE  \A s \in SUBSET L : g[s] = h[s]
<1> DEFINE G == {s \in SUBSET L : g[s] = h[s]}
<1>1. {} \in G
  <2>1. g[{}] = 0 /\ h[{}] = 0
      BY DEF IsSum
  <2> QED BY <2>1
<1>2. ASSUME NEW s \in SUBSET L, s # {}, s \ {CHOOSE x \in s : TRUE} \in G
      PROVE  s \in G
  <2> DEFINE x == CHOOSE x \in s : TRUE
  <2>1. s \in SUBSET M /\ g[s \ {x}] = h[s \ {x}]
      BY <1>2
  <2>2. g[s] = w[x] + g[s \ {x}]
      BY <1>2 DEF IsSum
  <2>3. h[s] = w[x] + h[s \ {x}]
      BY <1>2, <2>1 DEF IsSum
  <2> HIDE DEF x
  <2> QED BY <2>1, <2>2, <2>3
<1>3. \A s \in SUBSET L : s \in G
  <2> HIDE DEF G
  <2>1. \A s \in SUBSET L : s # {} /\ s \ {CHOOSE x \in s : TRUE} \in G => s \in G
      BY <1>2
  <2> QED BY ONLY <1>1, <2>1, PeelInduction, IsFiniteSet(L)
<1> QED
    BY <1>3

(* What the constants say of a pool.                                       *)
ShareIs(p, s, live) ==
    LET exact == p.weight[s] * POINTS_PER_SERVER * Cardinality(live)
    IN /\ Total(p, live) # 0
       /\ Share(p, s, live) \in 0..MaxPoints
       /\ Share(p, s, live) * Total(p, live) * PRECISION <= exact * (PRECISION + 1)
       /\ (Share(p, s, live) + POINTER_PER_HASH) * Total(p, live) * PRECISION
             > exact * (PRECISION - 1)
IsPool(p) ==
    /\ p.dist_type \in {"ketama", "modula", "random"}
    /\ p.weight \in [Server -> 1..(WORD - 1)]
    /\ p.value \in [Server \X (1..MaxPoints) -> Hash]
    /\ p.dist_type = "ketama" =>
          \A live \in (SUBSET Server) \ {{}} : \A s \in live : ShareIs(p, s, live)

(* The constants are pools.                                                *)
LEMMA SettingsArePools == \A i \in DOMAIN SETTINGS : IsPool(SETTINGS[i])
BY PoolAssumption, ShareAssumption DEF IsPool, ShareIs

(* Sets of servers are finite, and the whole of them has NServer.          *)
LEMMA ServersFinite ==
    /\ Cardinality(Server) = NServer
    /\ \A live \in SUBSET Server : /\ IsFiniteSet(live)
                                   /\ Cardinality(live) \in 0..NServer
                                   /\ live # {} => Cardinality(live) \in 1..NServer
<1>1. NServer \in Nat /\ NServer > 0
    BY PoolAssumption
<1>2. IsFiniteSet(Server) /\ Cardinality(Server) = NServer
    BY <1>1, FS_Interval DEF Server
<1>3. ASSUME NEW live \in SUBSET Server
      PROVE  /\ IsFiniteSet(live)
             /\ Cardinality(live) \in 0..NServer
             /\ live # {} => Cardinality(live) \in 1..NServer
  <2>1. IsFiniteSet(live) /\ Cardinality(live) <= NServer
      BY <1>2, FS_Subset
  <2>2. Cardinality(live) \in Nat /\ (Cardinality(live) = 0 <=> live = {})
      BY <2>1, FS_CardinalityType, FS_EmptySet
  <2> QED BY <1>1, <2>1, <2>2
<1> QED
    BY <1>2, <1>3

(* The weights of live servers: they are numbers, and their total is no    *)
(* more; it is all of them when the pool's do not wrap round.              *)
Fits(p) == Weights(p, Server) + CONTINUUM_ADDITION < WORD
LEMMA TotalFacts ==
    ASSUME NEW p, IsPool(p), NEW live \in SUBSET Server
    PROVE  /\ Weights(p, live) \in Nat /\ Total(p, live) \in 0..(WORD - 1)
           /\ Total(p, live) <= Weights(p, live)
           /\ live # {} => \E s \in live : Weights(p, live) <= Cardinality(live) * p.weight[s]
           /\ \E h : IsSum(h, live, p.weight) /\ Weights(p, live) = h[live]
           /\ Fits(p) => /\ Total(p, live) = Weights(p, live)
                         /\ Weights(p, live) <= Weights(p, Server)
                         /\ Weights(p, Server) \in Nat
<1> DEFINE w == p.weight
           t == Weights(p, live)
<1>1. WORD \in Nat /\ WORD > 0 /\ CONTINUUM_ADDITION \in Nat
    BY PoolAssumption
<1>2. IsFiniteSet(live) /\ IsFiniteSet(Server)
    BY ServersFinite
<1>3. \A s \in Server : w[s] \in Nat
    BY <1>1 DEF IsPool
<1>4. PICK g : IsSum(g, live, w) /\ t = g[live]
    BY <1>2, WeightsSum
<1>5. PICK h : IsSum(h, Server, w) /\ Weights(p, Server) = h[Server]
    BY <1>2, WeightsSum
<1> HIDE DEF w, t
<1>6. /\ t \in Nat
      /\ live # {} => \E s \in live : t <= Cardinality(live) * w[s]
  <2>1. live \in SUBSET live /\ \A s \in live : w[s] \in Nat
      BY <1>3
  <2> QED BY <1>2, <1>4, <2>1, SumFacts
<1>7. Weights(p, Server) \in Nat /\ t <= Weights(p, Server)
  <2>1. g[live] = h[live]
    <3>1. live \in SUBSET live
        OBVIOUS
    <3> QED BY <1>2, <1>4, <1>5, <3>1, SumsAgree
  <2>2. h[live] <= h[Server]
      BY <1>2, <1>3, <1>5, SumGrows
  <2>3. h[Server] \in Nat
    <3>1. Server \in SUBSET Server
        OBVIOUS
    <3> QED BY <1>2, <1>3, <1>5, <3>1, SumFacts
  <2> QED BY <1>4, <1>5, <2>1, <2>2, <2>3
<1>8. t % WORD \in 0..(WORD - 1) /\ t % WORD <= t /\ (t < WORD => t % WORD = t)
    BY <1>1, <1>6
<1>9. Total(p, live) = t % WORD
    BY DEF Total, t
<1>10. Fits(p) => t < WORD
    BY <1>1, <1>6, <1>7 DEF Fits
<1>11. \E e : IsSum(e, live, w) /\ t = e[live]
    BY <1>4
<1> QED
    BY <1>6, <1>7, <1>8, <1>9, <1>10, <1>11 DEF t, w

(* A server of a ketama ring gets about its part of the points, and one of *)
(* them at least gets some; in the other distributions every one does.     *)
LEMMA ShareFacts ==
    ASSUME NEW p, IsPool(p), NEW live \in SUBSET Server, live # {}
    PROVE  /\ \A s \in live :
                 /\ Share(p, s, live) \in Nat
                 /\ p.dist_type = "ketama" =>
                       /\ Share(p, s, live) <= MaxPoints
                       /\ Total(p, live) # 0
                       /\ (Total(p, live) * PRECISION) * Share(p, s, live)
                             <= ((POINTS_PER_SERVER * Cardinality(live)) * (PRECISION + 1))
                                   * p.weight[s]
           /\ \E s \in live : Share(p, s, live) >= 1
<1> DEFINE n == Cardinality(live)
           P == POINTS_PER_SERVER
           H == POINTER_PER_HASH
           Q == PRECISION
           T == Total(p, live)
<1>1. /\ P \in Nat /\ H \in Nat /\ H > 0 /\ 2 * H <= P /\ Q \in Nat /\ Q >= 2
      /\ MaxPoints \in Nat /\ WORD \in Nat
    BY PoolAssumption
<1>2. n \in Nat /\ n > 0
    BY ServersFinite
<1>3. \A s \in live : p.weight[s] \in Nat /\ p.weight[s] > 0
    BY <1>1 DEF IsPool
<1>4. T \in Nat /\ \E s \in live : T <= n * p.weight[s]
  <2>1. /\ Weights(p, live) \in Nat /\ T \in Nat /\ T <= Weights(p, live)
        /\ \E s \in live : Weights(p, live) <= n * p.weight[s]
      BY <1>1, TotalFacts
  <2>2. PICK s \in live : Weights(p, live) <= n * p.weight[s]
      BY <2>1
  <2>3. n * p.weight[s] \in Nat
      BY <1>2, <1>3
  <2>4. T <= n * p.weight[s]
    <3> HIDE DEF T, n
    <3> QED BY <2>1, <2>2, <2>3
  <2> QED BY <2>1, <2>4
<1> HIDE DEF n, P, H, Q, T
<1>7. CASE p.dist_type = "ketama"
  <2>1. ASSUME NEW s \in live
        PROVE  /\ Share(p, s, live) \in Nat /\ Share(p, s, live) <= MaxPoints /\ T # 0
               /\ (T * Q) * Share(p, s, live) <= ((P * n) * (Q + 1)) * p.weight[s]
               /\ T <= n * p.weight[s] => Share(p, s, live) >= 1
    <3> DEFINE v == p.weight[s]
               a == Share(p, s, live)
    <3>1. ShareIs(p, s, live)
      <4>1. \A L \in (SUBSET Server) \ {{}} : \A x \in L : ShareIs(p, x, L)
          BY <1>7 DEF IsPool
      <4>2. live \in (SUBSET Server) \ {{}}
          OBVIOUS
      <4> QED BY <4>1, <4>2
    <3>2. /\ T # 0 /\ a \in 0..MaxPoints
          /\ a * T * Q <= (v * P * n) * (Q + 1)
          /\ (a + H) * T * Q > (v * P * n) * (Q - 1)
        BY <3>1 DEF ShareIs, T, Q, P, n, H
    <3>3. v \in Nat /\ v > 0
        BY <1>3
    <3> HIDE DEF v, a
    <3>4. a \in Nat /\ a <= MaxPoints
        BY <3>2, <1>1
    <3>5. (T * Q) * a <= ((P * n) * (Q + 1)) * v
      <4>1. (T * Q) * a = a * T * Q
          BY <3>4, <1>1, <1>4
      <4>2. ((P * n) * (Q + 1)) * v = (v * P * n) * (Q + 1)
          BY <3>3, <1>1, <1>2
      <4> QED BY <3>2, <4>1, <4>2
    <3>6. ASSUME T <= n * v
          PROVE  a >= 1
      <4> SUFFICES ASSUME a = 0 PROVE FALSE
          BY <3>4
      <4> DEFINE y == n * v
                 R == Q - 1
      <4>1. y \in Nat /\ T <= y /\ R \in Nat /\ Q <= 2 * R
        <5>1. y \in Nat
            BY <3>3, <1>2
        <5> QED BY <5>1, <3>6, <1>1
      <4>2. (H * T) * Q > (P * y) * R
        <5>1. (a + H) * T * Q = (H * T) * Q
            BY <1>1
        <5>2. (v * P * n) = P * y
            BY <3>3, <1>1, <1>2
        <5> HIDE DEF y
        <5> QED BY <3>2, <5>1, <5>2
      <4> HIDE DEF y, R
      <4>3. H * T <= H * y /\ H * T \in Nat /\ H * y \in Nat
          BY <4>1, <1>1, <1>4
      <4>4. (H * T) * Q <= (H * y) * Q /\ (H * y) * Q <= (H * y) * (2 * R)
        <5> DEFINE b == H * T
                   c == H * y
        <5>1. b \in Nat /\ c \in Nat /\ b <= c
            BY <4>3
        <5> HIDE DEF b, c
        <5>2. b * Q <= c * Q /\ c * Q <= c * (2 * R)
            BY <5>1, <4>1, <1>1
        <5> QED BY <5>2 DEF b, c
      <4>5. (H * y) * (2 * R) = ((2 * H) * y) * R
          BY <4>1, <1>1
      <4>6. ((2 * H) * y) * R <= (P * y) * R
        <5>1. (2 * H) * y <= P * y /\ (2 * H) * y \in Nat /\ P * y \in Nat
            BY <4>1, <1>1
        <5> DEFINE b == (2 * H) * y
                   c == P * y
        <5> HIDE DEF b, c
        <5>2. b \in Nat /\ c \in Nat /\ b <= c
            BY <5>1 DEF b, c
        <5>3. b * R <= c * R
            BY <5>2, <4>1
        <5> QED BY <5>3 DEF b, c
      <4>7. /\ (H * T) * Q \in Nat /\ (H * y) * Q \in Nat /\ (H * y) * (2 * R) \in Nat
            /\ (P * y) * R \in Nat
          BY <4>1, <4>3, <1>1, <1>4
      <4> QED BY ONLY <4>2, <4>4, <4>5, <4>6, <4>7
    <3> QED BY <3>2, <3>4, <3>5, <3>6 DEF v, a
  <2>2. \E s \in live : Share(p, s, live) >= 1
      BY ONLY <2>1, <1>4
  <2> QED BY ONLY <2>1, <2>2 DEF T, P, n, Q
<1>8. CASE p.dist_type # "ketama"
  <2>1. ASSUME NEW s \in live
        PROVE  Share(p, s, live) \in Nat /\ Share(p, s, live) >= 1
    <3>1. CASE p.dist_type = "modula"
        BY <3>1, <1>3 DEF Share
    <3>2. CASE p.dist_type = "random"
        BY <3>2 DEF Share
    <3> QED BY <3>1, <3>2, <1>8 DEF IsPool
  <2>2. \E s \in live : TRUE
      OBVIOUS
  <2> QED BY <2>1, <2>2, <1>8
<1> QED
    BY <1>7, <1>8

(* The points of a pool whose live servers these are.                      *)
AllPoints(p, live) == UNION {Points(p, s, live) : s \in live}

(* What a point is: the server, which of its points, and the hash.         *)
LEMMA PointFacts ==
    ASSUME NEW p, IsPool(p), NEW live \in SUBSET Server, live # {}
    PROVE  \A q \in AllPoints(p, live) :
              /\ q.index \in live /\ q.i \in Nat \ {0} /\ q.value \in Hash
              /\ q.i <= Share(p, q.index, live)
              /\ q.value = IF p.dist_type = "ketama" THEN p.value[<<q.index, q.i>>] ELSE 0
              /\ q = [index |-> q.index, i |-> q.i, value |-> q.value]
<1>1. \A s \in live : /\ Share(p, s, live) \in Nat
                      /\ p.dist_type = "ketama" => Share(p, s, live) <= MaxPoints
    BY ShareFacts
<1>2. MaxPoints \in Nat /\ 0 \in Hash
    BY PoolAssumption DEF Hash
<1> SUFFICES ASSUME NEW q \in AllPoints(p, live)
             PROVE  /\ q.index \in live /\ q.i \in Nat \ {0} /\ q.value \in Hash
                    /\ q.i <= Share(p, q.index, live)
                    /\ q.value = IF p.dist_type = "ketama" THEN p.value[<<q.index, q.i>>] ELSE 0
                    /\ q = [index |-> q.index, i |-> q.i, value |-> q.value]
    OBVIOUS
<1>3. PICK s \in live : q \in Points(p, s, live)
    BY DEF AllPoints
<1>4. PICK i \in 1..Share(p, s, live) :
          q = [index |-> s, i |-> i,
               value |-> IF p.dist_type = "ketama" THEN p.value[<<s, i>>] ELSE 0]
    BY <1>3 DEF Points
<1>5. i \in Nat /\ i # 0 /\ i <= Share(p, s, live)
    BY <1>1, <1>4
<1>6. p.dist_type = "ketama" => p.value[<<s, i>>] \in Hash
  <2> SUFFICES ASSUME p.dist_type = "ketama" PROVE p.value[<<s, i>>] \in Hash
      OBVIOUS
  <2>1. i <= MaxPoints
      BY <1>1, <1>2, <1>5
  <2>2. i \in 1..MaxPoints /\ s \in Server
      BY <2>1, <1>2, <1>5
  <2> QED BY <2>2 DEF IsPool
<1> QED
    BY <1>2, <1>4, <1>5, <1>6

(* A server has as many points as its share says, and no more.             *)
LEMMA PointsCounted ==
    ASSUME NEW p, NEW live, NEW s, Share(p, s, live) \in Nat
    PROVE  /\ IsFiniteSet(Points(p, s, live))
           /\ Cardinality(Points(p, s, live)) <= Share(p, s, live)
<1> DEFINE n == Share(p, s, live)
           rec(i) == [index |-> s, i |-> i,
                      value |-> IF p.dist_type = "ketama" THEN p.value[<<s, i>>] ELSE 0]
           f == [i \in 1..n |-> rec(i)]
           S == Points(p, s, live)
<1>1. S = {rec(i) : i \in 1..n}
    BY DEF Points
<1>2. f \in Surjection(1..n, S)
  <2>1. f \in [1..n -> S]
    <3> HIDE DEF rec, n, S
    <3> QED BY <1>1
  <2>2. \A y \in S : \E i \in 1..n : f[i] = y
    <3> HIDE DEF rec, n, S
    <3> QED BY <1>1
  <2> HIDE DEF f, S, n
  <2> QED BY <2>1, <2>2 DEF Surjection
<1>3. IsFiniteSet(1..n) /\ Cardinality(1..n) = n
    BY FS_Interval
<1> HIDE DEF f, S, n
<1>4. IsFiniteSet(S) /\ Cardinality(S) <= n
    BY <1>2, <1>3, FS_Surjection
<1> QED
    BY <1>4 DEF S, n

(* Points of a pool are no more than their servers' shares, added.         *)
LEMMA PointsAdded ==
    ASSUME NEW p, NEW live, IsFiniteSet(live),
           \A s \in live : Share(p, s, live) \in Nat,
           NEW w, \A s \in live : w[s] \in Nat,
           NEW h, IsSum(h, live, w),
           NEW T \in Nat, NEW K \in Nat,
           \A s \in live : T * Share(p, s, live) <= K * w[s]
    PROVE  /\ IsFiniteSet(AllPoints(p, live))
           /\ Cardinality(AllPoints(p, live)) \in Nat
           /\ T * Cardinality(AllPoints(p, live)) <= K * h[live]
<1> DEFINE U(S) == UNION {Points(p, s, live) : s \in S}
           Ok(S) == /\ IsFiniteSet(U(S))
                    /\ T * Cardinality(U(S)) <= K * h[S]
           G == {S \in SUBSET live : Ok(S)}
<1>1. {} \in G
  <2>1. U({}) = {} /\ h[{}] = 0
      BY DEF IsSum
  <2>2. IsFiniteSet(U({})) /\ Cardinality(U({})) = 0
      BY <2>1, FS_EmptySet
  <2>3. Ok({})
    <3> HIDE DEF U
    <3> QED BY <2>1, <2>2
  <2> HIDE DEF Ok
  <2> QED BY <2>3
<1>2. ASSUME NEW S \in SUBSET live, S # {}, S \ {CHOOSE x \in S : TRUE} \in G
      PROVE  S \in G
  <2> DEFINE x == CHOOSE x \in S : TRUE
             r == S \ {x}
             A == U(r)
             B == Points(p, x, live)
  <2>1. x \in S /\ x \in live
      BY <1>2
  <2>2. h[S] = w[x] + h[r]
      BY <1>2 DEF IsSum
  <2>3. r \in SUBSET live /\ Ok(r)
      BY <1>2
  <2>4. h[r] \in Nat
    <3>1. r \in SUBSET live
        BY <2>3
    <3> HIDE DEF r
    <3> QED BY <3>1, SumFacts
  <2> HIDE DEF x
  <2>5. U(S) = A \cup B
      BY <2>1
  <2>6. /\ IsFiniteSet(A) /\ IsFiniteSet(B)
        /\ Cardinality(B) <= Share(p, x, live) /\ Share(p, x, live) \in Nat
    <3>1. Share(p, x, live) \in Nat
        BY <2>1
    <3>2. IsFiniteSet(B) /\ Cardinality(B) <= Share(p, x, live)
        BY <3>1, PointsCounted
    <3>3. IsFiniteSet(A)
        BY <2>3
    <3> QED BY <3>1, <3>2, <3>3
  <2> DEFINE a == Cardinality(A)
             b == Cardinality(B)
             k == Share(p, x, live)
             u == Cardinality(A \cup B)
             v == w[x]
             hr == h[r]
  <2>7. /\ a \in Nat /\ b \in Nat /\ u \in Nat /\ u <= a + b
        /\ IsFiniteSet(A \cup B)
    <3> HIDE DEF A, B
    <3>1. /\ IsFiniteSet(A \cup B) /\ IsFiniteSet(A \cap B)
          /\ u = a + b - Cardinality(A \cap B)
        BY <2>6, FS_Union, FS_Intersection
    <3>2. Cardinality(A \cap B) \in Nat /\ a \in Nat /\ b \in Nat /\ u \in Nat
        BY <2>6, <3>1, FS_CardinalityType
    <3> QED BY <3>1, <3>2
  <2>8. T * a <= K * hr /\ T * k <= K * v /\ k \in Nat /\ v \in Nat /\ hr \in Nat /\ b <= k
      BY <2>1, <2>3, <2>4, <2>6
  <2>9. T * u <= K * h[S]
    <3>1. h[S] = v + hr
        BY <2>2
    <3> HIDE DEF a, b, k, u, v, hr
    <3>2. T * u <= T * (a + b)
        BY <2>7
    <3>3. T * (a + b) = T * a + T * b /\ K * (v + hr) = K * v + K * hr
        BY <2>7, <2>8
    <3>4. T * b <= T * k
        BY <2>7, <2>8
    <3>5. /\ T * u \in Nat /\ T * a \in Nat /\ T * b \in Nat /\ T * k \in Nat
          /\ K * v \in Nat /\ K * hr \in Nat
        BY <2>7, <2>8
    <3> QED BY <2>8, <3>1, <3>2, <3>3, <3>4, <3>5
  <2>10. Ok(S)
      BY <2>5, <2>7, <2>9
  <2> HIDE DEF Ok
  <2> QED BY <2>10
<1>3. \A S \in SUBSET live : S \in G
  <2> HIDE DEF G
  <2>1. \A S \in SUBSET live : S # {} /\ S \ {CHOOSE x \in S : TRUE} \in G => S \in G
      BY <1>2
  <2> QED BY ONLY <1>1, <2>1, PeelInduction, IsFiniteSet(live)
<1>4. Ok(live)
  <2>1. live \in G
    <3> HIDE DEF G
    <3> QED BY <1>3
  <2> QED BY <2>1
<1> QED
    BY <1>4, FS_CardinalityType DEF AllPoints

(* Points are ordered totally by Before.                                   *)
LEMMA BeforeOrders ==
    ASSUME NEW p, IsPool(p), NEW live \in SUBSET Server, live # {}
    PROVE  /\ \A x, y \in AllPoints(p, live) : x = y \/ Before(x, y) \/ Before(y, x)
           /\ \A x, y, z \in AllPoints(p, live) : Before(x, y) /\ Before(y, z) => Before(x, z)
           /\ \A x \in AllPoints(p, live) : ~Before(x, x)
           /\ \A x, y \in AllPoints(p, live) : ~Before(y, x) => x.value <= y.value
<1> DEFINE S == AllPoints(p, live)
<1>1. \A q \in S : /\ q.index \in Int /\ q.i \in Int /\ q.value \in Int
                   /\ q = [index |-> q.index, i |-> q.i, value |-> q.value]
  <2>1. /\ \A k \in Server : k \in Int
        /\ \A k \in Hash : k \in Int
      BY PoolAssumption DEF Server, Hash
  <2>2. \A k \in live : k \in Int
      BY <2>1
  <2>3. \A q \in S : /\ q.index \in live /\ q.i \in Nat \ {0} /\ q.value \in Hash
                     /\ q = [index |-> q.index, i |-> q.i, value |-> q.value]
      BY PointFacts
  <2> HIDE DEF S
  <2> QED BY <2>1, <2>2, <2>3
<1> HIDE DEF S
<1>2. ASSUME NEW x \in S, NEW y \in S PROVE x = y \/ Before(x, y) \/ Before(y, x)
  <2>1. /\ x.index \in Int /\ x.i \in Int /\ x.value \in Int
        /\ y.index \in Int /\ y.i \in Int /\ y.value \in Int
      BY <1>1
  <2>2. x.index = y.index /\ x.i = y.i /\ x.value = y.value => x = y
      BY <1>1, Zenon
  <2> QED BY <2>1, <2>2 DEF Before
<1>3. ASSUME NEW x \in S, NEW y \in S, NEW z \in S, Before(x, y), Before(y, z)
      PROVE  Before(x, z)
    BY <1>1, <1>3 DEF Before
<1>4. ASSUME NEW x \in S PROVE ~Before(x, x)
    BY <1>1 DEF Before
<1>5. ASSUME NEW x \in S, NEW y \in S, ~Before(y, x) PROVE x.value <= y.value
    BY <1>1, <1>5 DEF Before
<1> QED
    BY <1>2, <1>3, <1>4, <1>5 DEF S

(* There are points, and so many as they can be counted.                   *)
LEMMA PointsExist ==
    ASSUME NEW p, IsPool(p), NEW live \in SUBSET Server, live # {}
    PROVE  /\ IsFiniteSet(AllPoints(p, live))
           /\ Cardinality(AllPoints(p, live)) \in Nat \ {0}
<1>1. /\ \A s \in live : Share(p, s, live) \in Nat
      /\ \E s \in live : Share(p, s, live) >= 1
    BY ShareFacts
<1>2. IsFiniteSet(live)
    BY ServersFinite
<1>3. IsFiniteSet(AllPoints(p, live))
  <2> DEFINE C == {Points(p, s, live) : s \in live}
  <2>1. \A P \in C : IsFiniteSet(P)
      BY <1>1, PointsCounted
  <2>2. IsFiniteSet(C)
    <3> DEFINE f == [s \in live |-> Points(p, s, live)]
    <3>1. f \in Surjection(live, C)
        BY DEF Surjection
    <3> HIDE DEF f, C
    <3> QED BY <1>2, <3>1, FS_Surjection
  <2> HIDE DEF C
  <2>3. IsFiniteSet(UNION C)
      BY <2>1, <2>2, FS_UNION
  <2> QED BY <2>3 DEF C, AllPoints
<1>4. AllPoints(p, live) # {}
  <2>1. PICK s \in live : Share(p, s, live) >= 1
      BY <1>1
  <2>2. 1 \in 1..Share(p, s, live)
      BY <1>1, <2>1
  <2>3. Points(p, s, live) # {}
      BY <2>2 DEF Points
  <2> QED BY <2>3 DEF AllPoints
<1> QED
    BY <1>3, <1>4, FS_CardinalityType, FS_EmptySet

(* The points before a point, how many they are, and the point that has so *)
(* many before it.                                                         *)
Lower(S, q) == {r \in S : Before(r, q)}
Rank(S, q) == Cardinality(Lower(S, q))
Nth(S, k) == CHOOSE q \in S : Rank(S, q) = k - 1

(* Every rank is taken by a point.                                         *)
LEMMA RanksTaken ==
    ASSUME NEW S, IsFiniteSet(S),
           \A x, y \in S : x = y \/ Before(x, y) \/ Before(y, x),
           \A x, y, z \in S : Before(x, y) /\ Before(y, z) => Before(x, z),
           \A x \in S : ~Before(x, x)
    PROVE  /\ \A q \in S : Rank(S, q) \in 0..(Cardinality(S) - 1)
           /\ \A x, y \in S : Before(x, y) => Rank(S, x) < Rank(S, y)
           /\ \A k \in 1..Cardinality(S) : Nth(S, k) \in S /\ Rank(S, Nth(S, k)) = k - 1
           /\ \A q \in S : \E k \in 1..Cardinality(S) : q = Nth(S, k)
<1> DEFINE n == Cardinality(S)
           f == [q \in S |-> Rank(S, q)]
<1>0. n \in Nat
    BY FS_CardinalityType
<1>1. ASSUME NEW q \in S
      PROVE  /\ Lower(S, q) \in SUBSET S /\ IsFiniteSet(Lower(S, q))
             /\ Rank(S, q) \in 0..(n - 1)
  <2>1. Lower(S, q) \in SUBSET S /\ Lower(S, q) # S
      BY DEF Lower
  <2>2. /\ IsFiniteSet(Lower(S, q)) /\ Rank(S, q) <= n /\ Rank(S, q) # n
      BY <2>1, FS_Subset DEF Rank
  <2>3. Rank(S, q) \in Nat
      BY <2>2, FS_CardinalityType DEF Rank
  <2> HIDE DEF n
  <2> QED BY <1>0, <2>1, <2>2, <2>3
<1>2. ASSUME NEW x \in S, NEW y \in S, Before(x, y)
      PROVE  Rank(S, x) < Rank(S, y)
  <2>1. Lower(S, x) \in SUBSET Lower(S, y)
      BY <1>2 DEF Lower
  <2>2. x \in Lower(S, y) /\ x \notin Lower(S, x)
      BY <1>2 DEF Lower
  <2>3. Rank(S, x) <= Rank(S, y) /\ Rank(S, x) # Rank(S, y)
      BY <1>1, <2>1, <2>2, FS_Subset DEF Rank
  <2>4. Rank(S, x) \in Int /\ Rank(S, y) \in Int
      BY <1>1
  <2> QED BY <2>3, <2>4
<1>3. f \in Injection(S, 0..(n - 1))
  <2>1. f \in [S -> 0..(n - 1)]
      BY <1>1
  <2>2. ASSUME NEW x \in S, NEW y \in S, f[x] = f[y] PROVE x = y
    <3>1. Rank(S, x) = Rank(S, y) /\ Rank(S, x) \in Int
        BY <1>1, <2>2
    <3>2. ~Before(x, y) /\ ~Before(y, x)
        BY <1>2, <3>1
    <3> QED BY <3>2
  <2>3. DOMAIN f = S
      OBVIOUS
  <2> HIDE DEF f, n
  <2>4. IsInjective(f)
      BY <2>2, <2>3 DEF IsInjective
  <2> QED BY <2>1, <2>4 DEF Injection
<1>4. IsFiniteSet(0..(n - 1)) /\ Cardinality(0..(n - 1)) = n
  <2> HIDE DEF n
  <2>1. 0 \in Int /\ n - 1 \in Int
      BY <1>0
  <2> QED BY <1>0, <2>1, FS_Interval
<1>5. f \in Surjection(S, 0..(n - 1))
  <2> DEFINE T == 0..(n - 1)
  <2>1. Cardinality(S) = Cardinality(T) /\ IsFiniteSet(T) /\ f \in Injection(S, T)
      BY <1>3, <1>4
  <2> HIDE DEF f, T, n
  <2>2. f \in Surjection(S, T)
      BY <2>1, FS_Injection
  <2> QED BY <2>2 DEF T
<1>6. ASSUME NEW k \in 1..n
      PROVE  Nth(S, k) \in S /\ Rank(S, Nth(S, k)) = k - 1
  <2>1. k - 1 \in 0..(n - 1)
    <3> HIDE DEF n
    <3> QED BY <1>0
  <2>2. \E q \in S : f[q] = k - 1
    <3> HIDE DEF f, n
    <3> QED BY <1>5, <2>1 DEF Surjection
  <2>3. \E q \in S : Rank(S, q) = k - 1
      BY <2>2
  <2> HIDE DEF f, n
  <2> QED BY <2>3 DEF Nth
<1>7. ASSUME NEW q \in S PROVE \E k \in 1..n : q = Nth(S, k)
  <2> DEFINE k == Rank(S, q) + 1
  <2>1. Rank(S, q) \in 0..(n - 1)
      BY <1>1
  <2>2. k \in 1..n /\ k - 1 = Rank(S, q)
    <3> HIDE DEF n
    <3> QED BY <1>0, <2>1
  <2> HIDE DEF k
  <2>3. Nth(S, k) \in S /\ Rank(S, Nth(S, k)) = Rank(S, q)
      BY <1>6, <2>2
  <2> DEFINE r == Nth(S, k)
  <2>4. r \in S /\ Rank(S, r) = Rank(S, q) /\ Rank(S, r) \in Int
    <3>1. Rank(S, r) \in 0..(n - 1)
        BY <1>1, <2>3
    <3> QED BY <2>3, <3>1
  <2> HIDE DEF r
  <2>5. ~Before(q, r) /\ ~Before(r, q)
      BY <1>2, <2>4
  <2>6. q = r
      BY <2>4, <2>5
  <2> QED BY <2>2, <2>6 DEF r
<1> QED
    BY <1>1, <1>2, <1>6, <1>7

(* The continuum of a set of live servers: their points, all of them, by   *)
(* value.                                                                  *)
LEMMA ContinuumFacts ==
    ASSUME NEW i \in DOMAIN SETTINGS, NEW live \in SUBSET Server, live # {}
    PROVE  LET S == AllPoints(SETTINGS[i], live)
               c == Continuum[i][live]
           IN  /\ c \in Seq(Point) /\ Len(c) = Cardinality(S)
               /\ Len(c) \in Nat \ {0} /\ DOMAIN c = 1..Len(c)
               /\ \A k \in 1..Len(c) :
                     /\ c[k] \in Point /\ c[k].index \in live
                     /\ \E q \in S : c[k].index = q.index /\ c[k].value = q.value
               /\ \A q \in S : \E k \in 1..Len(c) :
                     c[k].index = q.index /\ c[k].value = q.value
               /\ \A k, l \in 1..Len(c) : k <= l => c[k].value <= c[l].value
<1> DEFINE p == SETTINGS[i]
           S == AllPoints(p, live)
           n == Cardinality(S)
           c == [k \in 1..n |-> [index |-> Nth(S, k).index, value |-> Nth(S, k).value]]
<1>1. Continuum[i][live] = c
    BY DEF Continuum, AllPoints, Nth, Rank, Lower
<1>2. IsPool(p)
    BY SettingsArePools
<1>3. IsFiniteSet(S) /\ n \in Nat \ {0}
    BY <1>2, PointsExist
<1>4. /\ \A x, y \in S : x = y \/ Before(x, y) \/ Before(y, x)
      /\ \A x, y, z \in S : Before(x, y) /\ Before(y, z) => Before(x, z)
      /\ \A x \in S : ~Before(x, x)
      /\ \A x, y \in S : ~Before(y, x) => x.value <= y.value
  <2> HIDE DEF p
  <2> QED BY <1>2, BeforeOrders
<1>5. \A q \in S : q.index \in live /\ q.value \in Hash
    BY <1>2, PointFacts
<1> HIDE DEF S, p
<1>6. /\ \A x, y \in S : Before(x, y) => Rank(S, x) < Rank(S, y)
      /\ \A k \in 1..n : Nth(S, k) \in S /\ Rank(S, Nth(S, k)) = k - 1
      /\ \A q \in S : \E k \in 1..n : q = Nth(S, k)
    BY <1>3, <1>4, RanksTaken
<1>7. \A k \in 1..n : /\ c[k] \in Point /\ c[k].index \in live
                      /\ \E q \in S : c[k].index = q.index /\ c[k].value = q.value
  <2> HIDE DEF n
  <2> QED BY <1>5, <1>6 DEF Point
<1>8. c \in Seq(Point) /\ Len(c) = n /\ DOMAIN c = 1..n
  <2>1. c \in [1..n -> Point]
    <3> HIDE DEF n
    <3> QED BY <1>7
  <2> HIDE DEF n, c
  <2> QED BY <2>1, <1>3
<1>9. \A q \in S : \E k \in 1..n : c[k].index = q.index /\ c[k].value = q.value
  <2> HIDE DEF n
  <2> QED BY <1>6
<1>10. ASSUME NEW k \in 1..n, NEW l \in 1..n, k <= l
       PROVE  c[k].value <= c[l].value
  <2> HIDE DEF n
  <2>1. ~Before(Nth(S, l), Nth(S, k))
      BY <1>3, <1>6, <1>10
  <2>2. Nth(S, k).value <= Nth(S, l).value
      BY <1>4, <1>6, <2>1
  <2> QED BY <2>2
<1> HIDE DEF n, c
<1> QED
    BY <1>1, <1>3, <1>7, <1>8, <1>9, <1>10 DEF n, S, p

(* The function the binary search for k in c is the value of.              *)
Mid(l, r) == l + (r - l) \div 2
IsRight(f, c, k) ==
    f = [b \in (0..Len(c)) \X (0..Len(c)) |->
            IF b[1] >= b[2] THEN b[2]
            ELSE IF Below(c[Mid(b[1], b[2]) + 1].value, k) THEN f[<<Mid(b[1], b[2]) + 1, b[2]>>]
                                                          ELSE f[<<b[1], Mid(b[1], b[2])>>]]
Found(c, k) == (CHOOSE f : IsRight(f, c, k))[<<0, Len(c)>>]

(* The search of the model is that function's value, before a step and     *)
(* after.                                                                  *)
LEMMA SearchIsFound ==
    ASSUME NEW k
    PROVE  Search(k) = Found(continuum, k) /\ Search(k)' = Found(continuum', k)
BY DEF Search, Found, IsRight, Mid

(* The middle is inside.                                                   *)
LEMMA MidInside ==
    ASSUME NEW l \in Nat, NEW r \in Nat, l < r
    PROVE  Mid(l, r) \in Nat /\ l <= Mid(l, r) /\ Mid(l, r) < r
BY DEF Mid

(* There is such a function: each of its values needs those of shorter     *)
(* intervals only.                                                         *)
LEMMA RightExists ==
    ASSUME NEW c, NEW k, Len(c) \in Nat
    PROVE  \E f : IsRight(f, c, k)
<1> DEFINE n == Len(c)
           D == (0..n) \X (0..n)
           F(f, b) == IF b[1] >= b[2] THEN b[2]
                      ELSE IF Below(c[Mid(b[1], b[2]) + 1].value, k)
                           THEN f[<<Mid(b[1], b[2]) + 1, b[2]>>]
                           ELSE f[<<b[1], Mid(b[1], b[2])>>]
           Ok(f, d) == \A b \in D : b[2] - b[1] <= d => f[b] = F(f, b)
           N == {d \in Nat : \E f : f = [b \in D |-> f[b]] /\ Ok(f, d)}
<1>0. n \in Nat
    OBVIOUS
<1>1. 0 \in N
  <2> DEFINE f == [b \in D |-> b[2]]
  <2>1. ASSUME NEW b \in D, b[2] - b[1] <= 0 PROVE f[b] = F(f, b)
    <3>1. b[1] \in Int /\ b[2] \in Int
        BY <1>0
    <3>2. b[1] >= b[2]
        BY <2>1, <3>1
    <3> QED BY <3>2
  <2>2. f = [b \in D |-> f[b]]
      OBVIOUS
  <2>3. Ok(f, 0)
      BY <2>1
  <2> HIDE DEF f, Ok, D
  <2> QED BY <2>2, <2>3
<1>2. ASSUME NEW d \in Nat, d \in N PROVE d + 1 \in N
  <2>1. PICK f : f = [b \in D |-> f[b]] /\ Ok(f, d)
      BY <1>2
  <2> DEFINE g == [b \in D |-> F(f, b)]
  <2>2. ASSUME NEW b \in D, b[2] - b[1] <= d + 1 PROVE g[b] = F(g, b)
    <3> DEFINE l == b[1]
               r == b[2]
               m == Mid(l, r)
    <3>1. l \in 0..n /\ r \in 0..n
        OBVIOUS
    <3>2. CASE l >= r
        BY <3>2
    <3>3. CASE l < r
      <4>1. l \in Nat /\ r \in Nat
        <5> HIDE DEF n
        <5> QED BY <3>1, <1>0
      <4>2. m \in Nat /\ l <= m /\ m < r
        <5> HIDE DEF l, r
        <5> QED BY <4>1, <3>3, MidInside
      <4>3. /\ m + 1 \in 0..n /\ m \in 0..n
            /\ r - (m + 1) <= d /\ m - l <= d
            /\ ~(l >= r)
        <5> HIDE DEF n, m, l, r
        <5>1. r - l <= d + 1
            BY <2>2 DEF l, r
        <5> QED BY <3>1, <3>3, <1>0, <4>1, <4>2, <5>1
      <4> DEFINE x == <<m + 1, r>>
                 y == <<l, m>>
      <4>4. x \in D /\ y \in D /\ x[2] - x[1] <= d /\ y[2] - y[1] <= d
        <5> HIDE DEF n, m, l, r
        <5> QED BY <3>1, <4>3
      <4>5. g[x] = F(f, x) /\ g[y] = F(f, y) /\ g[b] = F(f, b)
        <5> HIDE DEF F, x, y, D
        <5> QED BY <4>4
      <4>6. f[x] = F(f, x) /\ f[y] = F(f, y)
        <5> HIDE DEF F, x, y, D
        <5> QED BY <4>4, <2>1
      <4>7. g[x] = f[x] /\ g[y] = f[y]
        <5> HIDE DEF F, x, y, D, g
        <5> QED BY <4>5, <4>6
      <4>8. F(f, b) = IF Below(c[m + 1].value, k) THEN f[x] ELSE f[y]
          BY <4>3
      <4>9. F(g, b) = IF Below(c[m + 1].value, k) THEN g[x] ELSE g[y]
        <5> HIDE DEF g
        <5> QED BY <4>3
      <4> HIDE DEF F, g, x, y
      <4> QED BY <4>5, <4>7, <4>8, <4>9
    <3>4. l < r \/ l >= r
      <4> HIDE DEF n, l, r
      <4> QED BY <3>1, <1>0
    <3> QED BY <3>2, <3>3, <3>4
  <2>3. Ok(g, d + 1)
    <3> HIDE DEF g, F, D
    <3> QED BY <2>2
  <2>4. g = [b \in D |-> g[b]]
      OBVIOUS
  <2>5. d + 1 \in Nat
      OBVIOUS
  <2> HIDE DEF g, Ok, D
  <2> QED BY ONLY <2>3, <2>4, <2>5
<1>3. \A d \in Nat : d \in N
  <2> HIDE DEF N
  <2>1. \A d \in Nat : d \in N => d + 1 \in N
      BY <1>2
  <2> QED BY ONLY <1>1, <2>1, SetInduction
<1>4. n \in N
  <2> HIDE DEF N
  <2> QED BY <1>0, <1>3
<1>5. PICK f : f = [b \in D |-> f[b]] /\ Ok(f, n)
  <2> HIDE DEF D, Ok
  <2> QED BY <1>4
<1>6. ASSUME NEW b \in D PROVE f[b] = F(f, b)
  <2>1. b[2] - b[1] <= n
      BY <1>0
  <2> QED BY <1>5, <2>1
<1>7. f = [b \in D |-> F(f, b)]
  <2> HIDE DEF F, D
  <2> QED BY <1>5, <1>6
<1>8. IsRight(f, c, k)
    BY ONLY <1>7 DEF IsRight
<1> QED
    BY ONLY <1>8

(* The search in a sorted continuum ends left of which every value is      *)
(* below k, and right of which none is.                                    *)
LEMMA SearchFinds ==
    ASSUME NEW c, NEW k, Len(c) \in Nat, k \in Int,
           \A x \in 1..Len(c) : c[x].value \in Int,
           \A x, y \in 1..Len(c) : x <= y => c[x].value <= c[y].value
    PROVE  /\ Found(c, k) \in 0..Len(c)
           /\ \A x \in 1..Len(c) : x <= Found(c, k) <=> c[x].value < k
<1> DEFINE n == Len(c)
           D == (0..n) \X (0..n)
           f == CHOOSE f : IsRight(f, c, k)
           Ok(b) == /\ f[b] \in b[1]..b[2]
                    /\ \A x \in 1..n : b[1] < x /\ x <= f[b] => c[x].value < k
                    /\ \A x \in 1..n : f[b] < x /\ x <= b[2] => c[x].value >= k
           N == {d \in Nat : \A b \in D : b[1] <= b[2] /\ b[2] - b[1] <= d => Ok(b)}
<1>0. n \in Nat /\ IsRight(f, c, k)
    BY RightExists
<1> HIDE DEF f
<1>1. \A b \in D : f[b] = IF b[1] >= b[2] THEN b[2]
                          ELSE IF Below(c[Mid(b[1], b[2]) + 1].value, k)
                               THEN f[<<Mid(b[1], b[2]) + 1, b[2]>>]
                               ELSE f[<<b[1], Mid(b[1], b[2])>>]
    BY <1>0 DEF IsRight
<1>2. 0 \in N
  <2>1. ASSUME NEW b \in D, b[1] <= b[2], b[2] - b[1] <= 0 PROVE Ok(b)
    <3>1. b[1] \in Nat /\ b[2] \in Nat /\ b[1] = b[2]
        BY <1>0, <2>1
    <3>3. b[1] >= b[2] /\ b \in D
        BY <3>1
    <3>2. f[b] = b[2]
      <4> HIDE DEF D, n
      <4> QED BY <1>1, <3>3
    <3> QED BY <3>1, <3>2
  <2> HIDE DEF Ok
  <2>2. \A b \in D : b[1] <= b[2] /\ b[2] - b[1] <= 0 => Ok(b)
      BY <2>1
  <2> QED BY <2>2
<1>3. ASSUME NEW d \in Nat, d \in N PROVE d + 1 \in N
  <2>1. ASSUME NEW b \in D, b[1] <= b[2], b[2] - b[1] <= d + 1 PROVE Ok(b)
    <3> DEFINE l == b[1]
               r == b[2]
               m == Mid(l, r)
    <3>1. l \in Nat /\ r \in Nat /\ l <= n /\ r <= n /\ l <= r
        BY <1>0, <2>1
    <3>2. CASE l = r
      <4>1. f[b] = r
          BY <1>1, <3>1, <3>2
      <4> QED BY <3>1, <3>2, <4>1
    <3>3. CASE l < r
      <4>2. m \in Nat /\ l <= m /\ m < r
        <5> HIDE DEF l, r
        <5> QED BY <3>1, <3>3, MidInside
      <4> DEFINE x == <<m + 1, r>>
                 y == <<l, m>>
      <4>3. f[b] = IF Below(c[m + 1].value, k) THEN f[x] ELSE f[y]
        <5>1. ~(l >= r)
            BY <3>1, <3>3
        <5> QED BY <5>1, <1>1
      <4> HIDE DEF m
      <4>4. /\ x \in D /\ y \in D
            /\ x[1] = m + 1 /\ x[2] = r /\ y[1] = l /\ y[2] = m
            /\ m + 1 \in 1..n
        <5> HIDE DEF l, r
        <5>1. m + 1 \in 0..n /\ r \in 0..n /\ l \in 0..n /\ m \in 0..n
            BY <3>1, <3>3, <4>2, <1>0
        <5> HIDE DEF n
        <5> QED BY <5>1, <4>2
      <4>5. r - (m + 1) <= d /\ m - l <= d /\ m + 1 <= r /\ l <= m
        <5>1. r - l <= d + 1
            BY <2>1
        <5> HIDE DEF l, r
        <5> QED BY <3>1, <3>3, <4>2, <5>1
      <4>6. Ok(x) /\ Ok(y)
        <5>1. \A z \in D : z[1] <= z[2] /\ z[2] - z[1] <= d => Ok(z)
            BY <1>3
        <5> HIDE DEF Ok, D, x, y, l, r
        <5> QED BY <5>1, <4>4, <4>5
      <4>7. CASE Below(c[m + 1].value, k)
        <5>1. f[b] = f[x] /\ c[m + 1].value < k
            BY <4>3, <4>7 DEF Below
        <5>2. /\ f[x] \in (m + 1)..r
              /\ \A z \in 1..n : m + 1 < z /\ z <= f[x] => c[z].value < k
              /\ \A z \in 1..n : f[x] < z /\ z <= r => c[z].value >= k
          <6> HIDE DEF x, r
          <6> QED BY <4>4, <4>6
        <5>3. \A z \in 1..n : z <= m + 1 => c[z].value < k
            BY <5>1, <4>4
        <5> DEFINE v == f[x]
        <5>4. /\ v \in l..r
              /\ \A z \in 1..n : l < z /\ z <= v => c[z].value < k
          <6> HIDE DEF l, r, v, x, n
          <6>1. v \in (m + 1)..r
              BY <5>2 DEF v
          <6>2. v \in l..r
              BY <6>1, <3>1, <4>2
          <6>3. \A z \in 1..n : z <= m + 1 \/ m + 1 < z
              BY <4>2, <1>0
          <6> QED BY <6>2, <6>3, <5>2, <5>3 DEF v
        <5> HIDE DEF x
        <5> QED BY <5>1, <5>2, <5>4
      <4>8. CASE ~Below(c[m + 1].value, k)
        <5>1. f[b] = f[y] /\ c[m + 1].value >= k
            BY <4>3, <4>8, <4>4 DEF Below
        <5>2. /\ f[y] \in l..m
              /\ \A z \in 1..n : l < z /\ z <= f[y] => c[z].value < k
              /\ \A z \in 1..n : f[y] < z /\ z <= m => c[z].value >= k
          <6> HIDE DEF y, l
          <6> QED BY <4>4, <4>6
        <5>3. \A z \in 1..n : m < z => c[z].value >= k
          <6>1. \A z \in 1..n : m < z => m + 1 <= z
              BY <4>2, <1>0
          <6> QED BY <5>1, <4>4, <6>1
        <5> DEFINE v == f[y]
        <5>4. /\ v \in l..r
              /\ \A z \in 1..n : v < z /\ z <= r => c[z].value >= k
          <6> HIDE DEF l, r, v, y, n
          <6>1. v \in l..m
              BY <5>2 DEF v
          <6>2. v \in l..r
              BY <6>1, <3>1, <4>2
          <6>3. \A z \in 1..n : m < z \/ z <= m
              BY <4>2, <1>0
          <6> QED BY <6>2, <6>3, <5>2, <5>3 DEF v
        <5> HIDE DEF y
        <5> QED BY <5>1, <5>2, <5>4
      <4> QED BY <4>7, <4>8
    <3> QED BY <3>1, <3>2, <3>3
  <2>2. \A b \in D : b[1] <= b[2] /\ b[2] - b[1] <= d + 1 => Ok(b)
    <3> HIDE DEF Ok, D
    <3> QED BY <2>1
  <2>3. d + 1 \in Nat
      OBVIOUS
  <2> HIDE DEF Ok, D
  <2> QED BY ONLY <2>2, <2>3
<1>4. \A d \in Nat : d \in N
  <2> HIDE DEF N
  <2>1. \A d \in Nat : d \in N => d + 1 \in N
      BY <1>3
  <2> QED BY ONLY <1>2, <2>1, SetInduction
<1>5. Ok(<<0, n>>)
  <2> DEFINE z == <<0, n>>
  <2>1. z \in D /\ z[1] = 0 /\ z[2] = n /\ z[1] <= z[2] /\ z[2] - z[1] <= n
      BY <1>0
  <2>2. n \in N
    <3> HIDE DEF N
    <3> QED BY <1>0, <1>4
  <2> HIDE DEF z, Ok, D
  <2>3. Ok(z)
      BY <2>1, <2>2
  <2> QED BY <2>3 DEF z
<1>6. Found(c, k) = f[<<0, n>>]
    BY DEF Found, f
<1> DEFINE v == Found(c, k)
<1>7. /\ v \in 0..n
      /\ \A x \in 1..n : 0 < x /\ x <= v => c[x].value < k
      /\ \A x \in 1..n : v < x /\ x <= n => c[x].value >= k
    BY <1>5, <1>6
<1>8. ASSUME NEW x \in 1..n PROVE x <= v <=> c[x].value < k
  <2> HIDE DEF v
  <2>1. x \in Nat /\ 0 < x /\ x <= n /\ v \in Nat
      BY <1>0, <1>7
  <2>2. c[x].value \in Int
      OBVIOUS
  <2>3. x <= v => c[x].value < k
      BY <1>7, <2>1
  <2>4. ~(x <= v) => ~(c[x].value < k)
    <3> SUFFICES ASSUME ~(x <= v) PROVE ~(c[x].value < k)
        OBVIOUS
    <3>1. v < x
        BY <2>1
    <3>2. c[x].value >= k
        BY <3>1, <1>7, <2>1
    <3> QED BY <3>2, <2>2
  <2> QED BY <2>3, <2>4
<1> QED
    BY <1>7, <1>8

(* The place in c that ketama_dispatch takes the server from.              *)
Place(c, k) == IF Found(c, k) = Len(c) THEN 1 ELSE Found(c, k) + 1

(* Its point follows k on the ring, or is the first when none does.        *)
LEMMA PlaceFollows ==
    ASSUME NEW i \in DOMAIN SETTINGS, NEW live \in SUBSET Server, live # {},
           NEW c, c = Continuum[i][live], NEW k \in Hash
    PROVE  /\ Place(c, k) \in 1..Len(c)
           /\ \/ /\ c[Place(c, k)].value >= k
                 /\ \A y \in 1..Len(c) : c[y].value >= k => c[Place(c, k)].value <= c[y].value
              \/ /\ \A y \in 1..Len(c) : c[y].value < k
                 /\ \A y \in 1..Len(c) : c[Place(c, k)].value <= c[y].value
<1> DEFINE n == Len(c)
           r == Found(c, k)
           v(y) == c[y].value
<1>1. /\ n \in Nat \ {0} /\ \A x \in 1..n : c[x] \in Point
      /\ \A x, y \in 1..n : x <= y => v(x) <= v(y)
    BY ContinuumFacts
<1>2. k \in Int /\ \A x \in 1..n : v(x) \in Int
  <2>1. \A h \in Hash : h \in Int
      BY PoolAssumption DEF Hash
  <2>2. \A x \in 1..n : v(x) \in Hash
      BY <1>1 DEF Point
  <2> HIDE DEF n, v
  <2> QED BY <2>1, <2>2
<1>3. r \in 0..n /\ \A x \in 1..n : x <= r <=> v(x) < k
    BY <1>1, <1>2, SearchFinds
<1> DEFINE x == Place(c, k)
<1>4. x = IF r = n THEN 1 ELSE r + 1
    BY DEF Place
<1> HIDE DEF n, r, v, x
<1>5. CASE r = n
  <2>1. x = 1 /\ x \in 1..n
      BY <1>1, <1>4, <1>5
  <2>2. \A y \in 1..n : v(y) < k
      BY <1>1, <1>3, <1>5
  <2>3. \A y \in 1..n : v(x) <= v(y)
      BY <1>1, <2>1
  <2> QED BY <2>1, <2>2, <2>3 DEF v, n, x
<1>6. CASE r # n
  <2>1. x = r + 1 /\ x \in 1..n /\ r \in Nat
      BY <1>1, <1>3, <1>4, <1>6
  <2>2. v(x) >= k
    <3>1. ~(x <= r)
        BY <2>1
    <3>2. ~(v(x) < k)
        BY <3>1, <2>1, <1>3
    <3> QED BY <3>2, <2>1, <1>2
  <2>3. ASSUME NEW y \in 1..n, v(y) >= k PROVE v(x) <= v(y)
    <3>1. ~(v(y) < k)
        BY <2>3, <1>2
    <3>2. ~(y <= r)
        BY <3>1, <1>3
    <3>3. x <= y
        BY <3>2, <2>1, <1>1
    <3> QED BY <3>3, <2>1, <1>1
  <2> QED BY <2>1, <2>2, <2>3 DEF v, n, x
<1> QED
    BY <1>5, <1>6

(* The servers a continuum has points of.                                  *)
Indices(c) == {c[x].index : x \in DOMAIN c}

(* A key goes to a server on the continuum that its pool looks it up in.   *)
LEMMA IdxOnContinuum ==
    ASSUME NEW k \in Hash
    PROVE  /\ \A live \in SUBSET Server :
                 pool \in DOMAIN SETTINGS /\ live # {} /\ continuum = Continuum[pool][live]
                 => server_pool_idx(k) \subseteq Indices(continuum)
           /\ \A live \in SUBSET Server :
                 pool' \in DOMAIN SETTINGS /\ live # {} /\ continuum' = Continuum[pool'][live]
                 => server_pool_idx(k)' \subseteq Indices(continuum')
<1> DEFINE Idx(i, c) ==
              CASE NServer = 1 -> {1}
                [] NServer # 1 /\ SETTINGS[i].dist_type = "ketama" -> {c[Place(c, k)].index}
                [] NServer # 1 /\ SETTINGS[i].dist_type = "modula" -> {c[(k % Len(c)) + 1].index}
                [] NServer # 1 /\ SETTINGS[i].dist_type = "random" -> Indices(c)
<1>1. ASSUME NEW i \in DOMAIN SETTINGS, NEW live \in SUBSET Server, live # {},
             NEW c, c = Continuum[i][live]
      PROVE  Idx(i, c) \subseteq Indices(c)
  <2>1. /\ Len(c) \in Nat \ {0} /\ DOMAIN c = 1..Len(c)
        /\ \A x \in 1..Len(c) : c[x].index \in live
      BY <1>1, ContinuumFacts
  <2>2. \A x \in 1..Len(c) : c[x].index \in Indices(c)
      BY <2>1 DEF Indices
  <2>3. CASE NServer = 1
    <3>1. \A s \in live : s = 1
        BY <2>3 DEF Server
    <3>2. 1 \in 1..Len(c)
        BY <2>1
    <3>3. c[1].index = 1 /\ c[1].index \in Indices(c)
        BY <2>1, <2>2, <3>1, <3>2
    <3> QED BY <2>3, <3>3
  <2>4. CASE NServer # 1
    <3>1. SETTINGS[i].dist_type \in {"ketama", "modula", "random"}
        BY SettingsArePools DEF IsPool
    <3>2. c[Place(c, k)].index \in Indices(c)
        BY <1>1, <2>2, PlaceFollows
    <3>3. c[(k % Len(c)) + 1].index \in Indices(c)
      <4>1. k \in Nat
          BY PoolAssumption DEF Hash
      <4> DEFINE n == Len(c)
      <4>2. k % n \in 0..(n - 1)
        <5> HIDE DEF n
        <5> QED BY <4>1, <2>1 DEF n
      <4>3. (k % n) + 1 \in 1..n
        <5> HIDE DEF n
        <5> QED BY <4>2, <2>1 DEF n
      <4> QED BY <4>3, <2>2
    <3> QED BY <2>4, <3>1, <3>2, <3>3
  <2> QED BY <2>3, <2>4
<1>2. server_pool_idx(k) = Idx(pool, continuum)
    BY SearchIsFound DEF server_pool_idx, ketama_dispatch, modula_dispatch, random_dispatch,
       Place, Indices
<1>3. server_pool_idx(k)' = Idx(pool', continuum')
    BY SearchIsFound DEF server_pool_idx, ketama_dispatch, modula_dispatch, random_dispatch,
       Place, Indices
<1> HIDE DEF Idx
<1> QED
    BY <1>1, <1>2, <1>3

(* The points of a continuum fit the room there is for its pool, when the   *)
(* weights do not wrap round.                                              *)
LEMMA NeededFits ==
    ASSUME NEW i \in DOMAIN SETTINGS, NEW live \in SUBSET Server, live # {},
           Fits(SETTINGS[i])
    PROVE  LET p == SETTINGS[i]
               n == Len(Continuum[i][live])
           IN  /\ p.dist_type = "ketama" => n <= (NServer + CONTINUUM_ADDITION) * POINTS_PER_SERVER
               /\ p.dist_type = "modula" => n <= Weights(p, Server)
               /\ p.dist_type = "random" => n <= NServer
<1> DEFINE p == SETTINGS[i]
           w == p.weight
           m == Cardinality(live)
           T == Weights(p, live)
           P == POINTS_PER_SERVER
           Q == PRECISION
           A == CONTINUUM_ADDITION
           n == Cardinality(AllPoints(p, live))
<1>1. IsPool(p)
    BY SettingsArePools
<1>2. n = Len(Continuum[i][live])
    BY ContinuumFacts
<1>a. Fits(p)
    OBVIOUS
<1> HIDE DEF p
<1>3. /\ IsFiniteSet(live) /\ m \in Nat /\ m <= NServer /\ P \in Nat /\ Q \in Nat /\ Q > 0
      /\ A \in Nat /\ NServer \in Nat /\ NServer <= A * Q
    BY ServersFinite, PoolAssumption
<1>4. \A s \in live : /\ Share(p, s, live) \in Nat
                      /\ p.dist_type = "ketama" =>
                            /\ Total(p, live) # 0
                            /\ (Total(p, live) * Q) * Share(p, s, live)
                                  <= ((P * m) * (Q + 1)) * w[s]
    BY <1>1, ShareFacts
<1>5. /\ T \in Nat /\ Total(p, live) = T /\ T <= Weights(p, Server)
      /\ Weights(p, Server) \in Nat
    BY <1>1, <1>a, TotalFacts
<1>h. PICK h : IsSum(h, live, w) /\ T = h[live]
    BY <1>1, TotalFacts
<1>6. \A s \in live : w[s] \in Nat
    BY <1>1, PoolAssumption DEF IsPool
<1>7. n \in Nat
    BY <1>1, PointsExist
<1> HIDE DEF w
<1>8. ASSUME p.dist_type = "ketama" PROVE n <= (NServer + A) * P
  <2> DEFINE U == T * Q
             K == (P * m) * (Q + 1)
  <2>1. U \in Nat /\ K \in Nat /\ T # 0
    <3>1. \E s \in live : TRUE
        OBVIOUS
    <3>2. T # 0
        BY <1>4, <1>5, <1>8, <3>1
    <3> HIDE DEF T, m, P, Q
    <3> QED BY <3>2, <1>3, <1>5
  <2>2. \A s \in live : U * Share(p, s, live) <= K * w[s]
      BY <1>4, <1>5, <1>8
  <2> HIDE DEF U, K, T
  <2>3. U * n <= K * T
      BY <1>3, <1>4, <1>h, <1>6, <2>1, <2>2, PointsAdded
  <2> HIDE DEF n, m, P, Q, A
  <2>4. T * (Q * n) <= T * K
    <3>1. U * n = T * (Q * n) /\ K * T = T * K
        BY <1>3, <1>5, <1>7, <2>1 DEF U
    <3> QED BY <2>3, <3>1
  <2>5. Q * n <= K
    <3> DEFINE y == Q * n
    <3>1. y \in Nat /\ T * y <= T * K
        BY <2>4, <1>3, <1>7
    <3> HIDE DEF y
    <3>2. y <= K
        BY <3>1, <2>1, <1>5
    <3> QED BY <3>2 DEF y
  <2>6. K <= Q * ((NServer + A) * P)
    <3>1. P * m <= P * NServer /\ P * m \in Nat /\ P * NServer \in Nat
        BY <1>3
    <3>2. K = (P * m) * Q + P * m
        BY <1>3 DEF K
    <3>3. P * m <= (P * A) * Q
      <4>1. P * NServer <= P * (A * Q) /\ P * (A * Q) = (P * A) * Q
        <5>1. A * Q \in Nat
            BY <1>3
        <5> DEFINE c == A * Q
        <5> HIDE DEF c
        <5>2. c \in Nat /\ NServer <= c
            BY <5>1, <1>3 DEF c
        <5>3. P * NServer <= P * c
            BY <5>2, <1>3
        <5>4. P * (A * Q) = (P * A) * Q
            BY <1>3
        <5> QED BY <5>3, <5>4 DEF c
      <4>2. (P * A) * Q \in Nat
          BY <1>3
      <4> QED BY <4>1, <4>2, <3>1
    <3>4. (P * m) * Q <= (P * NServer) * Q
      <4> DEFINE b == P * m
                 c == P * NServer
      <4> HIDE DEF b, c
      <4>1. b \in Nat /\ c \in Nat /\ b <= c
          BY <3>1 DEF b, c
      <4>2. b * Q <= c * Q
          BY <4>1, <1>3
      <4> QED BY <4>2 DEF b, c
    <3>5. Q * ((NServer + A) * P) = (P * NServer) * Q + (P * A) * Q
        BY <1>3
    <3>6. (P * m) * Q \in Nat /\ (P * NServer) * Q \in Nat /\ (P * A) * Q \in Nat
        BY <1>3
    <3> QED BY ONLY <3>1, <3>2, <3>3, <3>4, <3>5, <3>6
  <2>7. n <= (NServer + A) * P
    <3> DEFINE y == (NServer + A) * P
    <3>1. y \in Nat /\ Q * n <= Q * y
      <4>1. y \in Nat /\ Q * n \in Nat /\ Q * y \in Nat
          BY <1>3, <1>7
      <4> QED BY <4>1, <2>1, <2>5, <2>6
    <3> HIDE DEF y
    <3>2. n <= y
        BY <3>1, <1>3, <1>7
    <3> QED BY <3>2 DEF y
  <2> QED BY <2>7
<1>9. ASSUME p.dist_type = "modula" PROVE n <= Weights(p, Server)
  <2>1. \A s \in live : 1 * Share(p, s, live) <= 1 * w[s]
    <3>1. \A s \in live : Share(p, s, live) = w[s]
        BY <1>9 DEF Share, w
    <3> QED BY <3>1, <1>6
  <2>2. 1 * n <= 1 * h[live]
      BY <1>3, <1>4, <1>h, <1>6, <2>1, PointsAdded
  <2> HIDE DEF n, T
  <2> QED BY <2>2, <1>h, <1>5, <1>7
<1>10. ASSUME p.dist_type = "random" PROVE n <= NServer
  <2> DEFINE u == [s \in live |-> 1]
  <2>1. PICK g : IsSum(g, live, u)
      BY <1>3, SumExists
  <2>2. \A s \in live : u[s] \in Nat /\ u[s] = 1
      OBVIOUS
  <2> HIDE DEF u
  <2>3. \A s \in live : 1 * Share(p, s, live) <= 1 * u[s]
      BY <1>10, <2>2 DEF Share
  <2>4. 1 * n <= 1 * g[live]
      BY <1>3, <1>4, <2>1, <2>2, <2>3, PointsAdded
  <2>5. g[live] = m * 1
    <3>1. live \in SUBSET live
        OBVIOUS
    <3> HIDE DEF m
    <3> QED BY <1>3, <2>1, <2>2, <3>1, SumFacts DEF m
  <2> HIDE DEF n, m
  <2> QED BY <2>4, <2>5, <1>3, <1>7
<1> HIDE DEF n
<1> QED
    BY <1>2, <1>8, <1>9, <1>10 DEF p, P, A

-----------------------------------------------------------------------------

(* A retry is planned for the time the ejection says.                      *)
RetriesDue == \A s \in Server : next_retry[s] # 0 =>
    ejected_at[s] # 0 /\ next_retry[s] = ejected_at[s] + RETRY_TIMEOUT

(* A server without a planned retry has waited, or answered.               *)
TimesServed == \A s \in Server :
    s \notin back /\ ejected_at[s] # 0 /\ next_retry[s] = 0
       => now >= ejected_at[s] + RETRY_TIMEOUT

(* The planned rebuild finds a live server.                                *)
RebuildRevives == next_rebuild # 0 => \E s \in Server : next_retry[s] <= next_rebuild

(* When no server is live, the rebuild comes before each of them is due.   *)
AllOut == nlive_server = 0 => \A s \in Server :
    ejected_at[s] # 0 /\ next_rebuild <= ejected_at[s] + RETRY_TIMEOUT

(* What is on the ring is not ejected.                                     *)
RingLive == \A s \in OnRing : next_retry[s] = 0

(* The continuum is that of servers that were live, and allocated for all. *)
RingBuilt ==
    /\ \E live \in SUBSET Server : live # {} /\ continuum = Continuum[pool][live]
    /\ WeightsFit => nserver_continuum = Needed(Server) + CONTINUUM_ADDITION

Health == RetriesArePlanned /\ RetriesDue /\ TimesServed /\ RebuildRevives /\ AllOut
IInv == TypeOK /\ Health /\ RingLive /\ RingBuilt /\ RequestsRouted

(* What the continuum is allocated for is a number, and no live servers    *)
(* need more than it is when it is allocated for all.                      *)
LEMMA AllocatedFits ==
    ASSUME pool \in DOMAIN SETTINGS, NEW live \in SUBSET Server, live # {},
           NEW n \in 0..(WORD - 1)
    PROVE  /\ Needed(live) \in Nat /\ Allocated(live, n) \in 0..(WORD - 1)
           /\ WeightsFit => /\ Needed(live) <= Needed(Server)
                            /\ Needed(Server) \in Nat
                            /\ Needed(Server) + CONTINUUM_ADDITION < WORD
<1> DEFINE p == SETTINGS[pool]
           W == WORD
           A == CONTINUUM_ADDITION
           x == Needed(live)
           z == Needed(Server)
<1>1. IsPool(p) /\ Server \in SUBSET Server
    BY SettingsArePools
<1>2. /\ Cardinality(live) \in Nat /\ Cardinality(live) <= NServer
      /\ Cardinality(Server) = NServer
      /\ NServer \in Nat /\ A \in Nat /\ W \in Nat /\ W > 0
    BY ServersFinite, PoolAssumption
<1>3. NServer + A < W
  <2>1. POINTS_PER_SERVER \in Nat /\ POINTS_PER_SERVER > 0 /\ (NServer + A) * POINTS_PER_SERVER < W
      BY PoolAssumption
  <2> DEFINE c == NServer + A
  <2>2. c \in Nat
      BY <1>2
  <2> HIDE DEF c
  <2>3. c <= c * POINTS_PER_SERVER /\ c * POINTS_PER_SERVER \in Nat
      BY <2>1, <2>2
  <2>4. c < W
      BY <2>1, <2>2, <2>3, <1>2 DEF c
  <2> QED BY <2>4 DEF c
<1>4. /\ x = IF p.dist_type = "modula" THEN Total(p, live) ELSE Cardinality(live)
      /\ z = IF p.dist_type = "modula" THEN Total(p, Server) ELSE NServer
    BY <1>2 DEF Needed
<1>5. WeightsFit <=> Fits(p)
    BY DEF WeightsFit, Fits
<1>6. /\ Total(p, live) \in 0..(W - 1) /\ Total(p, Server) \in 0..(W - 1)
      /\ Fits(p) => /\ Total(p, live) = Weights(p, live)
                    /\ Total(p, Server) = Weights(p, Server)
                    /\ Weights(p, live) <= Weights(p, Server)
    BY <1>1, TotalFacts
<1>7. Allocated(live, n) = IF x > n THEN (x + A) % W ELSE n
    BY DEF Allocated
<1>8. Fits(p) => Weights(p, Server) + A < W
    BY DEF Fits
<1> HIDE DEF x, z, p, W, A
<1>9. x \in Nat /\ z \in Nat
    BY <1>2, <1>4, <1>6
<1>10. (x + A) % W \in 0..(W - 1)
  <2>1. x + A \in Nat
      BY <1>2, <1>9
  <2> DEFINE c == x + A
  <2> HIDE DEF c
  <2>2. c % W \in 0..(W - 1)
      BY <2>1, <1>2 DEF c
  <2> QED BY <2>2 DEF c
<1>11. Allocated(live, n) \in 0..(W - 1)
    BY <1>7, <1>10 DEF W
<1>12. WeightsFit => x <= z /\ z + A < W
    BY <1>2, <1>3, <1>4, <1>5, <1>6, <1>8
<1> QED
    BY <1>9, <1>11, <1>12 DEF x, z, W, A

(* It stays allocated for all.                                             *)
LEMMA StaysAllocated ==
    ASSUME pool \in DOMAIN SETTINGS, NEW live \in SUBSET Server, live # {}, WeightsFit,
           NEW n \in 0..(WORD - 1), n = Needed(Server) + CONTINUUM_ADDITION
    PROVE  Allocated(live, n) = n
<1>1. /\ Needed(live) \in Nat /\ Needed(live) <= Needed(Server) /\ Needed(Server) \in Nat
      /\ CONTINUUM_ADDITION \in Nat
    BY AllocatedFits, PoolAssumption
<1>2. ~(Needed(live) > n)
    BY <1>1
<1> QED
    BY <1>2 DEF Allocated

(* Initially every server is live.                                         *)
LEMMA InitIInv == Init => IInv
<1> SUFFICES ASSUME Init PROVE IInv
    OBVIOUS
<1> USE PoolAssumption
<1>1. /\ pool \in DOMAIN SETTINGS /\ Server \in SUBSET Server /\ Server # {}
      /\ Cardinality(Server) = NServer /\ NServer \in Nat /\ NServer # 0
      /\ 0 \notin Server /\ -1 \notin Server
    BY ServersFinite DEF Init, Server
<1>2. /\ Needed(Server) \in Nat /\ nserver_continuum \in 0..(WORD - 1)
      /\ WeightsFit => nserver_continuum = Needed(Server) + CONTINUUM_ADDITION
  <2>1. 0 \in 0..(WORD - 1) /\ WORD \in Nat /\ CONTINUUM_ADDITION \in Nat
    <3>1. (NServer + CONTINUUM_ADDITION) * POINTS_PER_SERVER < WORD
          /\ (NServer + CONTINUUM_ADDITION) * POINTS_PER_SERVER \in Nat
        BY <1>1
    <3> QED BY <3>1
  <2>2. /\ Needed(Server) \in Nat /\ Allocated(Server, 0) \in 0..(WORD - 1)
        /\ WeightsFit => Needed(Server) + CONTINUUM_ADDITION < WORD
      BY <1>1, <2>1, AllocatedFits
  <2>3. nserver_continuum = Allocated(Server, 0)
      BY DEF Init
  <2>4. ASSUME WeightsFit PROVE Allocated(Server, 0) = Needed(Server) + CONTINUUM_ADDITION
    <3> DEFINE z == Needed(Server)
    <3>1. Allocated(Server, 0) = IF z > 0 THEN (z + CONTINUUM_ADDITION) % WORD ELSE 0
        BY DEF Allocated
    <3>2. z > 0
      <4>1. CASE SETTINGS[pool].dist_type = "modula"
        <5> DEFINE p == SETTINGS[pool]
        <5>1. IsPool(p) /\ Fits(p)
            BY <1>1, <2>4, SettingsArePools DEF WeightsFit, Fits
        <5>2. z = Total(p, Server)
            BY <4>1 DEF Needed
        <5>3. Total(p, Server) = Weights(p, Server)
            BY <5>1, <1>1, TotalFacts
        <5>4. PICK h : IsSum(h, Server, p.weight) /\ Weights(p, Server) = h[Server]
            BY <5>1, <1>1, TotalFacts
        <5>5. 1 \in Server /\ \A s \in Server : p.weight[s] \in Nat /\ p.weight[s] > 0
          <6>1. p.weight \in [Server -> 1..(WORD - 1)]
              BY ONLY <5>1 DEF IsPool
          <6>2. 1 \in Server
              BY ONLY <1>1 DEF Server
          <6> QED BY ONLY <2>1, <6>1, <6>2
        <5>6. IsFiniteSet(Server)
            BY ServersFinite
        <5> HIDE DEF p
        <5>7. h[Server] \in Nat /\ p.weight[1] <= h[Server]
            BY <5>4, <5>5, <5>6, <1>1, SumFacts
        <5> HIDE DEF z
        <5> QED BY <5>2, <5>3, <5>4, <5>5, <5>7
      <4>2. CASE SETTINGS[pool].dist_type # "modula"
          BY <4>2, <1>1 DEF Needed
      <4> QED BY <4>1, <4>2
    <3>3. z + CONTINUUM_ADDITION \in 0..(WORD - 1)
        BY <2>1, <2>2, <2>4
    <3> HIDE DEF z
    <3> DEFINE c == z + CONTINUUM_ADDITION
    <3> HIDE DEF c
    <3>4. c % WORD = c
        BY <2>1, <3>3 DEF c
    <3> QED BY <3>1, <3>2, <3>4 DEF c, z
  <2> QED BY <2>2, <2>3, <2>4
<1>3. continuum \in Seq(Point)
    BY <1>1, ContinuumFacts DEF Init
<1>4. TypeOK
    BY <1>1, <1>2, <1>3 DEF Init, TypeOK, Idle, Refused
<1>5. Health
    BY <1>1 DEF Init, Health, RetriesArePlanned, RetriesDue, TimesServed, RebuildRevives, AllOut
<1>6. RingLive
  <2>1. DOMAIN continuum = 1..Len(continuum) /\ \A x \in 1..Len(continuum) : continuum[x].index \in Server
      BY <1>1, ContinuumFacts DEF Init
  <2> QED BY <2>1, <1>1 DEF Init, RingLive, OnRing
<1>7. RingBuilt
  <2>1. \E live \in SUBSET Server : live # {} /\ continuum = Continuum[pool][live]
      BY <1>1 DEF Init
  <2> QED BY <1>2, <2>1 DEF RingBuilt
<1>8. RequestsRouted
    BY <1>1 DEF Init, RequestsRouted, EjectedLeftAlone, RefusedWhenAllEjected, Idle, Refused
<1> QED
    BY <1>4, <1>5, <1>6, <1>7, <1>8 DEF IInv

(* A rebuild, after an ejection or when it is due: servers whose time has  *)
(* come are live, the next rebuild is the first retry of the others.       *)
LEMMA Rebuild ==
    ASSUME IInv, NEW retry \in [Server -> Nat], server_pool_run(retry),
           pool' = pool, now' = now,
           ejected_at' \in [Server -> Nat], back' \subseteq Server,
           \A s \in Server : retry[s] # 0 =>
              ejected_at'[s] # 0 /\ retry[s] = ejected_at'[s] + RETRY_TIMEOUT,
           \A s \in Server : s \notin back' /\ ejected_at'[s] # 0 /\ retry[s] = 0
              => now >= ejected_at'[s] + RETRY_TIMEOUT
    PROVE  /\ next_retry' \in [Server -> Nat] /\ next_rebuild' \in Nat
           /\ nlive_server' \in 0..NServer /\ continuum' \in Seq(Point)
           /\ nserver_continuum' \in 0..(WORD - 1)
           /\ Health' /\ RingLive' /\ RingBuilt'
           /\ Live(retry) # {} => nlive_server' # 0
<1> DEFINE live == Live(retry)
           out == Server \ live
           T == {retry[s] : s \in out}
<1>1. /\ live = {s \in Server : retry[s] <= now}
      /\ next_retry' = [s \in Server |-> IF s \in live THEN 0 ELSE retry[s]]
      /\ next_rebuild' = IF live = Server THEN 0 ELSE Min(T)
      /\ nlive_server' = Cardinality(live)
      /\ live = {} => continuum' = continuum /\ nserver_continuum' = nserver_continuum
      /\ live # {} => /\ nserver_continuum' = Allocated(live, nserver_continuum)
                      /\ continuum' = Continuum[pool][live]
    BY DEF server_pool_run, Live, NextRebuild
<1>2. /\ pool \in DOMAIN SETTINGS /\ now \in Nat /\ now > 0 /\ continuum \in Seq(Point)
      /\ nserver_continuum \in 0..(WORD - 1) /\ CONTINUUM_ADDITION \in Nat /\ RETRY_TIMEOUT \in Nat
      /\ NServer \in Nat /\ NServer # 0
    BY PoolAssumption DEF IInv, TypeOK
<1>3. /\ live \in SUBSET Server /\ Cardinality(live) \in 0..NServer
      /\ live # {} => Cardinality(live) # 0
      /\ live = {} => Cardinality(live) = 0
      /\ live = Server => Cardinality(live) = NServer
      /\ Server # {}
  <2>1. live \in SUBSET Server
      BY <1>1
  <2>0. Server # {}
    <3>1. 1 \in 1..NServer
        BY <1>2
    <3> QED BY <3>1 DEF Server
  <2> HIDE DEF live
  <2> QED BY <2>0, <2>1, ServersFinite, FS_EmptySet
<1>4. \A s \in out : retry[s] > now /\ retry[s] \in Nat /\ retry[s] # 0
    BY <1>1, <1>2
<1>5. live # Server => Min(T) \in T /\ \A x \in T : Min(T) <= x
  <2>1. T \in SUBSET Nat
      BY <1>4
  <2>2. live # Server => T # {}
      BY <1>3
  <2> HIDE DEF T, live
  <2> QED BY <2>1, <2>2, LeastIsThere
<1> HIDE DEF live
<1>6. live # Server => \E s \in out : Min(T) = retry[s]
    BY <1>5
<1>7. live # Server => /\ next_rebuild' \in Nat /\ next_rebuild' # 0
                       /\ \A s \in out : next_rebuild' <= retry[s]
  <2> SUFFICES ASSUME live # Server
               PROVE  /\ next_rebuild' \in Nat /\ next_rebuild' # 0
                      /\ \A s \in out : next_rebuild' <= retry[s]
      OBVIOUS
  <2>1. next_rebuild' = Min(T)
      BY <1>1
  <2>2. \A s \in out : Min(T) <= retry[s]
      BY <1>5
  <2>3. Min(T) \in Nat /\ Min(T) # 0
    <3> HIDE DEF T
    <3> QED BY <1>4, <1>6
  <2> HIDE DEF T
  <2> QED BY <2>1, <2>2, <2>3
<1>8. next_retry' \in [Server -> Nat] /\ next_rebuild' \in Nat /\ nlive_server' \in 0..NServer
  <2> HIDE DEF T
  <2> QED BY <1>1, <1>3, <1>7
<1>9. \A s \in Server : next_retry'[s] # 0 => s \in out /\ next_retry'[s] = retry[s]
    BY <1>1
<1>10. RetriesArePlanned'
  <2>1. nlive_server' < NServer => next_rebuild' # 0
    <3> HIDE DEF T, out
    <3> QED BY <1>1, <1>2, <1>3, <1>7
  <2>2. ASSUME NEW s \in Server, next_retry'[s] # 0 PROVE next_rebuild' \in 1..next_retry'[s]
    <3>1. s \in out /\ next_retry'[s] = retry[s] /\ live # Server
        BY <1>9, <2>2
    <3>2. next_rebuild' \in Nat /\ next_rebuild' # 0 /\ next_rebuild' <= retry[s] /\ retry[s] \in Nat
        BY <3>1, <1>4, <1>7
    <3> QED BY <3>1, <3>2
  <2> QED BY <2>1, <2>2 DEF RetriesArePlanned
<1>11. RetriesDue'
    BY <1>9 DEF RetriesDue
<1>12. TimesServed'
  <2> SUFFICES ASSUME NEW s \in Server, s \notin back', ejected_at'[s] # 0, next_retry'[s] = 0
               PROVE  now >= ejected_at'[s] + RETRY_TIMEOUT
      BY DEF TimesServed
  <2>1. CASE retry[s] = 0
      BY <2>1
  <2>2. CASE retry[s] # 0
    <3>1. s \in live
        BY <1>1, <2>2
    <3>2. retry[s] <= now
        BY <3>1, <1>1
    <3> QED BY <3>2, <2>2, <1>2
  <2> QED BY <2>1, <2>2
<1>13. RebuildRevives'
  <2> SUFFICES ASSUME next_rebuild' # 0
               PROVE  \E s \in Server : next_retry'[s] <= next_rebuild'
      BY DEF RebuildRevives
  <2>1. live # Server /\ next_rebuild' = Min(T)
      BY <1>1
  <2>2. PICK s \in out : Min(T) = retry[s]
      BY <1>6, <2>1
  <2>3. next_retry'[s] = retry[s] /\ s \in Server /\ retry[s] \in Nat
      BY <2>2, <1>1, <1>4
  <2> HIDE DEF T
  <2> QED BY <2>1, <2>2, <2>3
<1>14. AllOut'
  <2> SUFFICES ASSUME nlive_server' = 0, NEW s \in Server
               PROVE  ejected_at'[s] # 0 /\ next_rebuild' <= ejected_at'[s] + RETRY_TIMEOUT
      BY DEF AllOut
  <2>1. live = {} /\ live # Server /\ s \in out
      BY <1>1, <1>3
  <2>2. retry[s] # 0 /\ next_rebuild' <= retry[s]
      BY <2>1, <1>4, <1>7
  <2> QED BY <2>2
<1>15. live # {} => /\ continuum' \in Seq(Point) /\ nserver_continuum' \in 0..(WORD - 1)
                    /\ DOMAIN continuum' = 1..Len(continuum')
                    /\ \A x \in 1..Len(continuum') : continuum'[x].index \in live
  <2> SUFFICES ASSUME live # {}
               PROVE  /\ continuum' \in Seq(Point) /\ nserver_continuum' \in 0..(WORD - 1)
                      /\ DOMAIN continuum' = 1..Len(continuum')
                      /\ \A x \in 1..Len(continuum') : continuum'[x].index \in live
      OBVIOUS
  <2>1. continuum' = Continuum[pool][live] /\ live \in SUBSET Server /\ pool \in DOMAIN SETTINGS
      BY <1>1, <1>2, <1>3
  <2>2. nserver_continuum' \in 0..(WORD - 1)
      BY <1>1, <1>2, <2>1, AllocatedFits
  <2> QED BY <2>1, <2>2, ContinuumFacts
<1>16. continuum' \in Seq(Point) /\ nserver_continuum' \in 0..(WORD - 1)
    BY <1>1, <1>2, <1>15
<1>17. RingLive'
  <2>1. CASE live = {}
      BY <1>1, <1>3, <2>1 DEF RingLive, OnRing
  <2>2. CASE live # {}
    <3>1. OnRing' \subseteq live
        BY <1>15, <2>2 DEF OnRing
    <3> QED BY <3>1, <1>1, <1>3 DEF RingLive
  <2> QED BY <2>1, <2>2
<1>18. RingBuilt'
  <2>1. \E L \in SUBSET Server : L # {} /\ continuum' = Continuum[pool'][L]
    <3>1. CASE live = {}
      <4>1. continuum' = continuum /\ pool' = pool
          BY <1>1, <3>1
      <4> QED BY <4>1 DEF IInv, RingBuilt
    <3>2. CASE live # {}
        BY <1>1, <1>3, <3>2
    <3> QED BY <3>1, <3>2
  <2>2. ASSUME WeightsFit PROVE nserver_continuum' = Needed(Server) + CONTINUUM_ADDITION
    <3>1. nserver_continuum = Needed(Server) + CONTINUUM_ADDITION
        BY <2>2 DEF IInv, RingBuilt
    <3>2. CASE live = {}
        BY <1>1, <3>1, <3>2
    <3>3. CASE live # {}
      <4>1. nserver_continuum' = Allocated(live, nserver_continuum)
          BY <1>1, <3>3
      <4>2. Allocated(live, nserver_continuum) = nserver_continuum
          BY <1>2, <1>3, <2>2, <3>1, <3>3, StaysAllocated
      <4> QED BY <3>1, <4>1, <4>2
    <3> QED BY <3>2, <3>3
  <2>3. (WeightsFit' <=> WeightsFit) /\ Needed(Server)' = Needed(Server)
      BY DEF WeightsFit, Needed
  <2> QED BY <2>1, <2>2, <2>3 DEF RingBuilt
<1>19. live # {} => nlive_server' # 0
    BY <1>1, <1>3
<1> QED
    BY <1>8, <1>10, <1>11, <1>12, <1>13, <1>14, <1>16, <1>17, <1>18, <1>19 DEF Health, live

(* A step that changes nothing keeps the invariant.                        *)
LEMMA Stuttering == IInv /\ UNCHANGED vars => IInv'
BY DEF IInv, vars, health, ring, TypeOK, Health, RetriesArePlanned, RetriesDue, TimesServed,
       RebuildRevives, AllOut, RingLive, OnRing, RingBuilt, WeightsFit, Needed, RequestsRouted,
       EjectedLeftAlone, RefusedWhenAllEjected

(* When no request was sent there is nothing to say of it.                 *)
LEMMA NoRequest == NServer \in Nat /\ sent' = Idle => RequestsRouted'
BY DEF RequestsRouted, EjectedLeftAlone, RefusedWhenAllEjected, Idle, Refused, Server

(* A failure is counted, or ejects the server and rebuilds the             *)
(* distribution.                                                           *)
LEMMA FailureStep ==
    ASSUME IInv, NEW s \in Server, server_failure(s)
    PROVE  IInv'
<1> USE PoolAssumption
<1>1. sent' = Idle /\ pool' = pool /\ now' = now
    BY DEF server_failure
<1>2. RequestsRouted'
    BY <1>1, NoRequest
<1>3. CASE failure_count[s] + 1 < FAILURE_LIMIT
  <2>1. /\ failure_count' = [failure_count EXCEPT ![s] = @ + 1]
        /\ UNCHANGED <<next_retry, ejected_at, ring, back>>
      BY <1>3 DEF server_failure
  <2>2. TypeOK'
      BY <1>1, <2>1 DEF IInv, TypeOK, ring
  <2>3. Health' /\ RingLive' /\ RingBuilt'
      BY <1>1, <2>1 DEF IInv, ring, Health, RetriesArePlanned, RetriesDue, TimesServed,
         RebuildRevives, AllOut, RingLive, OnRing, RingBuilt, WeightsFit, Needed
  <2> QED BY <1>2, <2>2, <2>3 DEF IInv
<1>4. CASE ~(failure_count[s] + 1 < FAILURE_LIMIT)
  <2> DEFINE retry == [next_retry EXCEPT ![s] = now + RETRY_TIMEOUT]
  <2>1. /\ failure_count' = [failure_count EXCEPT ![s] = 0]
        /\ ejected_at' = [ejected_at EXCEPT ![s] = now]
        /\ back' = back \ {s}
        /\ server_pool_run(retry)
      BY <1>4 DEF server_failure
  <2>2. /\ now \in Nat /\ now > 0 /\ next_retry \in [Server -> Nat]
        /\ ejected_at \in [Server -> Nat] /\ back \subseteq Server
        /\ failure_count \in [Server -> Nat] /\ pool \in DOMAIN SETTINGS
        /\ now \in 1..MaxTime
      BY DEF IInv, TypeOK
  <2>3. /\ retry \in [Server -> Nat] /\ ejected_at' \in [Server -> Nat]
        /\ back' \subseteq Server /\ failure_count' \in [Server -> Nat]
      BY <2>1, <2>2
  <2>4. \A u \in Server : retry[u] # 0 =>
           ejected_at'[u] # 0 /\ retry[u] = ejected_at'[u] + RETRY_TIMEOUT
    <3>1. RetriesDue
        BY DEF IInv, Health
    <3> QED BY <2>1, <2>2, <3>1 DEF RetriesDue
  <2>5. \A u \in Server : u \notin back' /\ ejected_at'[u] # 0 /\ retry[u] = 0
           => now >= ejected_at'[u] + RETRY_TIMEOUT
    <3>1. TimesServed
        BY DEF IInv, Health
    <3> QED BY <2>1, <2>2, <3>1 DEF TimesServed
  <2> HIDE DEF retry
  <2>6. /\ next_retry' \in [Server -> Nat] /\ next_rebuild' \in Nat
        /\ nlive_server' \in 0..NServer /\ continuum' \in Seq(Point)
        /\ nserver_continuum' \in 0..(WORD - 1)
        /\ Health' /\ RingLive' /\ RingBuilt'
      BY <1>1, <2>1, <2>3, <2>4, <2>5, Rebuild
  <2>7. TypeOK'
      BY <1>1, <2>2, <2>3, <2>6 DEF TypeOK
  <2> QED BY <1>2, <2>6, <2>7 DEF IInv
<1> QED
    BY <1>3, <1>4

(* An answer clears what was counted against its server.                   *)
LEMMA AnswerStep ==
    ASSUME IInv, NEW s \in Server, server_ok(s)
    PROVE  IInv'
<1> USE PoolAssumption
<1>1. /\ failure_count' = [failure_count EXCEPT ![s] = 0]
      /\ next_retry' = [next_retry EXCEPT ![s] = 0]
      /\ back' = back \cup {s}
      /\ sent' = Idle /\ pool' = pool /\ ejected_at' = ejected_at /\ now' = now
      /\ next_rebuild' = next_rebuild /\ nlive_server' = nlive_server
      /\ continuum' = continuum /\ nserver_continuum' = nserver_continuum
    BY DEF server_ok, ring
<1>2. RequestsRouted'
    BY <1>1, NoRequest
<1>3. TypeOK'
    BY <1>1 DEF IInv, TypeOK
<1>4. next_retry \in [Server -> Nat]
    BY DEF IInv, TypeOK
<1>5. \A u \in Server : next_retry'[u] = 0 \/ (u # s /\ next_retry'[u] = next_retry[u])
    BY <1>1, <1>4
<1>6. RetriesArePlanned'
    BY <1>1, <1>5 DEF IInv, Health, RetriesArePlanned
<1>7. RetriesDue'
    BY <1>1, <1>5 DEF IInv, Health, RetriesDue
<1>8. TimesServed'
    BY <1>1, <1>4 DEF IInv, Health, TimesServed
<1>9. RebuildRevives'
  <2>1. \A u \in Server : next_retry'[u] <= next_retry[u]
      BY <1>1, <1>4
  <2>2. next_rebuild \in Nat /\ \A u \in Server : next_retry'[u] \in Nat /\ next_retry[u] \in Nat
      BY <1>3, <1>4 DEF IInv, TypeOK
  <2>3. RebuildRevives
      BY DEF IInv, Health
  <2> QED BY <1>1, <2>1, <2>2, <2>3 DEF RebuildRevives
<1>10. AllOut'
    BY <1>1 DEF IInv, Health, AllOut
<1>11. RingLive'
    BY <1>1, <1>4 DEF IInv, RingLive, OnRing, TypeOK, Point
<1>12. RingBuilt'
    BY <1>1 DEF IInv, RingBuilt, WeightsFit, Needed
<1> QED
    BY <1>2, <1>3, <1>6, <1>7, <1>8, <1>9, <1>10, <1>11, <1>12 DEF IInv, Health

(* Time goes on: what was waited long enough stays so.                     *)
LEMMA TickStep ==
    ASSUME IInv, Tick
    PROVE  IInv'
<1> USE PoolAssumption
<1>1. /\ now < MaxTime /\ now' = now + 1 /\ sent' = Idle
      /\ UNCHANGED <<pool, health, ring, back>>
    BY DEF Tick
<1>2. RequestsRouted'
    BY <1>1, NoRequest
<1>3. TypeOK'
    BY <1>1 DEF IInv, TypeOK, health, ring
<1>4. TimesServed'
  <2>1. now \in Nat /\ RETRY_TIMEOUT \in Nat /\ \A u \in Server : ejected_at[u] \in Nat
      BY DEF IInv, TypeOK
  <2>2. TimesServed
      BY DEF IInv, Health
  <2>3. ejected_at' = ejected_at /\ next_retry' = next_retry /\ back' = back
      BY <1>1 DEF health
  <2> QED BY <1>1, <2>1, <2>2, <2>3 DEF TimesServed
<1>5. RetriesArePlanned' /\ RetriesDue' /\ RebuildRevives' /\ AllOut' /\ RingLive' /\ RingBuilt'
    BY <1>1 DEF IInv, health, ring, Health, RetriesArePlanned, RetriesDue,
       RebuildRevives, AllOut, RingLive, OnRing, RingBuilt, WeightsFit, Needed
<1> QED
    BY <1>2, <1>3, <1>4, <1>5 DEF IInv, Health

(* A request: refused when no server is live, else sent to one that is.    *)
LEMMA RequestStep ==
    ASSUME IInv, NEW k \in Hash, server_pool_conn(k)
    PROVE  IInv'
<1> USE PoolAssumption
<1>1. /\ pool' = pool /\ failure_count' = failure_count /\ ejected_at' = ejected_at
      /\ now' = now /\ back' = back
    BY DEF server_pool_conn
<1>2. /\ pool \in DOMAIN SETTINGS /\ now \in Nat /\ next_retry \in [Server -> Nat]
      /\ ejected_at \in [Server -> Nat] /\ back \subseteq Server
      /\ failure_count \in [Server -> Nat] /\ now \in 1..MaxTime
      /\ next_rebuild \in Nat /\ nlive_server \in 0..NServer
      /\ continuum \in Seq(Point) /\ nserver_continuum \in 0..(WORD - 1)
      /\ NServer \in Nat /\ NServer # 0
    BY DEF IInv, TypeOK
<1>3. RetriesArePlanned /\ RetriesDue /\ TimesServed /\ RebuildRevives /\ AllOut
    BY DEF IInv, Health
<1>4. Server \subseteq Int /\ 0 \notin Server /\ -1 \notin Server
    BY DEF Server
<1>5. ASSUME TypeOK', Health', RingLive', RingBuilt', nlive_server' # 0,
             sent' \in server_pool_idx(k)'
      PROVE  IInv'
  <2>1. pool' \in DOMAIN SETTINGS
      BY <1>1, <1>2
  <2>2. PICK live \in SUBSET Server : live # {} /\ continuum' = Continuum[pool'][live]
      BY <1>5 DEF RingBuilt
  <2>3. sent' \in Indices(continuum')
      BY <1>5, <2>1, <2>2, IdxOnContinuum
  <2>4. sent' \in OnRing'
      BY <1>5, <2>3 DEF OnRing, Indices
  <2>5. sent' \in Server
    <3>1. continuum' \in Seq(Point)
        BY <1>5 DEF TypeOK
    <3>2. \A x \in DOMAIN continuum' : continuum'[x] \in Point
        BY <3>1
    <3>3. \A q \in Point : q.index \in Server
        BY DEF Point
    <3> QED BY ONLY <2>3, <3>2, <3>3 DEF Indices
  <2>6. next_retry'[sent'] = 0
      BY <1>5, <2>4 DEF RingLive
  <2>7. EjectedLeftAlone'
    <3>1. TimesServed'
        BY <1>5 DEF Health
    <3> QED BY <2>5, <2>6, <3>1 DEF TimesServed, EjectedLeftAlone
  <2>8. RefusedWhenAllEjected'
      BY <2>5, <1>4 DEF RefusedWhenAllEjected, Refused
  <2> QED BY <1>5, <2>7, <2>8 DEF IInv, RequestsRouted
<1>6. ASSUME UNCHANGED <<next_retry, ring>>
      PROVE  /\ sent' \in Server \cup {Idle, Refused} => TypeOK'
             /\ Health' /\ RingLive' /\ RingBuilt'
  <2>1. sent' \in Server \cup {Idle, Refused} => TypeOK'
      BY <1>1, <1>2, <1>6 DEF TypeOK, ring
  <2>2. Health' /\ RingLive' /\ RingBuilt'
      BY <1>1, <1>6 DEF IInv, ring, Health, RetriesArePlanned, RetriesDue, TimesServed,
         RebuildRevives, AllOut, RingLive, OnRing, RingBuilt, WeightsFit, Needed
  <2> QED BY <2>1, <2>2
<1>7. CASE /\ next_rebuild # 0 /\ ~Due /\ nlive_server = 0
           /\ sent' = Refused
           /\ UNCHANGED <<next_retry, ring>>
  <2>1. TypeOK' /\ Health' /\ RingLive' /\ RingBuilt'
      BY <1>6, <1>7
  <2>2. now <= next_rebuild
      BY <1>2, <1>7 DEF Due
  <2>3. ASSUME NEW s \in Server
        PROVE  ejected_at[s] # 0 /\ now <= ejected_at[s] + RETRY_TIMEOUT
    <3>1. ejected_at[s] # 0 /\ next_rebuild <= ejected_at[s] + RETRY_TIMEOUT
        BY <1>3, <1>7 DEF AllOut
    <3>2. ejected_at[s] \in Nat
        BY <1>2
    <3> QED BY <3>1, <3>2, <2>2, <1>2
  <2>4. RequestsRouted'
      BY <1>1, <1>4, <1>7, <2>3 DEF RequestsRouted, EjectedLeftAlone, RefusedWhenAllEjected, Refused
  <2> QED BY <2>1, <2>4 DEF IInv
<1>8. CASE /\ ~Due /\ ~(next_rebuild # 0 /\ nlive_server = 0)
           /\ sent' \in server_pool_idx(k)
           /\ UNCHANGED <<next_retry, ring>>
  <2>1. nlive_server' # 0 /\ nlive_server' = nlive_server /\ continuum' = continuum
    <3>1. nlive_server # 0
        BY <1>2, <1>3, <1>8 DEF RetriesArePlanned
    <3> QED BY <3>1, <1>8 DEF ring
  <2>2. Health' /\ RingLive' /\ RingBuilt'
      BY <1>6, <1>8
  <2>3. sent' \in server_pool_idx(k)'
    <3>1. server_pool_idx(k)' = server_pool_idx(k)
      <4>1. Search(k)' = Search(k)
          BY <2>1, SearchIsFound
      <4> QED BY <1>1, <2>1, <4>1 DEF server_pool_idx, ketama_dispatch, modula_dispatch, random_dispatch
    <3> QED BY <3>1, <1>8
  <2>4. sent' \in Server
    <3>1. RingBuilt
        BY DEF IInv
    <3>2. PICK live \in SUBSET Server : live # {} /\ continuum = Continuum[pool][live]
        BY <3>1 DEF RingBuilt
    <3>3. sent' \in Indices(continuum)
        BY <1>2, <1>8, <3>2, IdxOnContinuum
    <3>4. \A x \in DOMAIN continuum : continuum[x] \in Point
        BY <1>2
    <3>5. \A q \in Point : q.index \in Server
        BY DEF Point
    <3> QED BY ONLY <3>3, <3>4, <3>5 DEF Indices
  <2> QED BY <1>5, <1>6, <1>8, <2>1, <2>2, <2>3, <2>4
<1>9. CASE Due /\ server_pool_run(next_retry) /\ sent' \in server_pool_idx(k)'
  <2>1. Live(next_retry) # {}
    <3>1. PICK s \in Server : next_retry[s] <= next_rebuild
        BY <1>3, <1>9 DEF Due, RebuildRevives
    <3>2. next_retry[s] <= now
        BY <3>1, <1>2, <1>9 DEF Due
    <3> QED BY <3>2 DEF Live
  <2>2. /\ \A s \in Server : next_retry[s] # 0 =>
              ejected_at'[s] # 0 /\ next_retry[s] = ejected_at'[s] + RETRY_TIMEOUT
        /\ \A s \in Server : s \notin back' /\ ejected_at'[s] # 0 /\ next_retry[s] = 0
              => now >= ejected_at'[s] + RETRY_TIMEOUT
      BY <1>1, <1>3 DEF RetriesDue, TimesServed
  <2>3. ejected_at' \in [Server -> Nat] /\ back' \subseteq Server
      BY <1>1, <1>2
  <2>4. PICK retry \in [Server -> Nat] : retry = next_retry
      BY <1>2
  <2>5. /\ next_retry' \in [Server -> Nat] /\ next_rebuild' \in Nat
        /\ nlive_server' \in 0..NServer /\ continuum' \in Seq(Point)
        /\ nserver_continuum' \in 0..(WORD - 1)
        /\ Health' /\ RingLive' /\ RingBuilt'
        /\ nlive_server' # 0
    <3>1. server_pool_run(retry) /\ Live(retry) # {}
        BY <1>9, <2>1, <2>4 DEF server_pool_run, Live, NextRebuild
    <3> QED BY <1>1, <2>2, <2>3, <2>4, <3>1, Rebuild
  <2>6. sent' \in Server
    <3>1. PICK live \in SUBSET Server : live # {} /\ continuum' = Continuum[pool'][live]
        BY <2>5 DEF RingBuilt
    <3>2. sent' \in Indices(continuum')
        BY <1>1, <1>2, <1>9, <3>1, IdxOnContinuum
    <3>3. \A x \in DOMAIN continuum' : continuum'[x] \in Point
        BY <2>5
    <3>4. \A q \in Point : q.index \in Server
        BY DEF Point
    <3> QED BY ONLY <3>2, <3>3, <3>4 DEF Indices
  <2>7. TypeOK'
      BY <1>1, <1>2, <2>5, <2>6 DEF TypeOK
  <2> QED BY <1>5, <1>9, <2>5, <2>7
<1> QED
    BY <1>7, <1>8, <1>9 DEF server_pool_conn

(* The invariant is kept by every step.                                    *)
LEMMA NextIInv == IInv /\ [Next]_vars => IInv'
<1> SUFFICES ASSUME IInv, [Next]_vars PROVE IInv'
    OBVIOUS
<1>1. CASE UNCHANGED vars
    BY <1>1, Stuttering
<1>2. ASSUME NEW s \in Server, server_failure(s) PROVE IInv'
    BY <1>2, FailureStep
<1>3. ASSUME NEW s \in Server, server_ok(s) PROVE IInv'
    BY <1>3, AnswerStep
<1>4. CASE Request
    BY <1>4, RequestStep DEF Request
<1>5. CASE Tick
    BY <1>5, TickStep
<1> QED
    BY <1>1, <1>2, <1>3, <1>4, <1>5 DEF Next

(* The invariant holds in every state of every pool.                       *)
THEOREM PoolInvariant == Spec => []IInv
<1>1. Init => IInv
    BY InitIInv
<1>2. IInv /\ [Next]_vars => IInv'
    BY NextIInv
<1> QED
    BY <1>1, <1>2, PTL DEF Spec

(* No ejected server is forgotten: RetriesArePlanned holds of every pool   *)
(* (next_rebuild, as server_pool_update reads it).                         *)
THEOREM PoolRetriesPlanned == Spec => []RetriesArePlanned
<1>1. IInv => RetriesArePlanned
    BY DEF IInv, Health
<1> QED
    BY <1>1, PoolInvariant, PTL

(* No request goes to a server ejected a moment ago, and none is refused   *)
(* while a server may be tried: RequestsRouted holds of every pool         *)
(* (server_pool_update and server_pool_idx together).                      *)
THEOREM PoolRequestsRouted == Spec => []RequestsRouted
<1>1. IInv => RequestsRouted
    BY DEF IInv
<1> QED
    BY <1>1, PoolInvariant, PTL

(* No update of a distribution writes behind the end of its continuum:     *)
(* ContinuumFits holds of every pool whose weights do not wrap round, for  *)
(* any shares as precise as floats compute them (ketama_update and         *)
(* modula_update).                                                         *)
THEOREM PoolContinuumFits == Spec => []ContinuumFits
<1>1. IInv => ContinuumFits
  <2> SUFFICES ASSUME IInv, WeightsFit PROVE PointsFit
      BY DEF IInv, ContinuumFits
  <2>1. PICK live \in SUBSET Server : live # {} /\ continuum = Continuum[pool][live]
      BY DEF IInv, RingBuilt
  <2> DEFINE p == SETTINGS[pool]
             n == Len(continuum)
             P == POINTS_PER_SERVER
             A == CONTINUUM_ADDITION
  <2>2. pool \in DOMAIN SETTINGS /\ nserver_continuum = Needed(Server) + A
      BY DEF IInv, TypeOK, RingBuilt
  <2>3. IsPool(p) /\ Fits(p)
      BY <2>2, SettingsArePools DEF WeightsFit, Fits
  <2>4. p.dist_type \in {"ketama", "modula", "random"}
      BY <2>3 DEF IsPool
  <2>5. /\ p.dist_type = "ketama" => n <= (NServer + A) * P
        /\ p.dist_type = "modula" => n <= Weights(p, Server)
        /\ p.dist_type = "random" => n <= NServer
      BY <2>1, <2>2, <2>3, NeededFits
  <2>6. NServer \in Nat /\ A \in Nat /\ n \in Nat
    <3>1. continuum \in Seq(Point)
        BY DEF IInv, TypeOK
    <3> QED BY <3>1, PoolAssumption
  <2>7. n <= Capacity
    <3>1. CASE p.dist_type = "ketama"
      <4>1. Capacity = (NServer + A) * P
          BY <2>2, <3>1, ServersFinite DEF Needed, Capacity
      <4> QED BY <4>1, <2>5, <3>1
    <3>2. CASE p.dist_type = "modula"
      <4>1. Server \in SUBSET Server
          OBVIOUS
      <4>2. Total(p, Server) = Weights(p, Server) /\ Weights(p, Server) \in Nat
          BY <2>3, <4>1, TotalFacts
      <4>3. Capacity = (Total(p, Server) + A) * 1
          BY <2>2, <3>2 DEF Needed, Capacity
      <4> DEFINE t == Weights(p, Server)
      <4> HIDE DEF n, p
      <4>4. n <= t /\ t \in Nat /\ Capacity = (t + A) * 1
          BY <2>5, <3>2, <4>2, <4>3
      <4> HIDE DEF t
      <4> QED BY <4>4, <2>6
    <3>3. CASE p.dist_type = "random"
      <4>1. Capacity = (NServer + A) * 1
          BY <2>2, <3>3, ServersFinite DEF Needed, Capacity
      <4> HIDE DEF n, p
      <4> QED BY <4>1, <2>5, <2>6, <3>3
    <3> QED BY <2>4, <3>1, <3>2, <3>3
  <2> QED BY <2>7 DEF PointsFit
<1> QED
    BY <1>1, PoolInvariant, PTL

(* The binary search of ketama_dispatch finds the point that follows the   *)
(* key on the ring: SuccessorOnRing holds of every pool.                   *)
THEOREM PoolSuccessorOnRing == Spec => []SuccessorOnRing
<1>1. IInv => SuccessorOnRing
  <2> SUFFICES ASSUME IInv, NEW k \in Hash
               PROVE  \E p \in ToSet(continuum) :
                         /\ p.index = ketama_dispatch(k)
                         /\ Follows(p, k) \/ (Lowest(p) /\ \A q \in ToSet(continuum) : q.value < k)
      BY DEF SuccessorOnRing
  <2>1. PICK live \in SUBSET Server : live # {} /\ continuum = Continuum[pool][live]
      BY DEF IInv, RingBuilt
  <2>2. pool \in DOMAIN SETTINGS
      BY DEF IInv, TypeOK
  <2> DEFINE c == continuum
             x == Place(c, k)
  <2>3. ketama_dispatch(k) = c[x].index
      BY SearchIsFound DEF ketama_dispatch, Place
  <2>4. DOMAIN c = 1..Len(c)
      BY <2>1, <2>2, ContinuumFacts
  <2>5. /\ x \in 1..Len(c)
        /\ \/ /\ c[x].value >= k
              /\ \A y \in 1..Len(c) : c[y].value >= k => c[x].value <= c[y].value
           \/ /\ \A y \in 1..Len(c) : c[y].value < k
              /\ \A y \in 1..Len(c) : c[x].value <= c[y].value
      BY <2>1, <2>2, PlaceFollows
  <2> HIDE DEF x
  <2>6. c[x] \in ToSet(c)
      BY <2>4, <2>5 DEF ToSet
  <2>7. Follows(c[x], k) \/ (Lowest(c[x]) /\ \A q \in ToSet(c) : q.value < k)
      BY <2>4, <2>5 DEF ToSet, Follows, Lowest
  <2> QED BY <2>3, <2>6, <2>7
<1> QED
    BY <1>1, PoolInvariant, PTL

(* How many points of a continuum are a server's.                          *)
Owned(c, s) == Cardinality({x \in DOMAIN c : c[x].index = s})

(* As many as its share says, and none when it is not live.                *)
LEMMA OwnedIs ==
    ASSUME NEW i \in DOMAIN SETTINGS, NEW live \in SUBSET Server, live # {},
           NEW c, c = Continuum[i][live], NEW s \in Server
    PROVE  Owned(c, s) = IF s \in live THEN Share(SETTINGS[i], s, live) ELSE 0
<1> DEFINE p == SETTINGS[i]
           S == AllPoints(p, live)
           n == Cardinality(S)
           m == Share(p, s, live)
           D == {x \in DOMAIN c : c[x].index = s}
           g == [x \in D |-> Nth(S, x).i]
<1>1. IsPool(p)
    BY SettingsArePools
<1>2. c = [k \in 1..n |-> [index |-> Nth(S, k).index, value |-> Nth(S, k).value]]
    BY DEF Continuum, AllPoints, Nth, Rank, Lower
<1>3. IsFiniteSet(S) /\ n \in Nat
    BY <1>1, PointsExist
<1> HIDE DEF p
<1>4. \A q \in S : /\ q.index \in live /\ q.i \in Nat \ {0} /\ q.i <= Share(p, q.index, live)
                   /\ q.value = IF p.dist_type = "ketama" THEN p.value[<<q.index, q.i>>] ELSE 0
                   /\ q = [index |-> q.index, i |-> q.i, value |-> q.value]
    BY <1>1, PointFacts
<1>5. /\ \A k \in 1..n : Nth(S, k) \in S /\ Rank(S, Nth(S, k)) = k - 1
      /\ \A q \in S : \E k \in 1..n : q = Nth(S, k)
  <2>1. /\ \A x, y \in S : x = y \/ Before(x, y) \/ Before(y, x)
        /\ \A x, y, z \in S : Before(x, y) /\ Before(y, z) => Before(x, z)
        /\ \A x \in S : ~Before(x, x)
      BY <1>1, BeforeOrders
  <2> HIDE DEF S
  <2> QED BY <1>3, <2>1, RanksTaken
<1>6. D = {x \in 1..n : Nth(S, x).index = s}
  <2> HIDE DEF n, S
  <2> QED BY <1>2
<1>7. CASE s \notin live
  <2>1. D = {}
    <3> HIDE DEF n, S
    <3> QED BY <1>4, <1>5, <1>6, <1>7
  <2>2. Cardinality(D) = 0
      BY <2>1, FS_EmptySet
  <2> QED BY <2>2, <1>7 DEF Owned
<1>8. CASE s \in live
  <2>1. m \in Nat
      BY <1>1, <1>8, ShareFacts
  <2>2. g \in [D -> 1..m]
    <3>1. ASSUME NEW x \in D PROVE Nth(S, x).i \in 1..m
      <4>1. Nth(S, x) \in S /\ Nth(S, x).index = s
        <5> HIDE DEF n, S, D
        <5> QED BY <1>5, <1>6
      <4> DEFINE q == Nth(S, x)
      <4>2. q \in S /\ q.index = s
          BY <4>1
      <4> HIDE DEF q, S
      <4>3. q.i \in Nat /\ q.i # 0 /\ q.i <= m
          BY <4>2, <1>4
      <4> HIDE DEF m
      <4>4. q.i \in 1..m
          BY <4>3, <2>1
      <4> QED BY <4>4 DEF q
    <3> HIDE DEF D, m, S
    <3> QED BY <3>1
  <2>3. ASSUME NEW x \in D, NEW y \in D, g[x] = g[y] PROVE x = y
    <3> DEFINE q == Nth(S, x)
               r == Nth(S, y)
    <3>1. q \in S /\ r \in S /\ q.index = s /\ r.index = s /\ x \in 1..n /\ y \in 1..n
          /\ Rank(S, q) = x - 1 /\ Rank(S, r) = y - 1
      <4> HIDE DEF n, S, D
      <4> QED BY <1>5, <1>6
    <3>2. q.i = r.i
        BY <2>3
    <3> HIDE DEF q, r, S, n
    <3>3. q.value = r.value
        BY <1>4, <3>1, <3>2
    <3>4. q = r
        BY <1>4, <3>1, <3>2, <3>3
    <3>5. x - 1 = y - 1 /\ x \in Int /\ y \in Int
        BY <3>1, <3>4
    <3> QED BY ONLY <3>5
  <2>4. ASSUME NEW j \in 1..m PROVE \E x \in D : g[x] = j
    <3>1. PICK v : v = IF p.dist_type = "ketama" THEN p.value[<<s, j>>] ELSE 0
        OBVIOUS
    <3>2. PICK q : q = [index |-> s, i |-> j, value |-> v]
        OBVIOUS
    <3>3. q \in S
      <4>1. q \in Points(p, s, live)
          BY <3>1, <3>2 DEF Points
      <4> QED BY <4>1, <1>8 DEF AllPoints
    <3> HIDE DEF S
    <3>4. PICK k \in 1..n : q = Nth(S, k)
        BY <1>5, <3>3
    <3>5. Nth(S, k).index = s /\ Nth(S, k).i = j
        BY <3>2, <3>4
    <3>6. k \in D
      <4> HIDE DEF n, D
      <4> QED BY <1>6, <3>5
    <3>7. g[k] = j
        BY <3>5, <3>6
    <3> HIDE DEF D, g
    <3> QED BY <3>6, <3>7
  <2>5. Cardinality(D) = m
    <3>1. g \in Bijection(D, 1..m)
      <4>1. DOMAIN g = D
          OBVIOUS
      <4> HIDE DEF g, D, m
      <4>2. IsInjective(g)
          BY <2>3, <4>1 DEF IsInjective
      <4>3. g \in Injection(D, 1..m)
          BY <2>2, <4>2 DEF Injection
      <4>4. g \in Surjection(D, 1..m)
          BY <2>2, <2>4 DEF Surjection
      <4> QED BY <4>3, <4>4 DEF Bijection
    <3>2. IsFiniteSet(1..m) /\ Cardinality(1..m) = m
      <4> HIDE DEF m
      <4> QED BY <2>1, FS_Interval
    <3>3. IsFiniteSet(D)
      <4>1. IsFiniteSet(1..n)
        <5> HIDE DEF n
        <5> QED BY <1>3, FS_Interval
      <4>2. D \subseteq 1..n
        <5> HIDE DEF n, D
        <5> QED BY <1>6
      <4> HIDE DEF D, n
      <4> QED BY <4>1, <4>2, FS_Subset
    <3> HIDE DEF g, D, m
    <3>4. ExistsBijection(D, 1..m)
        BY <3>1 DEF ExistsBijection
    <3> QED BY <3>2, <3>3, <3>4, FS_Bijection
  <2> QED BY <2>5, <1>8 DEF Owned, p
<1> QED
    BY <1>7, <1>8

(* What Distinct says of a pool.                                           *)
LEMMA DistinctIs ==
    ASSUME NEW i \in Distinct
    PROVE  /\ i \in DOMAIN SETTINGS /\ SETTINGS[i].dist_type = "ketama"
           /\ \A x, y \in Server \X (1..MaxPoints) :
                 x # y => SETTINGS[i].value[x] # SETTINGS[i].value[y]
BY DEF Distinct

(* A point is on another ring too, if its server has no fewer points there *)
(* than it has here.                                                       *)
LEMMA PointStays ==
    ASSUME NEW i \in Distinct,
           NEW L \in SUBSET Server, L # {}, NEW M \in SUBSET Server, M # {},
           NEW q \in AllPoints(SETTINGS[i], L),
           Owned(Continuum[i][L], q.index) <= Owned(Continuum[i][M], q.index)
    PROVE  q \in AllPoints(SETTINGS[i], M)
<1> DEFINE p == SETTINGS[i]
           s == q.index
           j == q.i
           a == Share(p, s, L)
           b == Share(p, s, M)
<1>1. i \in DOMAIN SETTINGS /\ p.dist_type = "ketama" /\ IsPool(p)
    BY DistinctIs, SettingsArePools
<1>2. /\ s \in L /\ s \in Server /\ j \in Nat /\ j # 0 /\ j <= a
      /\ q.value = IF p.dist_type = "ketama" THEN p.value[<<s, j>>] ELSE 0
      /\ q = [index |-> s, i |-> j, value |-> q.value]
    BY <1>1, PointFacts
<1> HIDE DEF p
<1>3. a \in Nat /\ (s \in M => b \in Nat)
    BY <1>1, <1>2, ShareFacts
<1> HIDE DEF s, j
<1>4. Owned(Continuum[i][L], s) = a
    BY <1>1, <1>2, OwnedIs DEF p
<1>5. Owned(Continuum[i][M], s) = IF s \in M THEN b ELSE 0
    BY <1>1, <1>2, OwnedIs DEF p
<1>6. Owned(Continuum[i][L], s) <= Owned(Continuum[i][M], s)
    BY DEF s
<1> HIDE DEF a, b
<1>7. s \in M /\ j \in 1..b
    BY <1>2, <1>3, <1>4, <1>5, <1>6
<1>8. PICK v : v = IF p.dist_type = "ketama" THEN p.value[<<s, j>>] ELSE 0
    OBVIOUS
<1>9. q = [index |-> s, i |-> j, value |-> v]
    BY <1>2, <1>8
<1>10. q \in Points(p, s, M)
    BY <1>7, <1>8, <1>9 DEF Points, b
<1> QED
    BY <1>7, <1>10 DEF AllPoints, p

(* A key does not move from a server that loses no points to one that wins *)
(* none.                                                                   *)
LEMMA RingsAgree ==
    ASSUME NEW i \in Distinct, NEW k \in Hash,
           NEW L \in SUBSET Server, L # {}, NEW M \in SUBSET Server, M # {},
           NEW c, c = Continuum[i][L], NEW d, d = Continuum[i][M],
           Owned(c, c[Place(c, k)].index) <= Owned(d, c[Place(c, k)].index),
           Owned(d, d[Place(d, k)].index) <= Owned(c, d[Place(d, k)].index)
    PROVE  c[Place(c, k)].index = d[Place(d, k)].index
<1> DEFINE p == SETTINGS[i]
           x == Place(c, k)
           y == Place(d, k)
           v(a) == c[a].value
           u(a) == d[a].value
<1>0. i \in DOMAIN SETTINGS
    BY DistinctIs
<1>1. IsPool(p)
    BY <1>0, SettingsArePools
<1>2. /\ x \in 1..Len(c)
      /\ \/ /\ v(x) >= k
            /\ \A a \in 1..Len(c) : v(a) >= k => v(x) <= v(a)
         \/ /\ \A a \in 1..Len(c) : v(a) < k
            /\ \A a \in 1..Len(c) : v(x) <= v(a)
    BY <1>0, PlaceFollows
<1>3. /\ y \in 1..Len(d)
      /\ \/ /\ u(y) >= k
            /\ \A a \in 1..Len(d) : u(a) >= k => u(y) <= u(a)
         \/ /\ \A a \in 1..Len(d) : u(a) < k
            /\ \A a \in 1..Len(d) : u(y) <= u(a)
    BY <1>0, PlaceFollows
<1>o. Owned(c, c[x].index) <= Owned(d, c[x].index) /\ Owned(d, d[y].index) <= Owned(c, d[y].index)
    OBVIOUS
<1> HIDE DEF x, y
<1>4. /\ \A a \in 1..Len(c) : c[a] \in Point
      /\ \E q \in AllPoints(p, L) : c[x].index = q.index /\ c[x].value = q.value
      /\ \A q \in AllPoints(p, L) : \E a \in 1..Len(c) : c[a].index = q.index /\ c[a].value = q.value
    BY <1>0, <1>2, ContinuumFacts
<1>5. /\ \A a \in 1..Len(d) : d[a] \in Point
      /\ \E q \in AllPoints(p, M) : d[y].index = q.index /\ d[y].value = q.value
      /\ \A q \in AllPoints(p, M) : \E a \in 1..Len(d) : d[a].index = q.index /\ d[a].value = q.value
    BY <1>0, <1>3, ContinuumFacts
<1>6. PICK q \in AllPoints(p, L) : c[x].index = q.index /\ c[x].value = q.value
    BY <1>4
<1>7. PICK r \in AllPoints(p, M) : d[y].index = r.index /\ d[y].value = r.value
    BY <1>5
<1>8. q \in AllPoints(p, M) /\ r \in AllPoints(p, L)
  <2>1. /\ Owned(Continuum[i][L], q.index) <= Owned(Continuum[i][M], q.index)
        /\ Owned(Continuum[i][M], r.index) <= Owned(Continuum[i][L], r.index)
      BY <1>o, <1>6, <1>7
  <2>2. q \in AllPoints(p, M)
      BY <2>1, PointStays
  <2>3. r \in AllPoints(p, L)
      BY <2>1, PointStays
  <2> QED BY <2>2, <2>3
<1>9. PICK a \in 1..Len(d) : d[a].value = q.value
    BY <1>5, <1>8
<1>10. PICK b \in 1..Len(c) : c[b].value = r.value
    BY <1>4, <1>8
<1>11. /\ k \in Int /\ \A z \in 1..Len(c) : v(z) \in Int
       /\ \A z \in 1..Len(d) : u(z) \in Int
  <2>1. \A h \in Hash : h \in Int
      BY PoolAssumption DEF Hash
  <2> QED BY <2>1, <1>4, <1>5 DEF Point
<1>12. v(x) = u(a) /\ u(y) = v(b)
    BY <1>6, <1>7, <1>9, <1>10
<1>13. v(x) = u(y)
  <2> HIDE DEF v, u
  <2> QED BY <1>2, <1>3, <1>11, <1>12
<1>14. q.value = r.value
    BY <1>6, <1>7, <1>13
<1>15. /\ q.index \in Server /\ q.i \in 1..MaxPoints /\ q.value = p.value[<<q.index, q.i>>]
       /\ r.index \in Server /\ r.i \in 1..MaxPoints /\ r.value = p.value[<<r.index, r.i>>]
  <2>1. p.dist_type = "ketama" /\ MaxPoints \in Nat
      BY DistinctIs, PoolAssumption
  <2>2. ASSUME NEW t \in AllPoints(p, L)
        PROVE  t.index \in Server /\ t.i \in 1..MaxPoints /\ t.value = p.value[<<t.index, t.i>>]
    <3>1. /\ t.index \in L /\ t.i \in Nat \ {0} /\ t.i <= Share(p, t.index, L)
          /\ t.value = IF p.dist_type = "ketama" THEN p.value[<<t.index, t.i>>] ELSE 0
        BY <1>1, PointFacts
    <3>2. Share(p, t.index, L) <= MaxPoints /\ Share(p, t.index, L) \in Nat
        BY <1>1, <2>1, <3>1, ShareFacts
    <3>3. t.i \in 1..MaxPoints
        BY <2>1, <3>1, <3>2
    <3> QED BY <2>1, <3>1, <3>3
  <2> HIDE DEF p
  <2> QED BY <1>8, <2>2
<1>16. <<q.index, q.i>> = <<r.index, r.i>>
  <2> DEFINE e == <<q.index, q.i>>
             f == <<r.index, r.i>>
  <2>1. /\ e \in Server \X (1..MaxPoints) /\ f \in Server \X (1..MaxPoints)
        /\ p.value[e] = p.value[f]
      BY <1>14, <1>15
  <2> HIDE DEF e, f
  <2>2. e = f
      BY <2>1, DistinctIs
  <2> QED BY <2>2 DEF e, f
<1>17. q.index = r.index
    BY <1>16
<1> QED
    BY <1>6, <1>7, <1>17 DEF x, y

(* Ejections and retries move no key of ketama from a server that loses no *)
(* points to one that wins none: KeysStay holds of every pool whose points *)
(* are distinct, of whatever weights (ketama_update, ketama_dispatch).     *)
THEOREM PoolKeysStay == Spec => KeysStay
<1>1. ASSUME IInv, IInv', [Next]_vars, pool \in Distinct, NEW s \in Server, NEW u \in Server,
             s # u, PointsOf(s)' >= PointsOf(s), PointsOf(u)' <= PointsOf(u), NEW k \in Hash,
             ketama_dispatch(k) = s
      PROVE  ketama_dispatch(k)' # u
  <2> SUFFICES ASSUME ketama_dispatch(k)' = u PROVE FALSE
      OBVIOUS
  <2>1. pool' = pool
      BY <1>1 DEF Next, vars, server_failure, server_ok, Request, server_pool_conn, Tick
  <2>2. PICK L \in SUBSET Server : L # {} /\ continuum = Continuum[pool][L]
      BY <1>1 DEF IInv, RingBuilt
  <2>3. PICK M \in SUBSET Server : M # {} /\ continuum' = Continuum[pool][M]
      BY <1>1, <2>1 DEF IInv, RingBuilt
  <2>4. /\ s = continuum[Place(continuum, k)].index
        /\ u = continuum'[Place(continuum', k)].index
      BY <1>1, SearchIsFound DEF ketama_dispatch, Place
  <2>5. PICK c, d : c = continuum /\ d = continuum'
      OBVIOUS
  <2>6. /\ PointsOf(s) = Owned(c, s) /\ PointsOf(s)' = Owned(d, s)
        /\ PointsOf(u) = Owned(c, u) /\ PointsOf(u)' = Owned(d, u)
      BY <2>5 DEF PointsOf, Owned
  <2>7. Owned(c, s) <= Owned(d, s) /\ Owned(d, u) <= Owned(c, u)
    <3>1. pool \in DOMAIN SETTINGS
        BY <1>1, DistinctIs
    <3>2. /\ IsPool(SETTINGS[pool])
          /\ \A t \in L : Share(SETTINGS[pool], t, L) \in Nat
          /\ \A t \in M : Share(SETTINGS[pool], t, M) \in Nat
        BY <3>1, SettingsArePools, ShareFacts
    <3>3. \A t \in Server : Owned(c, t) \in Int /\ Owned(d, t) \in Int
        BY <3>1, <3>2, <2>2, <2>3, <2>5, OwnedIs
    <3> QED BY <1>1, <2>6, <3>3
  <2>8. s = c[Place(c, k)].index /\ u = d[Place(d, k)].index
      BY <2>4, <2>5
  <2>9. c = Continuum[pool][L] /\ d = Continuum[pool][M]
      BY <2>2, <2>3, <2>5
  <2>10. s = u
      BY <1>1, <2>2, <2>3, <2>7, <2>8, <2>9, RingsAgree
  <2> QED BY <1>1, <2>10
<1> DEFINE Stay == (pool \in Distinct /\ continuum' # continuum) => \A s, u \in Server :
          s # u /\ PointsOf(s)' >= PointsOf(s) /\ PointsOf(u)' <= PointsOf(u)
             => \A k \in Hash : ketama_dispatch(k) = s => ketama_dispatch(k)' # u
<1>2. IInv /\ IInv' /\ [Next]_vars => [Stay]_continuum
    BY <1>1
<1>3. Spec => [][Stay]_continuum
    BY <1>2, PoolInvariant, PTL DEF Spec
<1> QED
    BY <1>3 DEF KeysStay

=============================================================================
