--------------------------- MODULE FragmentsProofs --------------------------
(***************************************************************************)
(* Proofs about Fragments, for any clients, servers and bounds.  First     *)
(* what its operators compute of a queue (Without, FlattenSeq), then the   *)
(* invariant IInv and what it says of the properties.  The parts of IInv   *)
(* are operators of values: a handler is several steps (settle a fragment, *)
(* coalesce the head of out_q, free what was sent), and the lemmas are     *)
(* about one of these each.  After them come the actions: forwarding,      *)
(* responses, clients that leave, requests that arrive, and sending.       *)
(***************************************************************************)
EXTENDS Fragments, FiniteSetTheorems, SequenceTheorems, WellFoundedInduction, TLAPS

(* Induction over the numbers, by a set: what holds of 0 and of the        *)
(* successor of what it holds of holds of all.                             *)
LEMMA SetInduction ==
    ASSUME NEW G, 0 \in G, \A n \in Nat : n \in G => n + 1 \in G
    PROVE  \A n \in Nat : n \in G
<1> DEFINE T == {n \in Nat : n \notin G}
           R == OpToRel(LAMBDA x, y : x < y, Nat)
<1> SUFFICES ASSUME T # {} PROVE FALSE
    OBVIOUS
<1>1. IsWellFoundedOn(R, Nat)
    BY NatLessThanWellFounded DEF OpToRel
<1>2. PICK x \in T : \A y \in T : <<y, x>> \notin R
  <2>1. T \subseteq Nat /\ T # {}
      OBVIOUS
  <2> HIDE DEF T, R
  <2> QED BY <1>1, <2>1, WFMin
<1>3. x # 0 /\ x \in Nat /\ x \notin G
    OBVIOUS
<1>4. x - 1 \in Nat /\ x - 1 < x /\ (x - 1) + 1 = x
    BY <1>3
<1>5. x - 1 \in G
  <2> SUFFICES ASSUME x - 1 \notin G PROVE FALSE
      OBVIOUS
  <2>3. <<x - 1, x>> \notin R
      BY <1>2, <1>4
  <2> QED BY <1>4, <1>3, <2>3 DEF OpToRel
<1> QED
    BY <1>3, <1>4, <1>5

(* A function computed number by number, each value from the one before:   *)
(* there is one.                                                           *)
StepFun(n, V) == [1..n -> [V -> V]]
Computes(h, n, V, b, F) == /\ h \in [0..n -> V] /\ h[0] = b
                           /\ \A i \in 1..n : h[i] = F[i][h[i - 1]]

(* A value that is reached in n steps, each from the one before: the       *)
(* function of the values there are on the way.                            *)
LEMMA StepsExist ==
    ASSUME NEW n, n \in Nat, NEW V, NEW b, b \in V, NEW F, F \in StepFun(n, V)
    PROVE  \E h : Computes(h, n, V, b, F)
<1>0. F \in [1..n -> [V -> V]]
    BY DEF StepFun
<1> DEFINE G == {k \in Nat : k <= n => \E h \in [0..n -> V] :
                     h[0] = b /\ \A i \in 1..k : h[i] = F[i][h[i - 1]]}
<1>1. 0 \in G
  <2> DEFINE h == [i \in 0..n |-> b]
  <2>1. h \in [0..n -> V] /\ h[0] = b /\ \A i \in 1..0 : h[i] = F[i][h[i - 1]]
      OBVIOUS
  <2> HIDE DEF h
  <2> QED BY <2>1
<1>2. ASSUME NEW k \in Nat, k \in G PROVE k + 1 \in G
  <2> SUFFICES ASSUME k + 1 <= n
               PROVE  \E h \in [0..n -> V] :
                         h[0] = b /\ \A i \in 1..(k + 1) : h[i] = F[i][h[i - 1]]
      OBVIOUS
  <2>1. PICK h \in [0..n -> V] : h[0] = b /\ \A i \in 1..k : h[i] = F[i][h[i - 1]]
      BY <1>2
  <2> DEFINE g == [h EXCEPT ![k + 1] = F[k + 1][h[k]]]
  <2>3. g \in [0..n -> V] /\ g[0] = b
      BY <2>1, <1>0
  <2>4. ASSUME NEW i \in 1..(k + 1) PROVE g[i] = F[i][g[i - 1]]
    <3>1. CASE i = k + 1
      <4>1. g[k + 1] = F[k + 1][h[k]] /\ g[k] = h[k]
          BY <2>1
      <4>2. i - 1 = k
          BY <3>1
      <4> HIDE DEF g
      <4> QED BY <3>1, <4>1, <4>2
    <3>2. CASE i # k + 1
      <4>1. i \in 1..k /\ i - 1 \in 0..n /\ i - 1 # k + 1 /\ i \in 0..n
          BY <3>2
      <4>2. g[i] = h[i] /\ g[i - 1] = h[i - 1]
          BY <3>2, <4>1
      <4> HIDE DEF g
      <4> QED BY <2>1, <4>1, <4>2
    <3> QED BY <3>1, <3>2
  <2> HIDE DEF g
  <2> QED BY <2>3, <2>4
<1>3. \A k \in Nat : k \in G
  <2> HIDE DEF G
  <2>1. \A k \in Nat : k \in G => k + 1 \in G
      BY <1>2
  <2> QED BY ONLY <1>1, <2>1, SetInduction
<1>4. n \in G
    BY <1>3
<1>5. PICK h \in [0..n -> V] : h[0] = b /\ \A i \in 1..n : h[i] = F[i][h[i - 1]]
    BY <1>4
<1>6. Computes(h, n, V, b, F)
    BY <1>5 DEF Computes
<1> QED
    BY ONLY <1>6

(* Adding at the end of a queue.                                           *)
LEMMA AppendFacts ==
    ASSUME NEW S, NEW q \in Seq(S), NEW c \in S
    PROVE  /\ Append(q, c) \in Seq(S)
           /\ Len(Append(q, c)) = Len(q) + 1
           /\ ToSet(Append(q, c)) = ToSet(q) \cup {c}
           /\ IsInjective(q) /\ c \notin ToSet(q) => IsInjective(Append(q, c))
<1>1. /\ Append(q, c) \in Seq(S) /\ Len(Append(q, c)) = Len(q) + 1
      /\ \A i \in 1..(Len(q) + 1) : Append(q, c)[i] = IF i = Len(q) + 1 THEN c ELSE q[i]
    BY AppendProperties
<1>2. /\ DOMAIN q = 1..Len(q) /\ Len(q) \in Nat
      /\ DOMAIN Append(q, c) = 1..(Len(q) + 1)
    BY <1>1, LenProperties
<1>4. ASSUME IsInjective(q), c \notin ToSet(q) PROVE IsInjective(Append(q, c))
    BY <1>2, <1>4, <1>1 DEF ToSet, IsInjective
<1> QED BY <1>1, <1>2, <1>4 DEF ToSet

-----------------------------------------------------------------------------
(* Queues in the order of arrival.                                         *)
Increasing(q) == \A i, j \in 1..Len(q) : i < j => q[i] < q[j]

(* What is in a queue is at some place in it.                              *)
LEMMA PlaceOf ==
    ASSUME NEW T, NEW q \in Seq(T)
    PROVE  /\ \A x \in ToSet(q) : \E i \in 1..Len(q) : q[i] = x
           /\ \A i \in 1..Len(q) : q[i] \in ToSet(q) /\ q[i] \in T
           /\ DOMAIN q = 1..Len(q) /\ Len(q) \in Nat
           /\ ToSet(q) \subseteq T
           /\ q = <<>> <=> ToSet(q) = {}
           /\ q = <<>> <=> Len(q) = 0
<1>1. DOMAIN q = 1..Len(q) /\ Len(q) \in Nat
    BY LenProperties
<1>4. ToSet(q) = {q[i] : i \in 1..Len(q)}
    BY <1>1 DEF ToSet
<1>5. \A i \in 1..Len(q) : q[i] \in ToSet(q) /\ q[i] \in T
    BY ElementOfSeq, <1>4
<1>6. Len(q) # 0 => 1 \in 1..Len(q)
    BY <1>1
<1>7. Len(q) = 0 => ToSet(q) = {}
    BY <1>4
<1> QED BY <1>1, EmptySeq, <1>4, <1>5, <1>6, <1>7

(* What is later than all of a queue may be added to it.                   *)
LEMMA IncreasingAppend ==
    ASSUME NEW q \in Seq(Int), NEW x \in Int, Increasing(q), \A y \in ToSet(q) : y < x
    PROVE  Increasing(Append(q, x))
<1>2. \A i \in 1..Len(q) : q[i] \in Int /\ q[i] < x
    BY PlaceOf
<1> QED BY AppendProperties, LenProperties, <1>2 DEF Increasing

(* A queue in order of arrival is determined by what is in it.             *)
LEMMA IncreasingUnique ==
    ASSUME NEW q \in Seq(Int), NEW r \in Seq(Int), Increasing(q), Increasing(r),
           ToSet(q) = ToSet(r)
    PROVE  q = r
<1> DEFINE G == {k \in Nat : \A i \in 1..k : i <= Len(q) /\ i <= Len(r) => q[i] = r[i]}
<1>0. /\ Len(q) \in Nat /\ Len(r) \in Nat
      /\ \A i \in 1..Len(q) : q[i] \in Int /\ \E j \in 1..Len(r) : r[j] = q[i]
      /\ \A i \in 1..Len(r) : r[i] \in Int /\ \E j \in 1..Len(q) : q[j] = r[i]
    BY PlaceOf
<1>n. Len(q) \in Nat /\ Len(r) \in Nat
    BY <1>0
<1>t. \A i \in 1..Len(q) : q[i] \in Int
    BY <1>0
<1>u. \A i \in 1..Len(r) : r[i] \in Int
    BY <1>0
<1>a. /\ \A x, y \in 1..Len(q) : x < y => q[x] < q[y]
      /\ \A x, y \in 1..Len(r) : x < y => r[x] < r[y]
    BY DEF Increasing
<1>1. 0 \in G
    OBVIOUS
<1>2. ASSUME NEW k \in Nat, k \in G PROVE k + 1 \in G
  <2> SUFFICES ASSUME k + 1 <= Len(q), k + 1 <= Len(r)
               PROVE  q[k + 1] = r[k + 1]
      BY <1>2
  <2> DEFINE i == k + 1
  <2>1. i \in 1..Len(q) /\ i \in 1..Len(r)
      BY <1>0
  <2>2. ASSUME NEW j \in 1..k
        PROVE  q[j] = r[j] /\ j \in 1..Len(q) /\ j \in 1..Len(r) /\ j < i
    <3>1. j <= Len(q) /\ j <= Len(r) /\ j < i /\ j \in Nat /\ 1 <= j
        BY <1>n
    <3>3. j \in 1..Len(q) /\ j \in 1..Len(r)
        BY <3>1, <1>0
    <3> QED BY <3>1, <1>2, <3>3
  <2>0. i \in Nat
      OBVIOUS
  <2>3. PICK a \in 1..Len(r) : r[a] = q[i]
      BY <1>0, <2>1
  <2>4. PICK b \in 1..Len(q) : q[b] = r[i]
      BY <1>0, <2>1
  <2>5. a \notin 1..k
    <3> SUFFICES ASSUME a \in 1..k PROVE FALSE
        OBVIOUS
    <3>1. q[a] = q[i] /\ q[a] < q[i] /\ q[i] \in Int
        BY <2>1, <2>2, <2>3, <1>0, <1>a
    <3> QED BY <3>1
  <2>6. b \notin 1..k
    <3> SUFFICES ASSUME b \in 1..k PROVE FALSE
        OBVIOUS
    <3>1. r[b] = r[i] /\ r[b] < r[i] /\ r[i] \in Int
        BY <2>1, <2>2, <2>4, <1>0, <1>a
    <3> QED BY <3>1
  <2>7. r[i] <= q[i]
    <3>2. a = i \/ r[i] < r[a]
        BY <2>5, <1>0, <2>1, <1>a
    <3>3. r[i] \in Int /\ q[i] \in Int
        BY <2>1, <1>0
    <3> HIDE DEF i
    <3> QED BY <3>2, <3>3, <2>3
  <2>8. q[i] <= r[i]
    <3>2. b = i \/ q[i] < q[b]
        BY <2>6, <1>0, <2>1, <1>a
    <3>3. r[i] \in Int /\ q[i] \in Int
        BY <2>1, <1>0
    <3> HIDE DEF i
    <3> QED BY <3>2, <3>3, <2>4
  <2>9. q[i] \in Int /\ r[i] \in Int
      BY <2>1, <1>t, <1>u
  <2> HIDE DEF i
  <2> QED BY <2>7, <2>8, <2>9 DEF i
<1>3. \A k \in Nat : k \in G
  <2> HIDE DEF G
  <2>1. \A k \in Nat : k \in G => k + 1 \in G
      BY <1>2
  <2> QED BY ONLY <1>1, <2>1, SetInduction
<1>4. ASSUME NEW i \in Nat, 1 <= i, i <= Len(q), i <= Len(r) PROVE q[i] = r[i]
  <2>1. i \in G /\ i \in 1..i
      BY <1>3, <1>4
  <2> QED BY <2>1, <1>4
<1> HIDE DEF G
<1>5. Len(q) = Len(r)
  <2>1. CASE Len(q) < Len(r)
    <3> DEFINE n == Len(q) + 1
    <3>1. n \in 1..Len(r)
        BY <1>0, <2>1
    <3>2. PICK a \in 1..Len(q) : q[a] = r[n]
        BY <1>0, <3>1
    <3>3. q[a] = r[a] /\ a \in 1..Len(r) /\ a < n
      <4>1. a \in Nat /\ 1 <= a /\ a <= Len(q) /\ a <= Len(r) /\ a < n
          BY <1>n, <2>1
      <4> QED BY <4>1, <1>0, <1>4
    <3>4. r[a] < r[n] /\ r[n] \in Int
      <4> HIDE DEF n
      <4> QED BY <3>1, <3>3, <1>0, <1>a
    <3> HIDE DEF n
    <3> QED BY <3>2, <3>3, <3>4
  <2>2. CASE Len(r) < Len(q)
    <3> DEFINE n == Len(r) + 1
    <3>1. n \in 1..Len(q)
        BY <1>0, <2>2
    <3>2. PICK a \in 1..Len(r) : r[a] = q[n]
        BY <1>0, <3>1
    <3>3. q[a] = r[a] /\ a \in 1..Len(q) /\ a < n
      <4>1. a \in Nat /\ 1 <= a /\ a <= Len(q) /\ a <= Len(r) /\ a < n
          BY <1>n, <2>2
      <4> QED BY <4>1, <1>0, <1>4
    <3>4. q[a] < q[n] /\ q[n] \in Int
      <4> HIDE DEF n
      <4> QED BY <3>1, <3>3, <1>0, <1>a
    <3> HIDE DEF n
    <3> QED BY <3>2, <3>3, <3>4
  <2> QED BY <2>1, <2>2, <1>0
<1>6. \A i \in 1..Len(q) : q[i] = r[i]
    BY <1>0, <1>4, <1>5
<1> QED
    BY <1>5, <1>6, SeqEqual

(* The function Without is computed by.                                    *)
IsRest(h, q, S) ==
    h = [i \in 0..Len(q) |->
            IF i = 0 THEN <<>>
            ELSE IF q[i] \in S THEN h[i - 1] ELSE Append(h[i - 1], q[i])]

(* There is one, and its values are sequences.                             *)
LEMMA RestExists ==
    ASSUME NEW T, NEW q \in Seq(T), NEW S
    PROVE  \E h : IsRest(h, q, S) /\ Without(q, S) = h[Len(q)] /\ h \in [0..Len(q) -> Seq(T)]
<1> DEFINE F == [i \in 1..Len(q) |-> [v \in Seq(T) |->
                     IF q[i] \in S THEN v ELSE Append(v, q[i])]]
           g == CHOOSE h : IsRest(h, q, S)
<1>0. Len(q) \in Nat /\ \A i \in 1..Len(q) : q[i] \in T
    BY PlaceOf
<1>1. <<>> \in Seq(T) /\ F \in [1..Len(q) -> [Seq(T) -> Seq(T)]]
    BY <1>0, AppendProperties
<1>2. PICK h \in [0..Len(q) -> Seq(T)] :
          h[0] = <<>> /\ \A i \in 1..Len(q) : h[i] = F[i][h[i - 1]]
  <2> HIDE DEF F
  <2> DEFINE n == Len(q)
             V == Seq(T)
             b == <<>>
  <2>1. n \in Nat /\ b \in V /\ F \in StepFun(n, V)
      BY <1>0, <1>1 DEF StepFun
  <2> HIDE DEF n, V, b
  <2>2. PICK h : Computes(h, n, V, b, F)
      BY ONLY <2>1, StepsExist
  <2> QED BY <2>2 DEF n, V, b, Computes
<1>3. ASSUME NEW i \in 1..Len(q)
      PROVE  h[i] = IF q[i] \in S THEN h[i - 1] ELSE Append(h[i - 1], q[i])
  <2>2. h[i] = F[i][h[i - 1]]
      BY <1>2
  <2> QED BY <1>0, <2>2
<1>4. IsRest(h, q, S)
  <2> HIDE DEF F
  <2>1. ASSUME NEW i \in 0..Len(q)
        PROVE  h[i] = IF i = 0 THEN <<>>
                      ELSE IF q[i] \in S THEN h[i - 1] ELSE Append(h[i - 1], q[i])
    <3>1. CASE i = 0
        BY <3>1, <1>2
    <3>2. CASE i # 0
      <4>1. i \in 1..Len(q)
          BY <3>2, <1>0
      <4> QED BY <4>1, <3>2, <1>3
    <3> QED BY <3>1, <3>2
  <2> QED BY <2>1 DEF IsRest
<1>5. IsRest(g, q, S)
  <2> HIDE DEF F
  <2> QED BY <1>4
<1>6. Without(q, S) = g[Len(q)]
    BY DEF Without, IsRest
<1> DEFINE K == {k \in Nat : k <= Len(q) => g[k] = h[k]}
<1>7. \A i \in 0..Len(q) : /\ g[i] = IF i = 0 THEN <<>>
                                     ELSE IF q[i] \in S THEN g[i - 1] ELSE Append(g[i - 1], q[i])
                           /\ h[i] = IF i = 0 THEN <<>>
                                     ELSE IF q[i] \in S THEN h[i - 1] ELSE Append(h[i - 1], q[i])
  <2> HIDE DEF F, g
  <2> QED BY <1>4, <1>5 DEF IsRest
<1>8. 0 \in K
  <2> HIDE DEF F, g
  <2> QED BY <1>7, <1>0
<1>9. ASSUME NEW k \in Nat, k \in K PROVE k + 1 \in K
  <2> HIDE DEF F, g
  <2> SUFFICES ASSUME k + 1 <= Len(q) PROVE g[k + 1] = h[k + 1]
      OBVIOUS
  <2>1. k + 1 \in 0..Len(q) /\ k + 1 # 0 /\ (k + 1) - 1 = k /\ g[k] = h[k]
      BY <1>9, <1>0
  <2> QED BY <2>1, <1>7
<1>10. \A k \in Nat : k \in K
  <2> HIDE DEF K
  <2>1. \A k \in Nat : k \in K => k + 1 \in K
      BY <1>9
  <2> QED BY ONLY <1>8, <2>1, SetInduction
<1>11. g[Len(q)] = h[Len(q)]
  <2> HIDE DEF F, g
  <2> QED BY <1>10, <1>0
<1> QED
  <2> HIDE DEF F, g, K
  <2> QED BY <1>4, <1>6, <1>11

(* What is left when the messages of S are taken out.                      *)
LEMMA WithoutFacts ==
    ASSUME NEW T, NEW q \in Seq(T), NEW S
    PROVE  /\ Without(q, S) \in Seq(T)
           /\ ToSet(Without(q, S)) = ToSet(q) \ S
           /\ T \subseteq Int /\ Increasing(q) => Increasing(Without(q, S))
<1>1. PICK h : IsRest(h, q, S) /\ Without(q, S) = h[Len(q)] /\ h \in [0..Len(q) -> Seq(T)]
    BY RestExists
<1>2. Len(q) \in Nat /\ \A i \in 1..Len(q) : q[i] \in T
    BY PlaceOf
<1>3. \A i \in 0..Len(q) : h[i] = IF i = 0 THEN <<>>
                                  ELSE IF q[i] \in S THEN h[i - 1] ELSE Append(h[i - 1], q[i])
    BY <1>1 DEF IsRest
<1> DEFINE Good(k) == /\ h[k] \in Seq(T)
                      /\ ToSet(h[k]) = {q[j] : j \in 1..k} \ S
                      /\ T \subseteq Int /\ Increasing(q) => Increasing(h[k])
           K == {k \in Nat : k <= Len(q) => Good(k)}
<1>4. 0 \in K
  <2>1. h[0] = <<>> /\ <<>> \in Seq(T) /\ Len(<<>>) = 0
      BY <1>2, <1>3
  <2>3. Increasing(<<>>)
      BY DEF Increasing
  <2>4. {q[j] : j \in 1..0} = {}
      OBVIOUS
  <2>5. Good(0)
      BY <2>1, <2>3, <2>4 DEF ToSet
  <2> HIDE DEF Good
  <2> QED BY <2>5
<1>5. ASSUME NEW k \in Nat, k \in K PROVE k + 1 \in K
  <2>0. k + 1 <= Len(q) => Good(k + 1)
    <3> SUFFICES ASSUME k + 1 <= Len(q) PROVE Good(k + 1)
        OBVIOUS
    <3>1. k + 1 \in 0..Len(q) /\ k + 1 # 0 /\ (k + 1) - 1 = k /\ k + 1 \in 1..Len(q)
        BY <1>2
    <3>2. h[k + 1] = IF q[k + 1] \in S THEN h[k] ELSE Append(h[k], q[k + 1])
        BY <1>3, <3>1
    <3>3. Good(k)
      <4> HIDE DEF Good
      <4> QED BY <1>2, <1>5
    <3>4. {q[j] : j \in 1..(k + 1)} = {q[j] : j \in 1..k} \cup {q[k + 1]}
        OBVIOUS
    <3>5. q[k + 1] \in T
        BY <1>2, <3>1
    <3>6. CASE q[k + 1] \in S
        BY <3>2, <3>6, <3>3, <3>4
    <3>7. CASE q[k + 1] \notin S
      <4>1. h[k + 1] = Append(h[k], q[k + 1])
          BY <3>2, <3>7
      <4>2. /\ Append(h[k], q[k + 1]) \in Seq(T)
            /\ ToSet(Append(h[k], q[k + 1])) = ToSet(h[k]) \cup {q[k + 1]}
          BY <3>3, <3>5, AppendFacts
      <4>4. ASSUME T \subseteq Int, Increasing(q) PROVE Increasing(h[k + 1])
        <5>2. ASSUME NEW y \in ToSet(h[k]) PROVE y < q[k + 1]
          <6>1. PICK j \in 1..k : y = q[j]
              BY <3>3
          <6> QED BY <6>1, <3>1, <1>2, <4>4 DEF Increasing
        <5> QED BY <3>3, <4>4, SeqMonotonic, <3>5, <5>2, <4>1, IncreasingAppend
      <4> QED BY <4>1, <4>2, <3>3, <3>4, <3>7, <4>4
    <3> QED BY <3>6, <3>7
  <2> HIDE DEF Good
  <2> QED BY <2>0
<1>6. \A k \in Nat : k \in K
  <2> HIDE DEF K
  <2>1. \A k \in Nat : k \in K => k + 1 \in K
      BY <1>5
  <2> QED BY ONLY <1>4, <2>1, SetInduction
<1>7. Good(Len(q))
  <2> HIDE DEF Good
  <2> QED BY <1>2, <1>6
<1>8. {q[j] : j \in 1..Len(q)} = ToSet(q)
    BY PlaceOf DEF ToSet
<1> QED
    BY <1>1, <1>7, <1>8

-----------------------------------------------------------------------------
(* The invariant, of values of the variables: most handlers are several of *)
(* the steps below, and it holds between them.                             *)
Live(mg, m) == mg[m].st = "live"
PartsOf(mg, m) == {n \in Msg : mg[n].frag_owner = m /\ n # m}

(* What is not live is blank, and what was not read yet has lost nothing.  *)
Blank(mg, nl, k) ==
    \A m \in Msg : /\ ~Live(mg, m) => mg[m] = [NoMsg EXCEPT !.st = mg[m].st]
                   /\ m > k => mg[m].st = "unread" /\ nl[m] = 0

(* The flags of a message.                                                 *)
Flags(mg) ==
    \A m \in Msg : Live(mg, m) =>
        /\ mg[m].owner \in Client
        /\ mg[m].error => mg[m].done
        /\ mg[m].fdone => mg[m].done /\ mg[m].frag_id # None
        /\ mg[m].ferror => /\ mg[m].fdone /\ mg[m].frag_owner = m
                           /\ mg[m].peer = "error"
        /\ mg[m].swallow => ~mg[m].done
        /\ mg[m].cut => mg[m].done /\ (mg[m].frag_id # None => mg[m].fdone)

(* A request and its fragments have adjacent numbers.                      *)
Groups(mg) ==
    \A m \in Msg : Live(mg, m) =>
        /\ mg[m].frag_id = mg[m].frag_owner
        /\ mg[m].frag_owner # None =>
              /\ mg[m].frag_owner <= m
              /\ \A n \in mg[m].frag_owner..m :
                    Live(mg, n) => /\ mg[n].frag_owner = mg[m].frag_owner
                                   /\ mg[n].owner = mg[m].owner
        /\ mg[m].frag_owner = m =>
              /\ mg[m].done /\ ~mg[m].error
              /\ \A n \in PartsOf(mg, m) : n <= m + mg[m].nfrag

(* A fragment and its request.                                             *)
Owners(mg) ==
    \A m \in Msg : LET o == mg[m].frag_owner IN
        Live(mg, m) /\ o # None /\ o # m =>
            /\ Live(mg, o) => ~mg[m].swallow /\ mg[m].fdone = mg[o].fdone
            /\ ~Live(mg, o) => mg[m].swallow \/ mg[m].fdone

(* CountsAgree, of values.                                                 *)
Counts(mg, nl) ==
    \A m \in Msg :
        Live(mg, m) /\ mg[m].frag_owner = m /\ ~mg[m].fdone =>
            Cardinality({n \in PartsOf(mg, m) : mg[n].done})
                = mg[m].nfrag_done + nl[m]

Tree(mg, nl, k) == /\ mg \in [Msg -> MsgRec] /\ nl \in [Msg -> 0..MaxParts]
                   /\ Blank(mg, nl, k) /\ Flags(mg) /\ Groups(mg) /\ Owners(mg)
                   /\ Counts(mg, nl)

(* A message is in the out_q of its client until it is freed or its client *)
(* is gone, and the queues are in the order of arrival.                    *)
OutQueues(mg, oq, fm, cu, go) ==
    /\ oq \in [Client -> Seq(Msg)] /\ fm \in Seq(Msg) /\ cu \in Client \cup {None}
    /\ \A c \in Client :
          /\ Increasing(oq[c])
          /\ \A m \in ToSet(oq[c]) : /\ Live(mg, m) /\ mg[m].owner = c
                                     /\ ~mg[m].swallow
          /\ c \in go => oq[c] = <<>>
    /\ Increasing(fm)
    /\ \A m \in ToSet(fm) : /\ Live(mg, m) /\ mg[m].owner = cu /\ ~mg[m].swallow
                            /\ ~mg[m].done
                            /\ \A n \in ToSet(oq[cu]) : n < m
    /\ \A m \in Msg : Live(mg, m) /\ ~mg[m].swallow =>
                         m \in ToSet(oq[mg[m].owner]) \cup ToSet(fm)

(* What servers have to answer is live, not done, and there only once.     *)
Waits(mg, qu, fm) ==
    /\ qu \in [Server -> Seq(Msg)]
    /\ \A s \in Server :
          /\ IsInjective(qu[s])
          /\ \A m \in ToSet(qu[s]) :
                /\ Live(mg, m) /\ ~mg[m].done /\ m \notin ToSet(fm)
                /\ \A t \in Server \ {s} : m \notin ToSet(qu[t])

(* What is gathered is the beginning of out_q, and it is settled.          *)
Sending(mg, oq, sm, cu) ==
    /\ sm \in Seq(Msg)
    /\ sm # <<>> => /\ cu \in Client /\ Len(sm) <= Len(oq[cu])
                    /\ \A i \in 1..Len(sm) : sm[i] = oq[cu][i]
    /\ \A m \in ToSet(sm) :
          /\ mg[m].done
          /\ mg[m].frag_id # None => mg[m].fdone

(* Once a request is gathered or written without an error, its fragments   *)
(* have none, and never will.                                              *)
Errors(mg, sm) ==
    /\ \A m \in Msg : LET o == mg[m].frag_owner IN
          Live(mg, m) /\ o # None /\ o # m /\ ~mg[m].swallow
          /\ (~Live(mg, o) \/ o \in ToSet(sm) \/ mg[o].cut) =>
                mg[m].fdone /\ ~mg[m].error
    /\ \A m \in Msg : mg[m].ferror => PartsOf(mg, m) = {}
    /\ \A m \in Msg : mg[m].cut \/ m \in ToSet(sm) =>
          mg[m].peer = "error" \/ ~mg[m].error

(* ResponsesWhole of one client, and the response that is half written is  *)
(* the first of its out_q.                                                 *)
Paired(w) ==
    \A i \in DOMAIN w :
        LET other == [w[i] EXCEPT !.half = 3 - @]
        IN IF w[i].half = 2 THEN i > 1 /\ w[i - 1] = other
           ELSE i < Len(w) => w[i + 1] = other \/ (w[i].bad /\ w[i + 1] = w[i])
Halfway(w) == w # <<>> /\ Last(w).half = 1
First(mg, q, h) ==
    /\ q # <<>> /\ q[1] = h.req
    /\ mg[h.req].done /\ (mg[h.req].frag_id # None => mg[h.req].fdone)
    /\ h.bad <=> mg[h.req].peer = "error"
    /\ mg[h.req].peer # "empty"
    /\ h.bad \/ mg[h.req].cut
OnWire(mg, oq, wi, go) ==
    /\ wi \in [Client -> Seq([req : Msg, half : {1, 2}, bad : BOOLEAN])]
    /\ \A c \in Client : Paired(wi[c])
    /\ \A c \in Client \ go : Halfway(wi[c]) => First(mg, oq[c], Last(wi[c]))
    /\ \A m \in Msg : mg[m].cut =>
          Halfway(wi[mg[m].owner]) /\ Last(wi[mg[m].owner]).req = m

(* Where the loop is, and what it holds there.                             *)
Places(fm, sm, p, cu, go) ==
    /\ p = "forward" <=> fm # <<>>
    /\ p \in {"forward", "send"} => cu \in Client \ go
    /\ p \in {"loop", "crash"} => cu = None
    /\ p # "send" => sm = <<>>

-----------------------------------------------------------------------------
(* The fields of a message have their types.                               *)
LEMMA MessageTypes ==
    ASSUME NEW mg, mg \in [Msg -> MsgRec], NEW m \in Msg
    PROVE  /\ mg[m] \in MsgRec
           /\ mg[m].st \in {"unread", "live", "freed"}
           /\ mg[m].owner \in Client \cup {None}
           /\ mg[m].frag_id \in Msg \cup {None} /\ mg[m].frag_owner \in Msg \cup {None}
           /\ mg[m].nfrag \in 0..MaxParts /\ mg[m].nfrag_done \in 0..MaxParts
           /\ mg[m].done \in BOOLEAN /\ mg[m].error \in BOOLEAN
           /\ mg[m].fdone \in BOOLEAN /\ mg[m].ferror \in BOOLEAN
           /\ mg[m].swallow \in BOOLEAN /\ mg[m].cut \in BOOLEAN
           /\ mg[m].peer \in {"none", "reply", "empty", "error"}
           /\ m \in Nat /\ m # None /\ m \in 1..MaxMsg
<1>2. m \in Nat /\ m # None
    BY FragmentsAssumption DEF Msg, None
<1> QED BY <1>2 DEF MsgRec, Msg

(* A message that is not live has no flag set.                             *)
LEMMA BlankMessage ==
    ASSUME NEW mg, mg \in [Msg -> MsgRec], NEW nl, NEW k, Blank(mg, nl, k),
           NEW m \in Msg, ~Live(mg, m)
    PROVE  /\ mg[m].owner = None /\ mg[m].frag_id = None /\ mg[m].frag_owner = None
           /\ mg[m].nfrag = 0 /\ mg[m].nfrag_done = 0
           /\ ~mg[m].done /\ ~mg[m].error /\ ~mg[m].fdone /\ ~mg[m].ferror
           /\ ~mg[m].swallow /\ ~mg[m].cut /\ mg[m].peer = "none"
<1> DEFINE s == mg[m].st
<1>2. /\ [NoMsg EXCEPT !.st = s].owner = None /\ [NoMsg EXCEPT !.st = s].frag_id = None
      /\ [NoMsg EXCEPT !.st = s].frag_owner = None
      /\ [NoMsg EXCEPT !.st = s].nfrag = 0 /\ [NoMsg EXCEPT !.st = s].nfrag_done = 0
      /\ ~[NoMsg EXCEPT !.st = s].done /\ ~[NoMsg EXCEPT !.st = s].error
      /\ ~[NoMsg EXCEPT !.st = s].fdone /\ ~[NoMsg EXCEPT !.st = s].ferror
      /\ ~[NoMsg EXCEPT !.st = s].swallow /\ ~[NoMsg EXCEPT !.st = s].cut
      /\ [NoMsg EXCEPT !.st = s].peer = "none"
  <2> HIDE DEF s
  <2> QED BY DEF NoMsg
<1> QED BY <1>2 DEF Blank

(* The fragments of a request in the out_q of a client: all that is next   *)
(* to each other with the same id is all there is with that id.            *)
LEMMA SiblingsAre ==
    ASSUME NEW mg, NEW nl, NEW k, Tree(mg, nl, k),
           NEW oq, NEW fm, NEW cu, NEW go, OutQueues(mg, oq, fm, cu, go),
           NEW c \in Client, NEW i \in DOMAIN oq[c], mg[oq[c][i]].frag_id # None
    PROVE  LET q == oq[c]
               m == q[i]
           IN /\ Siblings(mg, q, i) = {n \in ToSet(q) \ {m} : mg[n].frag_id = mg[m].frag_id}
              /\ Before(mg, q, i) = {n \in ToSet(q) : n < m /\ mg[n].frag_id = mg[m].frag_id}
              /\ After(mg, q, i) = {n \in ToSet(q) : n > m /\ mg[n].frag_id = mg[m].frag_id}
<1> DEFINE q == oq[c]
           m == q[i]
           f == mg[m].frag_id
<1>1. /\ DOMAIN q = 1..Len(q) /\ Len(q) \in Nat
      /\ \A x \in ToSet(q) : \E j \in 1..Len(q) : q[j] = x
      /\ \A j \in 1..Len(q) : q[j] \in ToSet(q) /\ q[j] \in Msg
    BY PlaceOf DEF OutQueues
<1>2. \A j, l \in 1..Len(q) : j < l => q[j] < q[l]
    BY DEF OutQueues, Increasing
<1>3. \A j \in 1..Len(q) : Live(mg, q[j]) /\ mg[q[j]].frag_id = mg[q[j]].frag_owner
    BY <1>1 DEF OutQueues, Tree, Groups
<1>4. \A x \in Msg : x \in Nat
    BY FragmentsAssumption DEF Msg
<1>5. i \in 1..Len(q)
    BY <1>1
<1>6. ASSUME NEW j \in 1..Len(q), NEW l \in 1..Len(q), mg[q[j]].frag_id = f,
             (q[l] <= q[j] /\ m <= q[l]) \/ (q[l] <= m /\ q[j] <= q[l])
      PROVE  mg[q[l]].frag_id = f
  <2>1. f \in Msg /\ f = mg[m].frag_owner /\ f = mg[q[j]].frag_owner /\ f # None
    <3>2. f \in Msg \cup {None}
        BY <1>1, <1>5, MessageTypes DEF Tree
    <3> QED BY <1>3, <1>6, <1>5, <3>2
  <2>0. \A x \in Msg : Live(mg, x) /\ mg[x].frag_owner # None =>
            /\ mg[x].frag_owner <= x
            /\ \A n \in mg[x].frag_owner..x : Live(mg, n) =>
                    mg[n].frag_owner = mg[x].frag_owner
      BY DEF Tree, Groups
  <2>6. m \in Msg /\ Live(mg, m) /\ q[j] \in Msg /\ Live(mg, q[j])
      BY <1>1, <1>3, <1>5
  <2>2. f <= m /\ f <= q[j]
    <3> HIDE DEF m, f, q
    <3> QED BY <2>0, <2>1, <2>6
  <2>3. /\ \A n \in f..m : Live(mg, n) => mg[n].frag_owner = f
        /\ \A n \in f..q[j] : Live(mg, n) => mg[n].frag_owner = f
    <3> HIDE DEF m, f, q
    <3> QED BY <2>0, <2>1, <2>6
  <2>4. q[l] \in Nat /\ q[j] \in Nat /\ m \in Nat /\ f \in Nat
      BY <2>1, <1>1, <1>4, <1>5
  <2>5. q[l] \in f..m \/ q[l] \in f..q[j]
    <3> HIDE DEF m, f, q
    <3> QED BY <1>6, <2>2, <2>4
  <2> QED BY <2>3, <2>5, <1>3
<1> DEFINE B == {j \in 1..(i - 1) : \A l \in j..i : mg[q[l]].frag_id = f}
           A == {j \in (i + 1)..Len(q) : \A l \in i..j : mg[q[l]].frag_id = f}
<1>7. {q[j] : j \in B} = {n \in ToSet(q) : n < m /\ mg[n].frag_id = f}
  <2>1. ASSUME NEW j \in B PROVE q[j] \in ToSet(q) /\ q[j] < m /\ mg[q[j]].frag_id = f
    <3>1. j \in 1..Len(q) /\ j < i /\ j \in j..i
        BY <1>1, <1>5
    <3> QED BY <3>1, <1>1, <1>2, <1>5
  <2>2. ASSUME NEW n \in ToSet(q), n < m, mg[n].frag_id = f
        PROVE  \E j \in B : q[j] = n
    <3>1. PICK j \in 1..Len(q) : q[j] = n
        BY <1>1
    <3>2. j < i
      <4>1. n \in Nat /\ m \in Nat
          BY <3>1, <1>1, <1>4, <1>5
      <4>2. j # i /\ ~(i < j)
          BY <2>2, <3>1, <4>1, <1>2, <1>5
      <4> QED BY <4>2, <1>1, <1>5
    <3>3. ASSUME NEW l \in j..i PROVE mg[q[l]].frag_id = f
      <4>1. l \in 1..Len(q) /\ j <= l /\ l <= i
          BY <1>1, <1>5
      <4>2. q[l] \in Nat /\ q[j] \in Nat /\ m \in Nat
          BY <4>1, <1>1, <1>4, <1>5
      <4>3. q[j] <= q[l] /\ q[l] <= m
          BY <4>1, <4>2, <1>2, <1>5
      <4>4. mg[q[j]].frag_id = f
          BY <2>2, <3>1
      <4> HIDE DEF m, f, q
      <4>5. (q[l] <= q[j] /\ m <= q[l]) \/ (q[l] <= m /\ q[j] <= q[l])
          BY <4>3
      <4>6. l \in 1..Len(q)
          BY <4>1
      <4> QED BY ONLY <4>4, <4>5, <4>6, <1>6, j \in 1..Len(q)
    <3>4. j \in B
        BY <3>2, <3>3, <1>1, <1>5
    <3> QED BY <3>1, <3>4
  <2> QED BY <2>1, <2>2
<1>8. {q[j] : j \in A} = {n \in ToSet(q) : n > m /\ mg[n].frag_id = f}
  <2>1. ASSUME NEW j \in A PROVE q[j] \in ToSet(q) /\ q[j] > m /\ mg[q[j]].frag_id = f
    <3>1. j \in 1..Len(q) /\ i < j /\ j \in i..j
        BY <1>1, <1>5
    <3>2. q[j] \in Nat /\ m \in Nat /\ m < q[j]
        BY <3>1, <1>1, <1>2, <1>4, <1>5
    <3> QED BY <3>1, <3>2, <1>1
  <2>2. ASSUME NEW n \in ToSet(q), n > m, mg[n].frag_id = f
        PROVE  \E j \in A : q[j] = n
    <3>1. PICK j \in 1..Len(q) : q[j] = n
        BY <1>1
    <3>2. i < j
      <4>1. n \in Nat /\ m \in Nat
          BY <3>1, <1>1, <1>4, <1>5
      <4>2. j # i /\ ~(j < i)
          BY <2>2, <3>1, <4>1, <1>2, <1>5
      <4> QED BY <4>2, <1>1, <1>5
    <3>3. ASSUME NEW l \in i..j PROVE mg[q[l]].frag_id = f
      <4>1. l \in 1..Len(q) /\ i <= l /\ l <= j
          BY <1>1, <1>5
      <4>2. q[l] \in Nat /\ q[j] \in Nat /\ m \in Nat
          BY <4>1, <1>1, <1>4, <1>5
      <4>3. m <= q[l] /\ q[l] <= q[j]
          BY <4>1, <4>2, <1>2, <1>5
      <4>4. mg[q[j]].frag_id = f
          BY <2>2, <3>1
      <4> HIDE DEF m, f, q
      <4>5. (q[l] <= q[j] /\ m <= q[l]) \/ (q[l] <= m /\ q[j] <= q[l])
          BY <4>3
      <4>6. l \in 1..Len(q)
          BY <4>1
      <4> QED BY ONLY <4>4, <4>5, <4>6, <1>6, j \in 1..Len(q)
    <3>4. j \in A
        BY <3>2, <3>3, <1>1, <1>5
    <3> QED BY <3>1, <3>4
  <2> QED BY <2>1, <2>2
<1>9. Before(mg, q, i) = {q[j] : j \in B} /\ After(mg, q, i) = {q[j] : j \in A}
    BY DEF Before, After
<1>10. \A n \in ToSet(q) : n \in Nat /\ m \in Nat /\ (n # m => n < m \/ n > m)
  <2>1. m \in Nat /\ \A n \in ToSet(q) : n \in Nat
      BY <1>1, <1>4, <1>5
  <2> HIDE DEF m, q
  <2> QED BY <2>1
<1> HIDE DEF A, B
<1>11. Siblings(mg, q, i) = {n \in ToSet(q) \ {m} : mg[n].frag_id = f}
  <2>1. ~(m < m) /\ ~(m > m)
      BY <1>1, <1>4, <1>5
  <2> QED BY <1>7, <1>8, <1>9, <1>10, <2>1 DEF Siblings
<1> QED
    BY <1>7, <1>8, <1>9, <1>11

-----------------------------------------------------------------------------
(* The inductive invariant of Fragments.                                   *)
IInv == /\ TypeOK
        /\ Tree(msg, nlost, nmsg)
        /\ OutQueues(msg, omsg_q, frag_msgq, cur, gone)
        /\ Waits(msg, queue, frag_msgq)
        /\ Sending(msg, omsg_q, send_msgq, cur)
        /\ Errors(msg, send_msgq)
        /\ OnWire(msg, omsg_q, wire, gone)
        /\ Places(frag_msgq, send_msgq, pc, cur, gone)

(* A live request is in the out_q of its client, or waits to be forwarded. *)
LEMMA WhereItIs ==
    ASSUME NEW mg, NEW nl, NEW k, Tree(mg, nl, k),
           NEW oq, NEW fm, NEW cu, NEW go, OutQueues(mg, oq, fm, cu, go),
           NEW m \in Msg, Live(mg, m), ~mg[m].swallow
    PROVE  /\ mg[m].owner \in Client
           /\ mg[m].done \/ m \notin ToSet(fm) => m \in ToSet(oq[mg[m].owner])
<1>2. m \in ToSet(oq[mg[m].owner]) \cup ToSet(fm)
    BY DEF OutQueues
<1>3. m \in ToSet(fm) => ~mg[m].done
    BY DEF OutQueues
<1> QED BY <1>2, <1>3 DEF Tree, Flags

(* The request of a fragment that nobody gave up, and that is not settled. *)
LEMMA OwnerIs ==
    ASSUME NEW mg, NEW nl, NEW k, Tree(mg, nl, k),
           NEW m \in Msg, Live(mg, m), mg[m].frag_owner # None,
           Live(mg, mg[m].frag_owner)
    PROVE  LET o == mg[m].frag_owner
           IN /\ o \in Msg /\ mg[o].frag_owner = o /\ mg[o].frag_id = o
              /\ mg[o].done /\ ~mg[o].swallow /\ ~mg[o].error
              /\ mg[o].owner = mg[m].owner /\ o <= m
              /\ ~mg[m].swallow
              /\ mg[m].fdone = mg[o].fdone
              /\ o # m => m \in PartsOf(mg, o)
<1> DEFINE o == mg[m].frag_owner
<1>1. o \in Msg /\ o \in Nat /\ m \in Nat
    BY MessageTypes, FragmentsAssumption DEF Tree, Msg
<1>2. o <= m
    BY DEF Tree, Groups
<1>3. o \in o..m
    BY <1>1, <1>2
<1>4. \A n \in o..m : Live(mg, n) => mg[n].frag_owner = o /\ mg[n].owner = mg[m].owner
    BY DEF Tree, Groups
<1>5. mg[o].frag_owner = o /\ mg[o].owner = mg[m].owner
  <2> HIDE DEF o
  <2> QED BY <1>3, <1>4 DEF o
<1>6. mg[o].done /\ ~mg[o].error /\ mg[o].frag_id = o
    BY <1>1, <1>5 DEF Tree, Groups
<1>7. ~mg[o].swallow
    BY <1>1, <1>6 DEF Tree, Flags
<1>9. o # m => m \in PartsOf(mg, o)
    BY DEF PartsOf
<1> QED BY <1>1, <1>2, <1>5, <1>6, <1>7, <1>9 DEF Tree, Owners

(* The fragments of a live request.                                        *)
LEMMA PartsAre ==
    ASSUME NEW mg, NEW nl, NEW k, Tree(mg, nl, k),
           NEW m \in Msg, Live(mg, m), mg[m].frag_owner = m
    PROVE  /\ mg[m].done /\ ~mg[m].error /\ ~mg[m].swallow /\ mg[m].frag_id = m
           /\ \A n \in PartsOf(mg, m) :
                 /\ n \in Msg /\ Live(mg, n) /\ mg[n].frag_owner = m /\ mg[n].frag_id = m
                 /\ ~mg[n].swallow /\ mg[n].owner = mg[m].owner
                 /\ n > m /\ n <= m + mg[m].nfrag
                 /\ mg[n].fdone = mg[m].fdone
<1>0. m # None
    BY FragmentsAssumption DEF Msg, None
<1>1. mg[m].done /\ ~mg[m].error /\ mg[m].frag_id = m
    BY DEF Tree, Groups
<1>3. ASSUME NEW n \in PartsOf(mg, m)
      PROVE  /\ n \in Msg /\ Live(mg, n) /\ mg[n].frag_owner = m /\ mg[n].frag_id = m
             /\ ~mg[n].swallow /\ mg[n].owner = mg[m].owner
             /\ n > m /\ n <= m + mg[m].nfrag
             /\ mg[n].fdone = mg[m].fdone
  <2>1. n \in Msg /\ mg[n].frag_owner = m /\ n # m
      BY DEF PartsOf
  <2>2. Live(mg, n)
      BY <1>0, <2>1, BlankMessage DEF Tree
  <2>4. /\ ~mg[n].swallow /\ mg[n].owner = mg[m].owner
        /\ m <= n /\ mg[n].fdone = mg[m].fdone
      BY <1>0, <2>1, <2>2, OwnerIs
  <2>5. n \in Nat /\ m \in Nat
      BY <2>1, FragmentsAssumption DEF Msg
  <2> QED BY <2>1, <2>2, <2>4, <2>5 DEF Tree, Groups
<1> QED BY <1>1, <1>3 DEF Tree, Flags

(* The walks over the out_q of a client meet the fragments.                *)
LEMMA Follow ==
    ASSUME IInv
    PROVE  FragmentsFollow
<1> SUFFICES ASSUME NEW c \in Client, NEW i \in DOMAIN omsg_q[c],
                    msg[omsg_q[c][i]].frag_id # None
             PROVE  LET q == omsg_q[c]
                        r == msg[q[i]]
                    IN /\ Siblings(msg, q, i) =
                             {n \in ToSet(q) \ {q[i]} : msg[n].frag_id = r.frag_id}
                       /\ IsRequest(q[i]) =>
                             /\ Before(msg, q, i) = {}
                             /\ r.fdone \/ After(msg, q, i) = Parts(q[i]) \ ToSet(frag_msgq)
    BY DEF FragmentsFollow
<1> DEFINE q == omsg_q[c]
           m == q[i]
           f == msg[m].frag_id
<1>0. Tree(msg, nlost, nmsg) /\ OutQueues(msg, omsg_q, frag_msgq, cur, gone)
    BY DEF IInv
<1>1. /\ Siblings(msg, q, i) = {n \in ToSet(q) \ {m} : msg[n].frag_id = f}
      /\ Before(msg, q, i) = {n \in ToSet(q) : n < m /\ msg[n].frag_id = f}
      /\ After(msg, q, i) = {n \in ToSet(q) : n > m /\ msg[n].frag_id = f}
    BY <1>0, SiblingsAre
<1>2. /\ m \in ToSet(q) /\ m \in Msg /\ Live(msg, m)
      /\ \A n \in ToSet(q) : /\ n \in Msg /\ Live(msg, n)
                             /\ msg[n].owner = c /\ ~msg[n].swallow
    BY <1>0, PlaceOf DEF OutQueues
<1>3. ASSUME IsRequest(m) PROVE /\ Before(msg, q, i) = {}
                                /\ After(msg, q, i) = Parts(m) \ ToSet(frag_msgq)
  <2>1. msg[m].frag_owner = m /\ f = m /\ m # None
      BY <1>0, <1>2, <1>3 DEF Tree, Groups, IsRequest
  <2>2. ASSUME NEW n \in ToSet(q), msg[n].frag_id = m PROVE m <= n /\ msg[n].frag_owner = m
      BY <2>1, <2>2, <1>0, <1>2 DEF Tree, Groups
  <2>3. \A n \in Msg : n \in Nat
      BY FragmentsAssumption DEF Msg
  <2>4. Before(msg, q, i) = {}
    <3> SUFFICES ASSUME NEW n \in ToSet(q), n < m, msg[n].frag_id = m PROVE FALSE
      <4> HIDE DEF m, f, q
      <4> QED BY <1>1, <2>1
    <3> QED BY <2>2, <2>3, <1>2
  <2>5. ASSUME NEW n \in ToSet(q), n > m, msg[n].frag_id = m
        PROVE  n \in Parts(m) \ ToSet(frag_msgq)
    <3>1. n \in Msg /\ n # m /\ msg[n].frag_owner = m
        BY <2>2, <2>3, <2>5, <1>2
    <3>2. n \notin ToSet(frag_msgq)
      <4> SUFFICES ASSUME n \in ToSet(frag_msgq) PROVE FALSE
          OBVIOUS
      <4>2. n < n
          BY <1>0, <1>2 DEF OutQueues
      <4> QED BY <4>2, <3>1, <2>3
    <3> QED BY <3>1, <3>2 DEF Parts
  <2>6. ASSUME NEW n \in Parts(m), n \notin ToSet(frag_msgq)
        PROVE  n \in ToSet(q) /\ n > m /\ msg[n].frag_id = m
      BY <2>1, <1>0, <1>2, PartsAre, <2>6, WhereItIs DEF Parts, PartsOf
  <2>7. After(msg, q, i) = Parts(m) \ ToSet(frag_msgq)
    <3> HIDE DEF m, f, q
    <3> QED BY <1>1, <2>1, <2>5, <2>6
  <2> QED BY <2>4, <2>7
<1> QED
    BY <1>1, <1>3

(* No walk meets a message that was freed.                                 *)
LEMMA Outlives ==
    ASSUME IInv
    PROVE  OwnerOutlives
<1>0. /\ Tree(msg, nlost, nmsg) /\ OutQueues(msg, omsg_q, frag_msgq, cur, gone)
      /\ Waits(msg, queue, frag_msgq)
    BY DEF IInv
<1>1. ASSUME NEW m \in Waiting PROVE msg[m].st = "live" /\ ~msg[m].done
    BY <1>0 DEF OutQueues, Live, Waits, Waiting
<1>2. ASSUME NEW m \in Msg, msg[m].st = "live", msg[m].frag_owner # None
      PROVE  msg[msg[m].frag_owner].st = "live" \/ msg[m].swallow \/ msg[m].fdone
    BY <1>2, <1>0 DEF Tree, Owners, Live
<1> QED
    BY <1>1, <1>2 DEF OwnerOutlives

(* What the invariant says of the properties.                              *)
LEMMA Properties ==
    ASSUME IInv
    PROVE  FragmentTree /\ CountsAgree /\ ResponsesWhole
<1>2. CountsAgree
    BY DEF Parts, PartsOf, IInv, Tree, CountsAgree, Counts, Live
<1>3. ResponsesWhole
    BY DEF ResponsesWhole, IInv, OnWire, Paired
<1> QED BY Follow, Outlives, <1>2, <1>3 DEF FragmentTree, IInv

-----------------------------------------------------------------------------
(* The parts of the invariant together.                                    *)
Flow(mg, nl, k, oq, qu, fm, sm, cu, go, wi) ==
    /\ Tree(mg, nl, k)
    /\ OutQueues(mg, oq, fm, cu, go)
    /\ Waits(mg, qu, fm)
    /\ Sending(mg, oq, sm, cu)
    /\ Errors(mg, sm)
    /\ OnWire(mg, oq, wi, go)

(* Fragments that are done are fewer than nfrag while one is not.          *)
LEMMA PartsBound ==
    ASSUME NEW mg, NEW nl, NEW k, Tree(mg, nl, k),
           NEW o \in Msg, Live(mg, o), mg[o].frag_owner = o
    PROVE  /\ IsFiniteSet(PartsOf(mg, o))
           /\ \A D \in SUBSET PartsOf(mg, o) :
                 /\ IsFiniteSet(D) /\ Cardinality(D) \in Nat
                 /\ Cardinality(D) <= mg[o].nfrag
                 /\ Cardinality(D) >= mg[o].nfrag => D = PartsOf(mg, o)
                 /\ \A m \in PartsOf(mg, o) \ D :
                       /\ Cardinality(D \cup {m}) = Cardinality(D) + 1
                       /\ Cardinality(D) + 1 <= mg[o].nfrag
<1> DEFINE P == PartsOf(mg, o)
           n == mg[o].nfrag
           R == (o + 1)..(o + n)
<1>1. o \in Nat /\ n \in Nat
    BY MessageTypes DEF Tree
<1>2. P \subseteq R
  <2>1. \A x \in P : x \in Msg /\ x > o /\ x <= o + n
      BY PartsAre
  <2>2. \A x \in Msg : x \in Nat
      BY FragmentsAssumption DEF Msg
  <2>3. ASSUME NEW x \in P PROVE x \in R
    <3>1. x \in Nat /\ x > o /\ x <= o + n
        BY <2>1, <2>2
    <3> HIDE DEF P, n
    <3> QED BY <3>1, <1>1
  <2> QED BY <2>3
<1>3. IsFiniteSet(R) /\ Cardinality(R) = n
  <2> HIDE DEF n
  <2>2. IsFiniteSet(R) /\ Cardinality(R) = IF o + 1 > o + n THEN 0 ELSE (o + n) - (o + 1) + 1
      BY <1>1, FS_Interval
  <2> QED BY <2>2, <1>1
<1> HIDE DEF R
<1>4. \A D \in SUBSET P : IsFiniteSet(D) /\ Cardinality(D) \in Nat /\ Cardinality(D) <= n
  <2> HIDE DEF P, n
  <2>1. ASSUME NEW D \in SUBSET P PROVE IsFiniteSet(D) /\ Cardinality(D) \in Nat /\ Cardinality(D) <= n
    <3> QED BY <1>2, <1>3, FS_Subset, FS_CardinalityType
  <2> QED BY <2>1
<1>5. ASSUME NEW D \in SUBSET P, NEW m \in P \ D
      PROVE  Cardinality(D \cup {m}) = Cardinality(D) + 1 /\ Cardinality(D) + 1 <= n
  <2> HIDE DEF P, n
  <2>2. D \cup {m} \in SUBSET P
      OBVIOUS
  <2> QED BY <1>4, FS_AddElement, <2>2
<1>6. ASSUME NEW D \in SUBSET P, Cardinality(D) >= n PROVE D = P
  <2> SUFFICES ASSUME NEW m \in P \ D PROVE FALSE
      OBVIOUS
  <2>1. Cardinality(D) + 1 <= n /\ Cardinality(D) \in Nat
      BY <1>4, <1>5
  <2> HIDE DEF n
  <2> QED BY <2>1, <1>6, <1>1
<1>7. IsFiniteSet(P)
    BY <1>4
<1> HIDE DEF P, n
<1> QED BY <1>7, <1>4, <1>5, <1>6 DEF P, n

-----------------------------------------------------------------------------
(* A message is settled: it has an answer, or it failed (rsp_forward,      *)
(* req_forward_error), and its request counts it or loses it.              *)
Settled(mg, m, e, p, counted) ==
    [x \in Msg |->
        IF x = m THEN [mg[x] EXCEPT !.done = TRUE, !.error = e, !.peer = p]
        ELSE IF x = mg[m].frag_owner /\ counted
        THEN [mg[x] EXCEPT !.nfrag_done = @ + 1] ELSE mg[x]]
LostOf(nl, mg, m, counted) ==
    IF counted \/ mg[m].frag_owner = None THEN nl
    ELSE [nl EXCEPT ![mg[m].frag_owner] = @ + 1]

(* What it changes of a message, and that it is none of the others.        *)
LEMMA SettledFields ==
    ASSUME NEW mg, mg \in [Msg -> MsgRec], NEW m \in Msg, NEW e \in BOOLEAN,
           NEW p \in {"none", "reply", "empty", "error"}, NEW counted \in BOOLEAN
    PROVE  LET new == Settled(mg, m, e, p, counted)
           IN \A x \in Msg :
               /\ new[x].st = mg[x].st /\ new[x].owner = mg[x].owner
               /\ new[x].frag_id = mg[x].frag_id /\ new[x].frag_owner = mg[x].frag_owner
               /\ new[x].nfrag = mg[x].nfrag /\ new[x].fdone = mg[x].fdone
               /\ new[x].ferror = mg[x].ferror /\ new[x].swallow = mg[x].swallow
               /\ new[x].cut = mg[x].cut
               /\ (new[x].done <=> mg[x].done \/ x = m)
               /\ new[x].error = IF x = m THEN e ELSE mg[x].error
               /\ new[x].peer = IF x = m THEN p ELSE mg[x].peer
               /\ new[x].nfrag_done = IF x # m /\ x = mg[m].frag_owner /\ counted
                                      THEN mg[x].nfrag_done + 1 ELSE mg[x].nfrag_done
               /\ mg[x].nfrag_done + 1 <= MaxParts => new[x] \in MsgRec
               /\ ~(x = mg[m].frag_owner /\ counted) => new[x] \in MsgRec
               /\ x # m /\ x # mg[m].frag_owner => new[x] = mg[x]
<1> SUFFICES ASSUME NEW x \in Msg
             PROVE LET new == Settled(mg, m, e, p, counted) IN
               /\ new[x].st = mg[x].st /\ new[x].owner = mg[x].owner
               /\ new[x].frag_id = mg[x].frag_id /\ new[x].frag_owner = mg[x].frag_owner
               /\ new[x].nfrag = mg[x].nfrag /\ new[x].fdone = mg[x].fdone
               /\ new[x].ferror = mg[x].ferror /\ new[x].swallow = mg[x].swallow
               /\ new[x].cut = mg[x].cut
               /\ (new[x].done <=> mg[x].done \/ x = m)
               /\ new[x].error = IF x = m THEN e ELSE mg[x].error
               /\ new[x].peer = IF x = m THEN p ELSE mg[x].peer
               /\ new[x].nfrag_done = IF x # m /\ x = mg[m].frag_owner /\ counted
                                      THEN mg[x].nfrag_done + 1 ELSE mg[x].nfrag_done
               /\ mg[x].nfrag_done + 1 <= MaxParts => new[x] \in MsgRec
               /\ ~(x = mg[m].frag_owner /\ counted) => new[x] \in MsgRec
               /\ x # m /\ x # mg[m].frag_owner => new[x] = mg[x]
    OBVIOUS
<1>1. mg[x] \in MsgRec
    OBVIOUS
<1>0. mg[x].done \in BOOLEAN /\ mg[x].nfrag_done \in 0..MaxParts /\ MaxParts \in Nat
    BY <1>1, FragmentsAssumption DEF MsgRec
<1>2. CASE x = m
  <2> DEFINE r == mg[x]
             s == [mg[x] EXCEPT !.done = TRUE, !.error = e, !.peer = p]
             new == Settled(mg, m, e, p, counted)
  <2>1. new[x] = s
      BY <1>2 DEF Settled
  <2>2. /\ s.st = r.st /\ s.owner = r.owner /\ s.frag_id = r.frag_id
        /\ s.frag_owner = r.frag_owner /\ s.nfrag = r.nfrag /\ s.fdone = r.fdone
        /\ s.ferror = r.ferror /\ s.swallow = r.swallow /\ s.cut = r.cut
        /\ s.done = TRUE /\ s.error = e /\ s.peer = p
        /\ s.nfrag_done = r.nfrag_done
        /\ s \in MsgRec
      BY <1>1 DEF MsgRec
  <2> HIDE DEF new, s
  <2> QED BY <1>2, <2>1, <2>2 DEF new
<1>3. CASE x # m /\ x = mg[m].frag_owner /\ counted
  <2> DEFINE r == mg[x]
             v == mg[x].nfrag_done + 1
             s == [mg[x] EXCEPT !.nfrag_done = v]
             new == Settled(mg, m, e, p, counted)
  <2>1. new[x] = s
      BY <1>3 DEF Settled
  <2>2. v <= MaxParts => v \in 0..MaxParts
      BY <1>0
  <2>3. /\ s.st = r.st /\ s.owner = r.owner /\ s.frag_id = r.frag_id
        /\ s.frag_owner = r.frag_owner /\ s.nfrag = r.nfrag /\ s.fdone = r.fdone
        /\ s.ferror = r.ferror /\ s.swallow = r.swallow /\ s.cut = r.cut
        /\ s.done = r.done /\ s.error = r.error /\ s.peer = r.peer
        /\ s.nfrag_done = v
        /\ v \in 0..MaxParts => s \in MsgRec
    <3> HIDE DEF v
    <3> QED BY <1>1 DEF MsgRec
  <2> HIDE DEF new, s
  <2> QED BY <1>0, <1>3, <2>1, <2>2, <2>3 DEF new
<1>4. CASE x # m /\ ~(x = mg[m].frag_owner /\ counted)
  <2>2. x # m /\ mg[x].done \in BOOLEAN
      BY <1>1, <1>4 DEF MsgRec
  <2> DEFINE new == Settled(mg, m, e, p, counted)
  <2>3. new[x] = mg[x]
      BY <1>4 DEF Settled
  <2> HIDE DEF new
  <2> QED BY <1>4, <2>2, <2>3, <1>1 DEF new
<1> QED
    BY <1>2, <1>3, <1>4

(* A message that is done or failed is done and counts for its request, or *)
(* is lost to it: the invariant holds between the two halves of a handler. *)
LEMMA SettleKeeps ==
    ASSUME NEW mg, NEW nl, NEW k, NEW oq, NEW qu, NEW fm, NEW sm, NEW cu, NEW go, NEW wi,
           Flow(mg, nl, k, oq, qu, fm, sm, cu, go, wi),
           NEW m \in Msg, NEW e \in BOOLEAN,
           NEW p \in {"none", "reply", "empty", "error"}, NEW counted \in BOOLEAN,
           Live(mg, m), ~mg[m].done, ~mg[m].swallow, m \notin ToSet(fm),
           \A s \in Server : m \notin ToSet(qu[s])
    PROVE  Flow(Settled(mg, m, e, p, counted), LostOf(nl, mg, m, counted),
                k, oq, qu, fm, sm, cu, go, wi)
<1> DEFINE new == Settled(mg, m, e, p, counted)
           nln == LostOf(nl, mg, m, counted)
           o == mg[m].frag_owner
<1>0. /\ Tree(mg, nl, k) /\ OutQueues(mg, oq, fm, cu, go) /\ Waits(mg, qu, fm)
      /\ Sending(mg, oq, sm, cu) /\ Errors(mg, sm) /\ OnWire(mg, oq, wi, go)
      /\ mg \in [Msg -> MsgRec] /\ nl \in [Msg -> 0..MaxParts]
    BY DEF Flow, Tree
<1>1. \A x \in Msg :
               /\ new[x].st = mg[x].st /\ new[x].owner = mg[x].owner
               /\ new[x].frag_id = mg[x].frag_id /\ new[x].frag_owner = mg[x].frag_owner
               /\ new[x].nfrag = mg[x].nfrag /\ new[x].fdone = mg[x].fdone
               /\ new[x].ferror = mg[x].ferror /\ new[x].swallow = mg[x].swallow
               /\ new[x].cut = mg[x].cut
               /\ (new[x].done <=> mg[x].done \/ x = m)
               /\ new[x].error = IF x = m THEN e ELSE mg[x].error
               /\ new[x].peer = IF x = m THEN p ELSE mg[x].peer
               /\ new[x].nfrag_done = IF x # m /\ x = o /\ counted
                                      THEN mg[x].nfrag_done + 1 ELSE mg[x].nfrag_done
    BY <1>0, SettledFields
<1>2. \A x \in Msg : Live(new, x) = Live(mg, x) /\ PartsOf(new, x) = PartsOf(mg, x)
    BY <1>1 DEF Live, PartsOf
<1>3. o \in Msg \cup {None} /\ o # m
    BY <1>0, MessageTypes DEF Tree, Groups
<1>4. ~mg[m].fdone /\ ~mg[m].ferror /\ ~mg[m].cut
    BY <1>0 DEF Tree, Flags
<1>5. o # None => /\ o \in Msg /\ Live(mg, o) /\ mg[o].frag_owner = o /\ ~mg[o].fdone
                  /\ m \in PartsOf(mg, o)
  <2> SUFFICES ASSUME o # None
               PROVE /\ o \in Msg /\ Live(mg, o) /\ mg[o].frag_owner = o /\ ~mg[o].fdone
                     /\ m \in PartsOf(mg, o)
      OBVIOUS
  <2>2. Live(mg, o)
      BY <1>0, <1>3, <1>4 DEF Tree, Owners
  <2>3. mg[o].frag_owner = o /\ mg[o].fdone = mg[m].fdone /\ m \in PartsOf(mg, o)
      BY <1>0, <1>3, <2>2, OwnerIs
  <2> QED BY <1>3, <2>2, <2>3, <1>4
<1> DEFINE D(x) == {n \in PartsOf(mg, x) : mg[n].done}
<1>6. o # None => /\ Cardinality(D(o)) = mg[o].nfrag_done + nl[o]
                  /\ Cardinality(D(o) \cup {m}) = Cardinality(D(o)) + 1
                  /\ Cardinality(D(o)) + 1 <= mg[o].nfrag
                  /\ Cardinality(D(o)) \in Nat
  <2> SUFFICES ASSUME o # None
               PROVE  /\ Cardinality(D(o)) = mg[o].nfrag_done + nl[o]
                      /\ Cardinality(D(o) \cup {m}) = Cardinality(D(o)) + 1
                      /\ Cardinality(D(o)) + 1 <= mg[o].nfrag
                      /\ Cardinality(D(o)) \in Nat
      OBVIOUS
  <2>1. Cardinality(D(o)) = mg[o].nfrag_done + nl[o]
      BY <1>0, <1>5 DEF Tree, Counts
  <2>2. D(o) \in SUBSET PartsOf(mg, o) /\ m \in PartsOf(mg, o) \ D(o)
      BY <1>5
  <2> HIDE DEF D, o
  <2>4. \A E \in SUBSET PartsOf(mg, o) :
           /\ Cardinality(E) \in Nat
           /\ \A x \in PartsOf(mg, o) \ E :
                 /\ Cardinality(E \cup {x}) = Cardinality(E) + 1
                 /\ Cardinality(E) + 1 <= mg[o].nfrag
      BY <1>5, <1>0, PartsBound
  <2> QED BY <2>1, <2>2, <2>4
<1>7. o # None => /\ mg[o].nfrag_done \in Nat /\ nl[o] \in Nat /\ mg[o].nfrag \in 0..MaxParts
                  /\ mg[o].nfrag_done + 1 <= MaxParts /\ nl[o] + 1 <= MaxParts
  <2> SUFFICES ASSUME o # None
               PROVE  /\ mg[o].nfrag_done \in Nat /\ nl[o] \in Nat /\ mg[o].nfrag \in 0..MaxParts
                      /\ mg[o].nfrag_done + 1 <= MaxParts /\ nl[o] + 1 <= MaxParts
      OBVIOUS
  <2>1. mg[o].nfrag_done \in 0..MaxParts /\ nl[o] \in 0..MaxParts /\ mg[o].nfrag \in 0..MaxParts
      BY <1>0, <1>5, MessageTypes
  <2> DEFINE a == mg[o].nfrag_done
             b == nl[o]
             d == mg[o].nfrag
             w == Cardinality(D(o))
  <2>2. w = a + b /\ w + 1 <= d /\ MaxParts \in Nat
      BY <1>6, FragmentsAssumption
  <2> HIDE DEF a, b, d, w
  <2>4. a \in Nat /\ b \in Nat /\ a + 1 <= MaxParts /\ b + 1 <= MaxParts
      BY <2>2, <2>1 DEF a, b, d
  <2> QED BY <2>1, <2>4 DEF a, b
<1>8. new \in [Msg -> MsgRec]
  <2>1. ASSUME NEW x \in Msg PROVE new[x] \in MsgRec
    <3>1. /\ mg[x].nfrag_done + 1 <= MaxParts => new[x] \in MsgRec
          /\ ~(x = o /\ counted) => new[x] \in MsgRec
        BY <1>0, SettledFields
    <3> QED BY <3>1, <1>7, FragmentsAssumption DEF None, Msg
  <2>2. new = [x \in Msg |-> new[x]]
      BY DEF Settled
  <2> HIDE DEF new
  <2> QED BY <2>1, <2>2
<1>9. nln \in [Msg -> 0..MaxParts] /\ \A x \in Msg : x # o => nln[x] = nl[x]
  <2>1. CASE counted \/ o = None
      BY <2>1, <1>0 DEF LostOf
  <2>2. CASE ~(counted \/ o = None)
    <3>1. nln = [nl EXCEPT ![o] = @ + 1] /\ o \in Msg
        BY <2>2, <1>3 DEF LostOf
    <3>2. nl[o] + 1 \in 0..MaxParts
        BY <2>2, <1>7, FragmentsAssumption
    <3> HIDE DEF nln, o
    <3> QED BY <3>1, <3>2, <1>0
  <2> QED BY <2>1, <2>2
<1> HIDE DEF new, nln
<1>10. Blank(new, nln, k)
  <2>1. ASSUME NEW x \in Msg, ~Live(new, x) PROVE new[x] = [NoMsg EXCEPT !.st = new[x].st]
    <3>1. ~Live(mg, x) /\ x # m /\ x # o
        BY <2>1, <1>2, <1>5, FragmentsAssumption DEF Msg, None
    <3>2. new[x] = mg[x]
        BY <3>1, <1>0, SettledFields DEF new
    <3> QED BY <3>1, <3>2, <1>0 DEF Tree, Blank
  <2>2. ASSUME NEW x \in Msg, x > k PROVE new[x].st = "unread" /\ nln[x] = 0
      BY <2>2, <1>0, <1>5, FragmentsAssumption, <1>1, <1>9 DEF Tree, Blank,
        Msg, None, Live
  <2> QED BY <2>1, <2>2 DEF Blank
<1>11. Flags(new)
    BY <1>0, <1>1, <1>2, <1>4 DEF Tree, Flags
<1>12. Groups(new)
  <2>1. ASSUME NEW x \in Msg, Live(new, x)
        PROVE  /\ new[x].frag_id = new[x].frag_owner
               /\ new[x].frag_owner # None => new[x].frag_owner <= x
               /\ new[x].frag_owner = x =>
                     /\ new[x].done /\ ~new[x].error
                     /\ \A n \in PartsOf(new, x) : n <= x + new[x].nfrag
      BY <2>1, <1>2, <1>0, <1>1, <1>3 DEF Tree, Groups
  <2>2. ASSUME NEW x \in Msg, Live(new, x), new[x].frag_owner # None,
               NEW n \in new[x].frag_owner..x, Live(new, n)
        PROVE  new[n].frag_owner = new[x].frag_owner /\ new[n].owner = new[x].owner
    <3>1. new[x].frag_owner = mg[x].frag_owner /\ mg[x].frag_owner \in Msg /\ Live(mg, x)
        BY <2>2, <1>0, <1>1, <1>2, MessageTypes
    <3>2. n \in Msg
        BY <3>1, FragmentsAssumption DEF Msg
    <3>4. mg[n].frag_owner = mg[x].frag_owner /\ mg[n].owner = mg[x].owner
        BY <3>1, <3>2, <2>2, <1>2, <1>0 DEF Tree, Groups
    <3> QED BY <3>1, <3>2, <3>4, <1>1
  <2> QED BY <2>1, <2>2 DEF Groups
<1>13. Owners(new)
  <2> SUFFICES ASSUME NEW x \in Msg, Live(new, x), new[x].frag_owner # None,
                      new[x].frag_owner # x
               PROVE  /\ Live(new, new[x].frag_owner) =>
                            ~new[x].swallow /\ new[x].fdone = new[new[x].frag_owner].fdone
                      /\ ~Live(new, new[x].frag_owner) => new[x].swallow \/ new[x].fdone
      BY DEF Owners
  <2> QED BY <1>0, <1>1, <1>2, MessageTypes DEF Tree, Owners
<1>14. Counts(new, nln)
  <2> SUFFICES ASSUME NEW x \in Msg, Live(new, x), new[x].frag_owner = x, ~new[x].fdone
               PROVE  Cardinality({n \in PartsOf(new, x) : new[n].done})
                          = new[x].nfrag_done + nln[x]
      BY DEF Counts
  <2>1. Live(mg, x) /\ mg[x].frag_owner = x /\ ~mg[x].fdone /\ PartsOf(new, x) = PartsOf(mg, x)
      BY <1>1, <1>2
  <2>2. Cardinality(D(x)) = mg[x].nfrag_done + nl[x]
      BY <2>1, <1>0 DEF Tree, Counts
  <2>3. x # m
      BY <2>1, <1>3
  <2>4. CASE x # o
    <3>1. new[x] = mg[x] /\ nln[x] = nl[x]
        BY <2>3, <2>4, <1>0, <1>9, SettledFields DEF new
    <3>3. \A n \in PartsOf(mg, x) : n \in Msg /\ n # m
        BY <2>4 DEF PartsOf
    <3> QED BY <3>1, <2>1, <3>3, <1>1, <2>2
  <2>5. CASE x = o
    <3>0. o # None
        BY <2>5, FragmentsAssumption DEF Msg, None
    <3>1. \A n \in PartsOf(mg, x) : n \in Msg
        BY DEF PartsOf
    <3>2. m \in PartsOf(mg, x)
        BY <3>0, <2>5, <1>5
    <3>3. {n \in PartsOf(new, x) : new[n].done} = D(x) \cup {m}
      <4> HIDE DEF o
      <4> QED BY <2>1, <3>1, <3>2, <1>1
    <3>5. new[x].nfrag_done + nln[x] = mg[x].nfrag_done + nl[x] + 1
        BY <2>3, <2>5, <1>1, <3>0, <1>7, <1>0 DEF nln, LostOf
    <3> QED BY <3>3, <2>2, <2>5, <3>0, <1>6, <1>7, <3>5
  <2> QED BY <2>4, <2>5
<1>15. Tree(new, nln, k)
    BY <1>8, <1>9, <1>10, <1>11, <1>12, <1>13, <1>14 DEF Tree
<1>16. OutQueues(new, oq, fm, cu, go)
  <2>1. ASSUME NEW c \in Client, NEW x \in ToSet(oq[c])
        PROVE  Live(new, x) /\ new[x].owner = c /\ ~new[x].swallow
    <3>2. x \in Msg
        BY <1>0, PlaceOf DEF OutQueues
    <3>3. Live(mg, x) /\ mg[x].owner = c /\ ~mg[x].swallow
        BY <1>0 DEF OutQueues
    <3> QED BY <3>2, <3>3, <1>1, <1>2
  <2>2. ASSUME NEW x \in ToSet(fm)
        PROVE  Live(new, x) /\ new[x].owner = cu /\ ~new[x].swallow /\ ~new[x].done
      BY <1>0, PlaceOf, <1>1, <1>2 DEF OutQueues
  <2>3. ASSUME NEW x \in Msg, Live(new, x), ~new[x].swallow
        PROVE  x \in ToSet(oq[new[x].owner]) \cup ToSet(fm)
      BY <2>3, <1>0, <1>1, <1>2 DEF OutQueues
  <2> QED BY <2>1, <2>2, <2>3, <1>0 DEF OutQueues
<1>17. Waits(new, qu, fm)
  <2>1. ASSUME NEW s \in Server, NEW x \in ToSet(qu[s])
        PROVE  Live(new, x) /\ ~new[x].done
      BY <1>0, PlaceOf, <1>1, <1>2 DEF Waits
  <2> QED BY <2>1, <1>0 DEF Waits
<1>18. Sending(new, oq, sm, cu)
  <2>1. ASSUME NEW x \in ToSet(sm)
        PROVE  new[x].done /\ (new[x].frag_id # None => new[x].fdone)
    <3> QED BY <1>0, PlaceOf, <1>1 DEF Sending
  <2> QED BY <2>1, <1>0 DEF Sending
<1>19. Errors(new, sm)
  <2>1. ASSUME NEW x \in Msg, Live(new, x), new[x].frag_owner # None, new[x].frag_owner # x,
               ~new[x].swallow,
               \/ ~Live(new, new[x].frag_owner) \/ new[x].frag_owner \in ToSet(sm)
               \/ new[new[x].frag_owner].cut
        PROVE  new[x].fdone /\ ~new[x].error
      BY <2>1, <1>0, <1>1, <1>2, MessageTypes, <1>4 DEF Errors
  <2>2. ASSUME NEW x \in Msg, new[x].ferror PROVE PartsOf(new, x) = {}
      BY <2>2, <1>0, <1>1, <1>2 DEF Errors
  <2>3. ASSUME NEW x \in Msg, new[x].cut \/ x \in ToSet(sm)
        PROVE  new[x].peer = "error" \/ ~new[x].error
    <3> QED BY <2>3, <1>0, <1>1, <1>4 DEF Errors, Sending
  <2> QED BY <2>1, <2>2, <2>3 DEF Errors
<1>20. OnWire(new, oq, wi, go)
  <2>1. ASSUME NEW c \in Client \ go, Halfway(wi[c])
        PROVE  First(new, oq[c], Last(wi[c]))
    <3> DEFINE h == Last(wi[c])
    <3>1. First(mg, oq[c], h)
        BY <2>1, <1>0 DEF OnWire
    <3>2. h.req \in Msg
        BY <1>0, <3>1, PlaceOf DEF OutQueues, First
    <3>3. h.req # m
        BY <3>1 DEF First
    <3> HIDE DEF h
    <3> QED BY <3>1, <3>2, <3>3, <1>1 DEF h, First
  <2>2. ASSUME NEW x \in Msg, new[x].cut
        PROVE  Halfway(wi[new[x].owner]) /\ Last(wi[new[x].owner]).req = x
      BY <2>2, <1>0, <1>1 DEF OnWire
  <2> QED BY <2>1, <2>2, <1>0 DEF OnWire
<1> QED
    BY <1>15, <1>16, <1>17, <1>18, <1>19, <1>20 DEF Flow, new, nln

-----------------------------------------------------------------------------
(* What req_done leaves of a request o whose fragments are all done: they  *)
(* are marked, and without an error (e) their responses are moved.         *)
Marked(mg, o, e) ==
    [x \in Msg |->
        IF mg[x].frag_owner # o THEN mg[x]
        ELSE IF e /\ x # o /\ mg[x].peer = "reply"
        THEN [[mg[x] EXCEPT !.fdone = TRUE] EXCEPT !.peer = "empty"]
        ELSE [mg[x] EXCEPT !.fdone = TRUE]]

(* What marking changes of a message.                                      *)
LEMMA MarkedFields ==
    ASSUME NEW mg, mg \in [Msg -> MsgRec], NEW o \in Msg, NEW e \in BOOLEAN
    PROVE  LET new == Marked(mg, o, e)
           IN /\ new \in [Msg -> MsgRec]
              /\ \A x \in Msg :
                   /\ new[x].st = mg[x].st /\ new[x].owner = mg[x].owner
                   /\ new[x].frag_id = mg[x].frag_id /\ new[x].frag_owner = mg[x].frag_owner
                   /\ new[x].nfrag = mg[x].nfrag /\ new[x].nfrag_done = mg[x].nfrag_done
                   /\ new[x].ferror = mg[x].ferror /\ new[x].swallow = mg[x].swallow
                   /\ new[x].cut = mg[x].cut /\ new[x].done = mg[x].done
                   /\ new[x].error = mg[x].error
                   /\ (new[x].fdone <=> mg[x].fdone \/ mg[x].frag_owner = o)
                   /\ new[x].peer = IF mg[x].frag_owner = o /\ e /\ x # o /\ mg[x].peer = "reply"
                                    THEN "empty" ELSE mg[x].peer
                   /\ mg[x].frag_owner # o => new[x] = mg[x]
<1> DEFINE new == Marked(mg, o, e)
<1>1. ASSUME NEW x \in Msg
      PROVE  /\ new[x] \in MsgRec
             /\ new[x].st = mg[x].st /\ new[x].owner = mg[x].owner
             /\ new[x].frag_id = mg[x].frag_id /\ new[x].frag_owner = mg[x].frag_owner
             /\ new[x].nfrag = mg[x].nfrag /\ new[x].nfrag_done = mg[x].nfrag_done
             /\ new[x].ferror = mg[x].ferror /\ new[x].swallow = mg[x].swallow
             /\ new[x].cut = mg[x].cut /\ new[x].done = mg[x].done
             /\ new[x].error = mg[x].error
             /\ (new[x].fdone <=> mg[x].fdone \/ mg[x].frag_owner = o)
             /\ new[x].peer = IF mg[x].frag_owner = o /\ e /\ x # o /\ mg[x].peer = "reply"
                              THEN "empty" ELSE mg[x].peer
             /\ mg[x].frag_owner # o => new[x] = mg[x]
  <2> DEFINE r == mg[x]
             s == [mg[x] EXCEPT !.fdone = TRUE]
             t == [s EXCEPT !.peer = "empty"]
  <2>0. r \in MsgRec /\ r.fdone \in BOOLEAN
      BY DEF MsgRec
  <2>1. /\ s.st = r.st /\ s.owner = r.owner /\ s.frag_id = r.frag_id
        /\ s.frag_owner = r.frag_owner /\ s.nfrag = r.nfrag /\ s.nfrag_done = r.nfrag_done
        /\ s.ferror = r.ferror /\ s.swallow = r.swallow /\ s.cut = r.cut
        /\ s.done = r.done /\ s.error = r.error /\ s.peer = r.peer
        /\ s.fdone = TRUE
        /\ s \in MsgRec
    <3> HIDE DEF r
    <3> QED BY <2>0 DEF MsgRec, r
  <2>2. /\ t.st = s.st /\ t.owner = s.owner /\ t.frag_id = s.frag_id
        /\ t.frag_owner = s.frag_owner /\ t.nfrag = s.nfrag /\ t.nfrag_done = s.nfrag_done
        /\ t.ferror = s.ferror /\ t.swallow = s.swallow /\ t.cut = s.cut
        /\ t.done = s.done /\ t.error = s.error /\ t.peer = "empty"
        /\ t.fdone = s.fdone
        /\ t \in MsgRec
    <3> HIDE DEF s
    <3> QED BY <2>1 DEF MsgRec
  <2>3. new[x] = IF r.frag_owner # o THEN r
                 ELSE IF e /\ x # o /\ r.peer = "reply" THEN t ELSE s
      BY DEF Marked
  <2> HIDE DEF new, s, t
  <2>4. CASE r.frag_owner # o
      BY <2>0, <2>3, <2>4
  <2>5. CASE r.frag_owner = o /\ e /\ x # o /\ r.peer = "reply"
      BY <2>1, <2>2, <2>3, <2>5
  <2>6. CASE r.frag_owner = o /\ ~(e /\ x # o /\ r.peer = "reply")
      BY <2>1, <2>3, <2>6
  <2> QED BY <2>4, <2>5, <2>6
<1>2. new = [x \in Msg |-> new[x]]
    BY DEF Marked
<1> HIDE DEF new
<1> QED BY <1>1, <1>2 DEF new

(* Marking a request and all of its fragments (what req_done leaves behind *)
(* when it answers that they are done) keeps the invariant.                *)
LEMMA MarkKeeps ==
    ASSUME NEW mg, NEW nl, NEW k, NEW oq, NEW qu, NEW fm, NEW sm, NEW cu, NEW go, NEW wi,
           Flow(mg, nl, k, oq, qu, fm, sm, cu, go, wi),
           NEW o \in Msg, Live(mg, o), mg[o].frag_owner = o, ~mg[o].fdone,
           \A n \in PartsOf(mg, o) : mg[n].done,
           NEW e \in BOOLEAN
    PROVE  Flow(Marked(mg, o, e), nl, k, oq, qu, fm, sm, cu, go, wi)
<1> DEFINE new == Marked(mg, o, e)
<1>0. /\ Tree(mg, nl, k) /\ OutQueues(mg, oq, fm, cu, go) /\ Waits(mg, qu, fm)
      /\ Sending(mg, oq, sm, cu) /\ Errors(mg, sm) /\ OnWire(mg, oq, wi, go)
      /\ mg \in [Msg -> MsgRec] /\ nl \in [Msg -> 0..MaxParts]
    BY DEF Flow, Tree
<1>1. /\ new \in [Msg -> MsgRec]
      /\ \A x \in Msg :
           /\ new[x].st = mg[x].st /\ new[x].owner = mg[x].owner
           /\ new[x].frag_id = mg[x].frag_id /\ new[x].frag_owner = mg[x].frag_owner
           /\ new[x].nfrag = mg[x].nfrag /\ new[x].nfrag_done = mg[x].nfrag_done
           /\ new[x].ferror = mg[x].ferror /\ new[x].swallow = mg[x].swallow
           /\ new[x].cut = mg[x].cut /\ new[x].done = mg[x].done
           /\ new[x].error = mg[x].error
           /\ (new[x].fdone <=> mg[x].fdone \/ mg[x].frag_owner = o)
           /\ new[x].peer = IF mg[x].frag_owner = o /\ e /\ x # o /\ mg[x].peer = "reply"
                            THEN "empty" ELSE mg[x].peer
           /\ mg[x].frag_owner # o => new[x] = mg[x]
    BY <1>0, MarkedFields
<1> HIDE DEF new
<1>2. \A x \in Msg : Live(new, x) = Live(mg, x) /\ PartsOf(new, x) = PartsOf(mg, x)
    BY <1>1 DEF Live, PartsOf
<1>3. o # None /\ mg[o].done /\ mg[o].frag_id = o
    BY <1>0, FragmentsAssumption DEF Msg, None, Tree, Groups
<1>4. \A x \in Msg : mg[x].frag_owner = o =>
          Live(mg, x) /\ mg[x].done /\ mg[x].frag_id = o /\ ~mg[x].fdone /\ ~mg[x].swallow
  <2> SUFFICES ASSUME NEW x \in Msg, mg[x].frag_owner = o
               PROVE  Live(mg, x) /\ mg[x].done /\ mg[x].frag_id = o /\ ~mg[x].fdone
                      /\ ~mg[x].swallow
      OBVIOUS
  <2>1. CASE x = o
    <3> QED BY <2>1, <1>3, <1>0, PartsAre
  <2>2. CASE x # o
      BY <2>2, <1>0, PartsAre DEF PartsOf
  <2> QED BY <2>1, <2>2
<1>5. Blank(new, nl, k)
    BY <1>1, <1>2, <1>4, <1>0 DEF Tree, Blank
<1>6. Flags(new)
  <2> SUFFICES ASSUME NEW x \in Msg, Live(new, x)
               PROVE  /\ new[x].owner \in Client
                      /\ new[x].error => new[x].done
                      /\ new[x].fdone => new[x].done /\ new[x].frag_id # None
                      /\ new[x].ferror => /\ new[x].fdone /\ new[x].frag_owner = x
                                          /\ new[x].peer = "error"
                      /\ new[x].swallow => ~new[x].done
                      /\ new[x].cut => new[x].done /\ (new[x].frag_id # None => new[x].fdone)
      BY DEF Flags
  <2>2. /\ mg[x].owner \in Client
        /\ mg[x].error => mg[x].done
        /\ mg[x].fdone => mg[x].done /\ mg[x].frag_id # None
        /\ mg[x].ferror => /\ mg[x].fdone /\ mg[x].frag_owner = x /\ mg[x].peer = "error"
        /\ mg[x].swallow => ~mg[x].done
        /\ mg[x].cut => mg[x].done /\ (mg[x].frag_id # None => mg[x].fdone)
      BY <1>2, <1>0 DEF Tree, Flags
  <2>4. mg[x].peer = "error" => new[x].peer = "error"
      BY <1>1
  <2>5. mg[x].frag_owner = o => mg[x].done /\ mg[x].frag_id # None
      BY <1>3, <1>4
  <2> QED BY <2>2, <1>1, <2>4, <2>5
<1>7. Groups(new)
  <2>1. ASSUME NEW x \in Msg, Live(new, x)
        PROVE  /\ new[x].frag_id = new[x].frag_owner
               /\ new[x].frag_owner # None => new[x].frag_owner <= x
               /\ new[x].frag_owner = x =>
                     /\ new[x].done /\ ~new[x].error
                     /\ \A n \in PartsOf(new, x) : n <= x + new[x].nfrag
      BY <2>1, <1>2, <1>0, <1>1 DEF Tree, Groups
  <2>2. ASSUME NEW x \in Msg, Live(new, x), new[x].frag_owner # None,
               NEW n \in new[x].frag_owner..x, Live(new, n)
        PROVE  new[n].frag_owner = new[x].frag_owner /\ new[n].owner = new[x].owner
    <3>1. new[x].frag_owner = mg[x].frag_owner /\ mg[x].frag_owner \in Msg /\ Live(mg, x)
        BY <2>2, <1>0, <1>1, <1>2, MessageTypes
    <3>2. n \in Msg
        BY <3>1, FragmentsAssumption DEF Msg
    <3>4. mg[n].frag_owner = mg[x].frag_owner /\ mg[n].owner = mg[x].owner
        BY <3>1, <3>2, <2>2, <1>2, <1>0 DEF Tree, Groups
    <3> QED BY <3>1, <3>2, <3>4, <1>1
  <2> QED BY <2>1, <2>2 DEF Groups
<1>8. Owners(new)
  <2> SUFFICES ASSUME NEW x \in Msg, Live(new, x), new[x].frag_owner # None,
                      new[x].frag_owner # x
               PROVE  /\ Live(new, new[x].frag_owner) =>
                            ~new[x].swallow /\ new[x].fdone = new[new[x].frag_owner].fdone
                      /\ ~Live(new, new[x].frag_owner) => new[x].swallow \/ new[x].fdone
      BY DEF Owners
  <2> DEFINE p == mg[x].frag_owner
  <2>1. new[x].frag_owner = p /\ p \in Msg /\ Live(mg, x) /\ p # None /\ p # x
      BY <1>0, <1>1, <1>2, MessageTypes
  <2>2. /\ Live(mg, p) => ~mg[x].swallow /\ mg[x].fdone = mg[p].fdone
        /\ ~Live(mg, p) => mg[x].swallow \/ mg[x].fdone
      BY <2>1, <1>0 DEF Tree, Owners
  <2>3. Live(mg, p) => mg[p].frag_owner = p
      BY <2>1, <1>0, OwnerIs
  <2>4. /\ new[x].fdone \in BOOLEAN /\ new[p].fdone \in BOOLEAN
        /\ mg[x].fdone \in BOOLEAN /\ mg[p].fdone \in BOOLEAN
      BY <2>1, <1>0, <1>1, MessageTypes
  <2>5. /\ new[x].fdone <=> mg[x].fdone \/ p = o
        /\ new[p].fdone <=> mg[p].fdone \/ mg[p].frag_owner = o
        /\ new[x].swallow = mg[x].swallow
        /\ Live(new, p) = Live(mg, p)
      BY <2>1, <1>1, <1>2
  <2> HIDE DEF p
  <2> QED BY <2>1, <2>2, <2>3, <2>4, <2>5
<1>9. Counts(new, nl)
  <2> SUFFICES ASSUME NEW x \in Msg, Live(new, x), new[x].frag_owner = x, ~new[x].fdone
               PROVE  Cardinality({n \in PartsOf(new, x) : new[n].done})
                          = new[x].nfrag_done + nl[x]
      BY DEF Counts
  <2>1. Live(mg, x) /\ mg[x].frag_owner = x /\ ~mg[x].fdone /\ PartsOf(new, x) = PartsOf(mg, x)
      BY <1>1, <1>2
  <2>3. {n \in PartsOf(new, x) : new[n].done} = {n \in PartsOf(mg, x) : mg[n].done}
      BY <2>1, <1>1 DEF PartsOf
  <2> QED BY <2>1, <1>0, <2>3, <1>1 DEF Tree, Counts
<1>10. Tree(new, nl, k)
    BY <1>0, <1>1, <1>5, <1>6, <1>7, <1>8, <1>9 DEF Tree
<1>11. OutQueues(new, oq, fm, cu, go)
  <2>1. ASSUME NEW c \in Client, NEW x \in ToSet(oq[c])
        PROVE  Live(new, x) /\ new[x].owner = c /\ ~new[x].swallow
    <3>2. x \in Msg
        BY <1>0, PlaceOf DEF OutQueues
    <3>3. Live(mg, x) /\ mg[x].owner = c /\ ~mg[x].swallow
        BY <1>0 DEF OutQueues
    <3> QED BY <3>2, <3>3, <1>1, <1>2
  <2>2. ASSUME NEW x \in ToSet(fm)
        PROVE  Live(new, x) /\ new[x].owner = cu /\ ~new[x].swallow /\ ~new[x].done
    <3>2. x \in Msg
        BY <1>0, PlaceOf DEF OutQueues
    <3>3. Live(mg, x) /\ mg[x].owner = cu /\ ~mg[x].swallow /\ ~mg[x].done
        BY <1>0 DEF OutQueues
    <3> QED BY <3>2, <3>3, <1>1, <1>2
  <2>3. ASSUME NEW x \in Msg, Live(new, x), ~new[x].swallow
        PROVE  x \in ToSet(oq[new[x].owner]) \cup ToSet(fm)
      BY <2>3, <1>0, <1>1, <1>2 DEF OutQueues
  <2> QED BY <2>1, <2>2, <2>3, <1>0 DEF OutQueues
<1>12. Waits(new, qu, fm)
  <2>1. ASSUME NEW s \in Server, NEW x \in ToSet(qu[s])
        PROVE  Live(new, x) /\ ~new[x].done
    <3> QED BY <1>0, PlaceOf, <1>1, <1>2 DEF Waits
  <2> QED BY <2>1, <1>0 DEF Waits
<1>13. Sending(new, oq, sm, cu)
  <2>1. ASSUME NEW x \in ToSet(sm)
        PROVE  new[x].done /\ (new[x].frag_id # None => new[x].fdone)
    <3> QED BY <1>0, PlaceOf, <1>1 DEF Sending
  <2> QED BY <2>1, <1>0 DEF Sending
<1>14. Errors(new, sm)
    BY <1>0, <1>1, <1>2, MessageTypes DEF Errors
<1>15. OnWire(new, oq, wi, go)
  <2>1. ASSUME NEW c \in Client \ go, Halfway(wi[c])
        PROVE  First(new, oq[c], Last(wi[c]))
    <3> DEFINE h == Last(wi[c])
    <3>1. First(mg, oq[c], h)
        BY <2>1, <1>0 DEF OnWire
    <3>2. h.req \in Msg
        BY <1>0, <3>1, PlaceOf DEF OutQueues, First
    <3>3. mg[h.req].frag_owner # o
      <4> SUFFICES ASSUME mg[h.req].frag_owner = o PROVE FALSE
          OBVIOUS
      <4> QED BY <3>2, <1>4, <3>1, <1>3 DEF First
    <3> HIDE DEF h
    <3> QED BY <3>1, <3>2, <3>3, <1>1 DEF h, First
  <2>2. ASSUME NEW x \in Msg, new[x].cut
        PROVE  Halfway(wi[new[x].owner]) /\ Last(wi[new[x].owner]).req = x
      BY <2>2, <1>1, <1>0 DEF OnWire
  <2> QED BY <2>1, <2>2, <1>0 DEF OnWire
<1> QED
    BY <1>10, <1>11, <1>12, <1>13, <1>14, <1>15 DEF Flow, new

(* A request whose fragments are counted as done has none that is not.     *)
LEMMA AllCounted ==
    ASSUME NEW mg, NEW nl, NEW k, Tree(mg, nl, k),
           NEW o \in Msg, Live(mg, o), mg[o].frag_owner = o, ~mg[o].fdone,
           mg[o].nfrag_done >= mg[o].nfrag
    PROVE  \A n \in PartsOf(mg, o) : mg[n].done
<1> DEFINE D == {n \in PartsOf(mg, o) : mg[n].done}
<1>2. mg[o].nfrag_done \in Nat /\ nl[o] \in Nat /\ mg[o].nfrag \in Nat
    BY MessageTypes DEF Tree
<1>3. Cardinality(D) >= mg[o].nfrag
    BY <1>2 DEF Tree, Counts
<1>4. D \in SUBSET PartsOf(mg, o)
    OBVIOUS
<1>5. D = PartsOf(mg, o)
  <2> HIDE DEF D
  <2> QED BY <1>3, <1>4, PartsBound
<1> QED
    BY <1>5

(* What a call of req_done leaves, on the head of out_q or when nothing is *)
(* left to forward: it marks a request and all of its fragments, or none.  *)
LEMMA CoalescedIs ==
    ASSUME NEW mg, NEW nl, NEW k, Tree(mg, nl, k),
           NEW oq, NEW fm, NEW cu, NEW go, OutQueues(mg, oq, fm, cu, go),
           NEW c \in Client, NEW i \in DOMAIN oq[c], i = 1 \/ fm = <<>>
    PROVE  LET m == oq[c][i]
               o == mg[m].frag_owner
               new == Coalesced(mg, oq[c], i)
           IN \/ /\ new = mg
                 /\ req_done(mg, oq[c], i) => /\ mg[m].done
                                              /\ mg[m].frag_id # None => mg[m].fdone
              \/ /\ o \in Msg /\ Live(mg, o) /\ mg[o].frag_owner = o /\ ~mg[o].fdone
                 /\ mg[o].frag_id = o
                 /\ mg[m].done /\ m \in Msg
                 /\ \A n \in PartsOf(mg, o) : mg[n].done
                 /\ \E e \in BOOLEAN : /\ new = Marked(mg, o, e)
                                       /\ e <=> \A n \in PartsOf(mg, o) : ~mg[n].error
<1> DEFINE q == oq[c]
           m == q[i]
           o == mg[m].frag_owner
           new == Coalesced(mg, q, i)
<1>1. /\ i \in 1..Len(q) /\ m \in ToSet(q) /\ m \in Msg /\ Live(mg, m) /\ mg[m].owner = c
      /\ ToSet(q) \subseteq Msg /\ ~mg[m].swallow /\ q \in Seq(Msg)
    BY PlaceOf DEF OutQueues
<1>2. mg[m].frag_id = o
    BY <1>1 DEF Tree, Groups
<1>3. CASE ~(mg[m].frag_id # None /\ ~mg[m].fdone /\ req_done(mg, q, i))
    BY <1>3 DEF Coalesced, req_done
<1>4. CASE mg[m].frag_id # None /\ ~mg[m].fdone /\ req_done(mg, q, i)
  <2>1. o # None /\ o \in Msg
      BY <1>1, <1>2, <1>4, MessageTypes DEF Tree
  <2>2. Live(mg, o)
      BY <1>1, <2>1, <1>4 DEF Tree, Owners
  <2>3. /\ mg[o].frag_owner = o /\ mg[o].frag_id = o /\ mg[o].done /\ ~mg[o].error
        /\ mg[o].owner = c /\ o <= m /\ mg[o].fdone = mg[m].fdone /\ ~mg[o].swallow
      BY <1>1, <2>1, <2>2, OwnerIs
  <2>4. ~mg[o].fdone
      BY <2>3, <1>4
  <2>5. o \in ToSet(q)
      BY <2>1, <2>2, <2>3, WhereItIs
  <2>6. Siblings(mg, q, i) = {n \in ToSet(q) \ {m} : mg[n].frag_id = o}
      BY <1>2, <1>4, SiblingsAre
  <2>7. /\ mg[m].done
        /\ \/ mg[m].nfrag_done >= mg[m].nfrag /\ \A n \in Siblings(mg, q, i) : mg[n].done
      BY <1>4 DEF req_done
  <2>8. fm = <<>> \/ m = o
    <3> SUFFICES ASSUME i = 1 PROVE m = o
        OBVIOUS
    <3>1. PICK j \in 1..Len(q) : q[j] = o
        BY <1>1, <2>5, PlaceOf
    <3>2. j # 1 => q[1] < q[j]
        BY <1>1, PlaceOf DEF OutQueues, Increasing
    <3>3. m \in Nat /\ o \in Nat
        BY <1>1, <2>1, FragmentsAssumption DEF Msg
    <3>4. j = 1
      <4> SUFFICES ASSUME j # 1 PROVE FALSE
          OBVIOUS
      <4>1. m < o /\ o <= m
          BY <3>1, <3>2, <2>3
      <4> HIDE DEF m, o
      <4> QED BY <3>3, <4>1
    <3> QED BY <3>1, <3>4
  <2>9. ASSUME NEW n \in PartsOf(mg, o) PROVE mg[n].done
    <3>1. CASE m = o
      <4> HIDE DEF m, o
      <4> QED BY <3>1, <2>1, <2>2, <2>3, <2>4, <2>7, AllCounted
    <3>2. CASE fm = <<>>
        BY <2>1, <2>2, <2>3, PartsAre, <3>2, WhereItIs, <2>6, <2>7 DEF ToSet
    <3> QED BY <3>1, <3>2, <2>8
  <2> DEFINE all == {m} \cup Siblings(mg, q, i)
  <2>10. \A x \in Msg : x \in all <=> mg[x].frag_owner = o
    <3>1. ASSUME NEW x \in Msg, x \in all PROVE mg[x].frag_owner = o
        BY <3>1, <2>6 DEF OutQueues, Tree, Groups
    <3>2. ASSUME NEW x \in Msg, mg[x].frag_owner = o PROVE x \in all
        BY <2>3, <2>5, <2>6, <3>2, <2>1, <2>2, <2>9, PartsAre, WhereItIs DEF
          PartsOf
    <3> QED BY <3>1, <3>2
  <2> DEFINE marked == [x \in Msg |-> IF x \in all THEN [mg[x] EXCEPT !.fdone = TRUE] ELSE mg[x]]
  <2>11. new = IF \E x \in all : mg[x].error THEN marked ELSE post_coalesce(marked, all)
      BY <1>4 DEF Coalesced
  <2>12. all \subseteq Msg
      BY <1>1, <2>6
  <2>13. (\E x \in all : mg[x].error) <=> \E n \in PartsOf(mg, o) : mg[n].error
    <3>1. ASSUME NEW x \in all, mg[x].error PROVE x \in PartsOf(mg, o)
        BY <2>10, <2>12, <2>3, <3>1 DEF PartsOf
    <3>2. ASSUME NEW n \in PartsOf(mg, o) PROVE n \in all
        BY <2>10 DEF PartsOf
    <3> HIDE DEF all
    <3> QED BY <3>1, <3>2
  <2>14. \A x \in Msg : mg[x].frag_owner = marked[x].frag_owner /\ mg[x].peer = marked[x].peer
    <3> SUFFICES ASSUME NEW x \in Msg
                 PROVE  mg[x].frag_owner = marked[x].frag_owner /\ mg[x].peer = marked[x].peer
        OBVIOUS
    <3>1. mg[x] \in MsgRec
        BY DEF Tree
    <3> HIDE DEF all
    <3> QED BY <3>1 DEF MsgRec
  <2>15. CASE \E x \in all : mg[x].error
    <3>2. marked = Marked(mg, o, FALSE)
      <4> HIDE DEF all, o
      <4> QED BY <2>10 DEF Marked
    <3>3. FALSE <=> \A n \in PartsOf(mg, o) : ~mg[n].error
        BY <2>13, <2>15
    <3>4. new = Marked(mg, o, FALSE)
        BY <2>11, <2>15, <3>2
    <3>5. \E e \in BOOLEAN : new = Marked(mg, o, e) /\ (e <=> \A n \in PartsOf(mg, o) : ~mg[n].error)
      <4> HIDE DEF new, o
      <4> QED BY <3>3, <3>4
    <3>6. mg[m].done /\ m \in Msg
        BY <2>7, <1>1
    <3>7. /\ o \in Msg /\ Live(mg, o) /\ mg[o].frag_owner = o /\ ~mg[o].fdone
          /\ mg[o].frag_id = o
          /\ mg[m].done /\ m \in Msg
          /\ \A n \in PartsOf(mg, o) : mg[n].done
          /\ \E e \in BOOLEAN : /\ new = Marked(mg, o, e)
                                /\ e <=> \A n \in PartsOf(mg, o) : ~mg[n].error
      <4> HIDE DEF new, m, o, q
      <4> QED BY <3>5, <3>6, <2>1, <2>2, <2>3, <2>4, <2>9
    <3> QED BY <3>7
  <2>16. CASE ~\E x \in all : mg[x].error
    <3>2. post_coalesce(marked, all) = Marked(mg, o, TRUE)
      <4>1. ASSUME NEW x \in Msg
            PROVE  post_coalesce(marked, all)[x] = Marked(mg, o, TRUE)[x]
        <5>1. marked[x] = IF x \in all THEN [mg[x] EXCEPT !.fdone = TRUE] ELSE mg[x]
            OBVIOUS
        <5>2. post_coalesce(marked, all)[x] =
                 IF x \in all /\ mg[x].frag_owner # x /\ mg[x].peer = "reply"
                 THEN [marked[x] EXCEPT !.peer = "empty"] ELSE marked[x]
            BY <2>14 DEF post_coalesce
        <5>3. x \in all <=> mg[x].frag_owner = o
            BY <2>10
        <5> HIDE DEF all, marked, o
        <5> QED BY <5>1, <5>2, <5>3 DEF Marked
      <4>2. /\ post_coalesce(marked, all) = [x \in Msg |-> post_coalesce(marked, all)[x]]
            /\ Marked(mg, o, TRUE) = [x \in Msg |-> Marked(mg, o, TRUE)[x]]
          BY DEF post_coalesce, Marked
      <4> HIDE DEF marked, all, o
      <4> QED BY <4>1, <4>2
    <3>3. TRUE <=> \A n \in PartsOf(mg, o) : ~mg[n].error
        BY <2>13, <2>16
    <3>4. new = Marked(mg, o, TRUE)
        BY <2>11, <2>16, <3>2
    <3>5. \E e \in BOOLEAN : new = Marked(mg, o, e) /\ (e <=> \A n \in PartsOf(mg, o) : ~mg[n].error)
      <4> HIDE DEF new, o
      <4> QED BY <3>3, <3>4
    <3>6. mg[m].done /\ m \in Msg
        BY <2>7, <1>1
    <3>7. /\ o \in Msg /\ Live(mg, o) /\ mg[o].frag_owner = o /\ ~mg[o].fdone
          /\ mg[o].frag_id = o
          /\ mg[m].done /\ m \in Msg
          /\ \A n \in PartsOf(mg, o) : mg[n].done
          /\ \E e \in BOOLEAN : /\ new = Marked(mg, o, e)
                                /\ e <=> \A n \in PartsOf(mg, o) : ~mg[n].error
      <4> HIDE DEF new, m, o, q
      <4> QED BY <3>5, <3>6, <2>1, <2>2, <2>3, <2>4, <2>9
    <3> QED BY <3>7
  <2> QED BY <2>15, <2>16
<1> QED
    BY <1>3, <1>4

(* A call of req_done keeps the invariant, and its answer holds behind it. *)
LEMMA CoalesceKeeps ==
    ASSUME NEW mg, NEW nl, NEW k, NEW oq, NEW qu, NEW fm, NEW sm, NEW cu, NEW go, NEW wi,
           Flow(mg, nl, k, oq, qu, fm, sm, cu, go, wi),
           NEW c \in Client, NEW i \in DOMAIN oq[c], i = 1 \/ fm = <<>>
    PROVE  LET m == oq[c][i]
               new == Coalesced(mg, oq[c], i)
           IN /\ Flow(new, nl, k, oq, qu, fm, sm, cu, go, wi)
              /\ req_done(mg, oq[c], i) => /\ new[m].done
                                           /\ new[m].frag_id # None => new[m].fdone
<1> DEFINE q == oq[c]
           m == q[i]
           o == mg[m].frag_owner
           new == Coalesced(mg, q, i)
           A == /\ new = mg
                /\ req_done(mg, q, i) => mg[m].done /\ (mg[m].frag_id # None => mg[m].fdone)
           B == /\ o \in Msg /\ Live(mg, o) /\ mg[o].frag_owner = o /\ ~mg[o].fdone
                /\ mg[o].frag_id = o
                /\ mg[m].done /\ m \in Msg
                /\ \A n \in PartsOf(mg, o) : mg[n].done
                /\ \E e \in BOOLEAN : /\ new = Marked(mg, o, e)
                                      /\ e <=> \A n \in PartsOf(mg, o) : ~mg[n].error
<1>0. Tree(mg, nl, k) /\ OutQueues(mg, oq, fm, cu, go) /\ mg \in [Msg -> MsgRec]
    BY DEF Flow, Tree
<1>2. CASE A
    BY <1>2
<1>3. CASE B
  <2>0. B
      BY <1>3
  <2>1. o \in Msg /\ Live(mg, o) /\ mg[o].frag_owner = o /\ ~mg[o].fdone
        /\ mg[m].done /\ m \in Msg /\ \A n \in PartsOf(mg, o) : mg[n].done
    <3> HIDE DEF o, m, q, new
    <3> QED BY <2>0
  <2>2. PICK e \in BOOLEAN : new = Marked(mg, o, e)
    <3> HIDE DEF o, m, q, new
    <3> QED BY <2>0
  <2> HIDE DEF new, A, B
  <2>3. Flow(new, nl, k, oq, qu, fm, sm, cu, go, wi)
    <3> HIDE DEF o
    <3> QED BY <2>1, <2>2, MarkKeeps
  <2>4. new[m].done /\ new[m].fdone
    <3> DEFINE mk == Marked(mg, o, e)
    <3>1. mk[m].done = mg[m].done /\ (mk[m].fdone <=> mg[m].fdone \/ mg[m].frag_owner = o)
      <4> HIDE DEF o
      <4>1. \A x \in Msg : /\ mk[x].done = mg[x].done
                           /\ (mk[x].fdone <=> mg[x].fdone \/ mg[x].frag_owner = o)
          BY <1>0, <2>1, MarkedFields
      <4> HIDE DEF m, mk
      <4> QED BY <4>1, <2>1
    <3> HIDE DEF mk
    <3> QED BY <3>1, <2>2, <2>1 DEF mk
  <2> QED BY <2>3, <2>4 DEF new
<1> QED BY <1>0, CoalescedIs, <1>2, <1>3

(* With nothing to forward or to send, it does not matter whose turn it is. *)
LEMMA AnyTurn ==
    ASSUME NEW mg, NEW nl, NEW k, NEW oq, NEW qu, NEW cu, NEW go, NEW wi,
           Flow(mg, nl, k, oq, qu, <<>>, <<>>, cu, go, wi),
           NEW c \in Client \cup {None}
    PROVE  Flow(mg, nl, k, oq, qu, <<>>, <<>>, c, go, wi)
<1>1. OutQueues(mg, oq, <<>>, c, go)
  <2> QED BY DEF Flow, OutQueues, ToSet
<1> QED BY <1>1 DEF Flow, Sending

(* The first of what is to be forwarded goes to the end of out_q.          *)
LEMMA HeadFacts ==
    ASSUME NEW T, NEW q \in Seq(T), q # <<>>
    PROVE  /\ Head(q) \in T /\ Head(q) = q[1] /\ Tail(q) \in Seq(T)
           /\ Len(Tail(q)) = Len(q) - 1
           /\ \A i \in 1..(Len(q) - 1) : Tail(q)[i] = q[i + 1]
           /\ Head(q) \in ToSet(q) /\ ToSet(q) = {Head(q)} \cup ToSet(Tail(q))
           /\ IsInjective(q) => IsInjective(Tail(q)) /\ Head(q) \notin ToSet(Tail(q))
           /\ T \subseteq Int /\ Increasing(q) =>
                 /\ Increasing(Tail(q))
                 /\ \A x \in ToSet(Tail(q)) : Head(q) < x
<1>1. /\ Len(q) \in Nat /\ Len(q) # 0 /\ DOMAIN q = 1..Len(q)
      /\ \A x \in ToSet(q) : \E i \in 1..Len(q) : q[i] = x
      /\ \A i \in 1..Len(q) : q[i] \in ToSet(q) /\ q[i] \in T
    BY PlaceOf
<1>2. /\ Head(q) = q[1] /\ Tail(q) \in Seq(T) /\ Len(Tail(q)) = Len(q) - 1
      /\ \A i \in 1..(Len(q) - 1) : Tail(q)[i] = q[i + 1]
    OBVIOUS
<1>3. 1 \in 1..Len(q)
    BY <1>1
<1>4. /\ \A x \in ToSet(Tail(q)) : \E i \in 1..(Len(q) - 1) : Tail(q)[i] = x
      /\ \A i \in 1..(Len(q) - 1) : Tail(q)[i] \in ToSet(Tail(q))
      /\ DOMAIN Tail(q) = 1..(Len(q) - 1)
    BY <1>2, PlaceOf
<1>5. ToSet(q) = {Head(q)} \cup ToSet(Tail(q))
  <2>1. ASSUME NEW x \in ToSet(q), x # Head(q) PROVE x \in ToSet(Tail(q))
    <3>1. PICK i \in 1..Len(q) : q[i] = x
        BY <1>1
    <3>2. i # 1 /\ i - 1 \in 1..(Len(q) - 1) /\ (i - 1) + 1 = i
        BY <3>1, <2>1, <1>1, <1>2
    <3> QED BY <3>2, <3>1, <1>2, <1>4
  <2>2. ASSUME NEW x \in ToSet(Tail(q)) PROVE x \in ToSet(q)
    <3>1. PICK i \in 1..(Len(q) - 1) : Tail(q)[i] = x
        BY <1>4
    <3> QED BY <3>1, <1>1, <1>2
  <2> QED BY <2>1, <2>2, <1>1, <1>2, <1>3
<1>6. ASSUME IsInjective(q)
      PROVE  IsInjective(Tail(q)) /\ Head(q) \notin ToSet(Tail(q))
  <2>1. \A i, j \in 1..Len(q) : q[i] = q[j] => i = j
      BY <1>6, <1>1 DEF IsInjective
  <2>2. ASSUME NEW i \in 1..(Len(q) - 1), NEW j \in 1..(Len(q) - 1),
               Tail(q)[i] = Tail(q)[j]
        PROVE  i = j
      BY <2>2, <1>1, <1>2, <2>1
  <2>4. ASSUME Head(q) \in ToSet(Tail(q)) PROVE FALSE
    <3>1. PICK i \in 1..(Len(q) - 1) : Tail(q)[i] = Head(q)
        BY <2>4, <1>4
    <3>3. i + 1 = 1
        BY <3>1, <1>1, <1>2, <1>3, <2>1
    <3> QED BY <3>3
  <2> QED BY <2>2, <1>4, <2>4 DEF IsInjective
<1>7. ASSUME T \subseteq Int, Increasing(q)
      PROVE  Increasing(Tail(q)) /\ \A x \in ToSet(Tail(q)) : Head(q) < x
  <2>1. \A i, j \in 1..Len(q) : i < j => q[i] < q[j]
      BY <1>7 DEF Increasing
  <2>2. ASSUME NEW i \in 1..Len(Tail(q)), NEW j \in 1..Len(Tail(q)), i < j
        PROVE  Tail(q)[i] < Tail(q)[j]
      BY <2>2, <1>1, <1>2, <2>1
  <2>3. ASSUME NEW x \in ToSet(Tail(q)) PROVE Head(q) < x
    <3>1. PICK i \in 1..(Len(q) - 1) : Tail(q)[i] = x
        BY <1>4
    <3>2. i + 1 \in 1..Len(q) /\ 1 < i + 1 /\ q[i + 1] = x
        BY <3>1, <1>1, <1>2
    <3> QED BY <3>2, <1>3, <2>1, <1>2
  <2> QED BY <2>2, <2>3 DEF Increasing
<1> QED
    BY <1>2, <1>1, <1>3, <1>5, <1>6, <1>7

(* The first message to forward goes to the end of out_q, and perhaps of a *)
(* server's queue (NextForward, req_forward).                              *)
Pushed(oq, cu, fm) == [oq EXCEPT ![cu] = Append(@, Head(fm))]

(* Messages are numbers.                                                   *)
LEMMA SeqOfInts ==
    ASSUME NEW q \in Seq(Msg)
    PROVE  q \in Seq(Int)
<1>1. Len(q) \in Nat /\ q \in [1..Len(q) -> Msg]
    OBVIOUS
<1> QED BY <1>1, SeqDef DEF Msg

(* What was to be forwarded is in out_q, behind what arrived earlier.      *)
LEMMA MoveKeeps ==
    ASSUME NEW mg, NEW nl, NEW k, NEW oq, NEW qu, NEW fm, NEW cu, NEW go, NEW wi,
           Flow(mg, nl, k, oq, qu, fm, <<>>, cu, go, wi),
           fm # <<>>, cu \in Client \ go
    PROVE  /\ Flow(mg, nl, k, Pushed(oq, cu, fm), qu, Tail(fm), <<>>, cu, go, wi)
           /\ \A s \in Server :
                 Flow(mg, nl, k, Pushed(oq, cu, fm), [qu EXCEPT ![s] = Append(@, Head(fm))],
                      Tail(fm), <<>>, cu, go, wi)
           /\ Head(fm) \in Msg /\ Live(mg, Head(fm)) /\ ~mg[Head(fm)].done
           /\ ~mg[Head(fm)].swallow /\ Head(fm) \notin ToSet(Tail(fm))
           /\ \A s \in Server : Head(fm) \notin ToSet(qu[s])
<1> DEFINE m == Head(fm)
           oq2 == Pushed(oq, cu, fm)
           fm2 == Tail(fm)
<1>0. /\ Tree(mg, nl, k) /\ OutQueues(mg, oq, fm, cu, go) /\ Waits(mg, qu, fm)
      /\ Sending(mg, oq, <<>>, cu) /\ Errors(mg, <<>>) /\ OnWire(mg, oq, wi, go)
    BY DEF Flow
<1>1. /\ oq \in [Client -> Seq(Msg)] /\ fm \in Seq(Msg) /\ Increasing(fm)
      /\ \A c \in Client : Increasing(oq[c])
      /\ Msg \subseteq Int
    BY <1>0 DEF OutQueues, Msg
<1>2. /\ m \in Msg /\ fm2 \in Seq(Msg) /\ ToSet(fm) = {m} \cup ToSet(fm2) /\ m \in ToSet(fm)
      /\ Increasing(fm2) /\ \A x \in ToSet(fm2) : m < x
    BY <1>1, HeadFacts
<1>3. /\ Live(mg, m) /\ mg[m].owner = cu /\ ~mg[m].swallow /\ ~mg[m].done
      /\ \A n \in ToSet(oq[cu]) : n < m
    BY <1>0, <1>2 DEF OutQueues
<1>4. /\ oq2 \in [Client -> Seq(Msg)]
      /\ oq2[cu] = Append(oq[cu], m)
      /\ ToSet(oq2[cu]) = ToSet(oq[cu]) \cup {m}
      /\ Len(oq2[cu]) = Len(oq[cu]) + 1
      /\ \A c \in Client \ {cu} : oq2[c] = oq[c]
      /\ Increasing(oq2[cu])
  <2>1. oq[cu] \in Seq(Msg) /\ oq[cu] \in Seq(Int)
    <3> QED BY <1>1, SeqOfInts
  <2>2. Append(oq[cu], m) \in Seq(Msg) /\ ToSet(Append(oq[cu], m)) = ToSet(oq[cu]) \cup {m}
        /\ Len(Append(oq[cu], m)) = Len(oq[cu]) + 1
    <3> HIDE DEF m
    <3> QED BY <2>1, <1>2, AppendFacts
  <2>3. Increasing(Append(oq[cu], m))
    <3> HIDE DEF m
    <3> QED BY <2>1, <1>1, <1>2, <1>3, IncreasingAppend
  <2>4. oq2 = [oq EXCEPT ![cu] = Append(oq[cu], m)]
      BY DEF Pushed
  <2> HIDE DEF m, oq2
  <2> QED BY <2>2, <2>3, <2>4, <1>1
<1> HIDE DEF m, oq2, fm2
<1>5. OutQueues(mg, oq2, fm2, cu, go)
  <2>1. ASSUME NEW c \in Client
        PROVE  /\ Increasing(oq2[c])
               /\ \A x \in ToSet(oq2[c]) : Live(mg, x) /\ mg[x].owner = c /\ ~mg[x].swallow
               /\ c \in go => oq2[c] = <<>>
    <3>1. CASE c = cu
        BY <3>1, <1>0, <1>3, <1>4 DEF OutQueues
    <3>2. CASE c # cu
        BY <3>2, <1>0, <1>4 DEF OutQueues
    <3> QED BY <3>1, <3>2
  <2>2. ASSUME NEW x \in ToSet(fm2)
        PROVE  /\ Live(mg, x) /\ mg[x].owner = cu /\ ~mg[x].swallow /\ ~mg[x].done
               /\ \A n \in ToSet(oq2[cu]) : n < x
      BY <1>0, <1>2, <1>4 DEF OutQueues
  <2>3. ASSUME NEW x \in Msg, Live(mg, x), ~mg[x].swallow
        PROVE  x \in ToSet(oq2[mg[x].owner]) \cup ToSet(fm2)
      BY <2>3, <1>0, <1>2, <1>3, <1>4 DEF OutQueues, Tree, Flags
  <2> QED BY <2>1, <2>2, <2>3, <1>2, <1>4 DEF OutQueues
<1>6. Sending(mg, oq2, <<>>, cu)
    BY <1>0 DEF Sending
<1>7. OnWire(mg, oq2, wi, go)
  <2>1. ASSUME NEW c \in Client \ go, Halfway(wi[c])
        PROVE  First(mg, oq2[c], Last(wi[c]))
    <3>1. First(mg, oq[c], Last(wi[c]))
        BY <2>1, <1>0 DEF OnWire
    <3>2. oq2[c] # <<>> /\ oq2[c][1] = oq[c][1]
      <4>1. CASE c # cu
          BY <4>1, <3>1, <1>4 DEF First
      <4>2. CASE c = cu
          BY <4>2, <3>1, <1>1, <1>2, <1>4 DEF First
      <4> QED BY <4>1, <4>2
    <3> QED BY <3>1, <3>2 DEF First
  <2> QED BY <2>1, <1>0 DEF OnWire
<1>8. \A s \in Server : m \notin ToSet(qu[s])
    BY <1>0, <1>2 DEF Waits
<1>9. Waits(mg, qu, fm2)
    BY <1>0, <1>2 DEF Waits
<1>10. m \notin ToSet(fm2)
    BY <1>1, <1>2
<1>11. ASSUME NEW s \in Server PROVE Waits(mg, [qu EXCEPT ![s] = Append(@, m)], fm2)
  <2> DEFINE qu2 == [qu EXCEPT ![s] = Append(@, m)]
  <2>1. qu \in [Server -> Seq(Msg)]
      BY <1>0 DEF Waits
  <2>2. /\ qu2[s] = Append(qu[s], m) /\ \A t \in Server \ {s} : qu2[t] = qu[t]
        /\ qu2 \in [Server -> Seq(Msg)]
      BY <2>1, <1>2
  <2>3. ToSet(qu2[s]) = ToSet(qu[s]) \cup {m} /\ IsInjective(qu2[s])
      BY <1>0, <2>1, <2>2, <1>2, <1>8, AppendFacts DEF Waits
  <2> HIDE DEF qu2
  <2>4. ASSUME NEW t \in Server
        PROVE  /\ IsInjective(qu2[t])
               /\ \A x \in ToSet(qu2[t]) :
                     /\ Live(mg, x) /\ ~mg[x].done /\ x \notin ToSet(fm2)
                     /\ \A u \in Server \ {t} : x \notin ToSet(qu2[u])
    <3>2. ASSUME NEW x \in ToSet(qu2[t])
          PROVE  Live(mg, x) /\ ~mg[x].done /\ x \notin ToSet(fm2)
        BY <1>3, <1>10, <3>2, <2>2, <2>3, <1>9 DEF Waits
    <3>3. ASSUME NEW x \in ToSet(qu2[t]), NEW u \in Server \ {t}, x \in ToSet(qu2[u])
          PROVE  FALSE
      <4>1. CASE x = m
        <5> QED BY <4>1, <3>3, <2>2, <1>8
      <4>2. CASE x # m
        <5>1. x \in ToSet(qu[t]) /\ x \in ToSet(qu[u])
          <6>1. \A v \in Server : x \in ToSet(qu2[v]) => x \in ToSet(qu[v])
              BY <4>2, <2>2, <2>3
          <6> QED BY <3>3, <6>1
        <5> QED BY <5>1, <1>0 DEF Waits
      <4> QED BY <4>1, <4>2
    <3> QED BY <2>2, <2>3, <1>0, <3>2, <3>3 DEF Waits
  <2> QED BY <2>2, <2>4 DEF qu2, Waits
<1>12. Flow(mg, nl, k, oq2, qu, fm2, <<>>, cu, go, wi)
    BY <1>0, <1>5, <1>6, <1>7, <1>9 DEF Flow
<1>13. ASSUME NEW s \in Server
       PROVE Flow(mg, nl, k, oq2, [qu EXCEPT ![s] = Append(@, m)], fm2, <<>>, cu, go, wi)
    BY <1>0, <1>5, <1>6, <1>7, <1>11 DEF Flow
<1> QED BY <1>12, <1>13, <1>2, <1>3, <1>8, <1>10 DEF m, oq2, fm2

(* IInv is its parts and the ranges of what is left.                       *)
LEMMA IInvIs ==
    ASSUME IInv
    PROVE  /\ Flow(msg, nlost, nmsg, omsg_q, queue, frag_msgq, send_msgq, cur, gone, wire)
           /\ Places(frag_msgq, send_msgq, pc, cur, gone)
           /\ gone \subseteq Client /\ nmsg \in 0..MaxMsg /\ nfault \in 0..MaxFault
           /\ msg \in [Msg -> MsgRec] /\ cur \in Client \cup {None}
           /\ omsg_q \in [Client -> Seq(Msg)] /\ queue \in [Server -> Seq(Msg)]
           /\ frag_msgq \in Seq(Msg) /\ send_msgq \in Seq(Msg)
    BY DEF IInv, Flow, TypeOK

(* The same of the next state.                                             *)
LEMMA IInvNext ==
    ASSUME Flow(msg', nlost', nmsg', omsg_q', queue', frag_msgq', send_msgq', cur', gone',
                wire'),
           Places(frag_msgq', send_msgq', pc', cur', gone'),
           pc' \in {"loop", "forward", "send", "crash"},
           gone' \subseteq Client, nmsg' \in 0..MaxMsg, nfault' \in 0..MaxFault
    PROVE  IInv'
    BY DEF IInv, Flow, TypeOK, Tree, OutQueues, Waits, Sending, OnWire

(* Failures stay below their bound.                                        *)
LEMMA FaultyIs ==
    ASSUME IInv, Faulty
    PROVE  nfault' \in 0..MaxFault
<1> QED BY FragmentsAssumption DEF Faulty, IInv, TypeOK

(* The rest of a step that forwards.                                       *)
LEMMA ForwardNext ==
    ASSUME IInv, pc = "forward", NextForward, nfault' \in 0..MaxFault,
           Flow(msg', nlost', nmsg, Pushed(omsg_q, cur, frag_msgq), queue',
                Tail(frag_msgq), <<>>, cur, gone, wire)
    PROVE  IInv'
<1>1. /\ Places(frag_msgq, send_msgq, pc, cur, gone)
      /\ gone \subseteq Client /\ nmsg \in 0..MaxMsg
    BY IInvIs
<1>2. send_msgq = <<>> /\ cur \in Client \ gone
    BY <1>1 DEF Places
<1>3. /\ omsg_q' = Pushed(omsg_q, cur, frag_msgq) /\ frag_msgq' = Tail(frag_msgq)
      /\ send_msgq' = <<>> /\ gone' = gone /\ nmsg' = nmsg /\ wire' = wire
    BY <1>2 DEF NextForward, Pushed
<1>4. CASE Tail(frag_msgq) = <<>>
  <2>1. cur' = None /\ pc' = "loop"
      BY <1>4 DEF NextForward
  <2>3. Flow(msg', nlost', nmsg, Pushed(omsg_q, cur, frag_msgq), queue', <<>>, <<>>,
             None, gone, wire)
      BY <1>4, AnyTurn
  <2>5. Places(frag_msgq', send_msgq', pc', cur', gone')
      BY <2>1, <1>3, <1>4 DEF Places
  <2> QED BY <2>1, <2>3, <1>3, <1>4, <2>5, <1>1, IInvNext
<1>5. CASE Tail(frag_msgq) # <<>>
    BY <1>5, <1>3, <1>2, <1>1, IInvNext DEF NextForward, Places
<1> QED
    BY <1>4, <1>5

(* What a step that forwards starts from.                                  *)
LEMMA ForwardStart ==
    ASSUME IInv, pc = "forward"
    PROVE  /\ Flow(msg, nlost, nmsg, omsg_q, queue, frag_msgq, <<>>, cur, gone, wire)
           /\ frag_msgq # <<>> /\ cur \in Client \ gone
           /\ msg \in [Msg -> MsgRec]
<1>1. /\ Places(frag_msgq, send_msgq, pc, cur, gone)
      /\ Flow(msg, nlost, nmsg, omsg_q, queue, frag_msgq, send_msgq, cur, gone, wire)
      /\ msg \in [Msg -> MsgRec]
    BY IInvIs
<1> QED BY <1>1 DEF Places

(* A message is forwarded to a server (req_forward).                       *)
LEMMA ForwardKeeps ==
    ASSUME IInv, NEW s \in Server, req_forward(s)
    PROVE  IInv'
<1>1. pc = "forward" /\ NextForward /\ msg' = msg /\ nfault' = nfault /\ nlost' = nlost
      /\ queue' = [queue EXCEPT ![s] = Append(@, Head(frag_msgq))]
    BY DEF req_forward
<1>3. Flow(msg', nlost', nmsg, Pushed(omsg_q, cur, frag_msgq), queue', Tail(frag_msgq), <<>>,
           cur, gone, wire)
    BY <1>1, ForwardStart, MoveKeeps
<1> QED BY <1>1, <1>3, IInvIs, ForwardNext

(* The message that fails is settled, and then the head of out_q is asked. *)
LEMMA FailKeeps ==
    ASSUME IInv, pc = "forward", NEW counted \in BOOLEAN
    PROVE  LET m == Head(frag_msgq)
               failed == Settled(msg, m, TRUE, msg[m].peer, counted)
           IN Flow(Coalesced(failed, Append(omsg_q[cur], m), 1),
                   LostOf(nlost, msg, m, counted), nmsg, Pushed(omsg_q, cur, frag_msgq),
                   queue, Tail(frag_msgq), <<>>, cur, gone, wire)
<1> DEFINE m == Head(frag_msgq)
           failed == Settled(msg, m, TRUE, msg[m].peer, counted)
           nl == LostOf(nlost, msg, m, counted)
           oq == Pushed(omsg_q, cur, frag_msgq)
           fm == Tail(frag_msgq)
<1>1. /\ Flow(msg, nlost, nmsg, omsg_q, queue, frag_msgq, <<>>, cur, gone, wire)
      /\ frag_msgq # <<>> /\ cur \in Client \ gone
      /\ msg \in [Msg -> MsgRec]
    BY ForwardStart
<1>2. /\ Flow(msg, nlost, nmsg, oq, queue, fm, <<>>, cur, gone, wire)
      /\ m \in Msg /\ Live(msg, m) /\ ~msg[m].done
      /\ ~msg[m].swallow /\ m \notin ToSet(fm)
      /\ \A s \in Server : m \notin ToSet(queue[s])
    BY <1>1, MoveKeeps
<1>3. msg[m].peer \in {"none", "reply", "empty", "error"}
    BY <1>1, <1>2, MessageTypes
<1>4. Flow(failed, nl, nmsg, oq, queue, fm, <<>>, cur, gone, wire)
  <2> HIDE DEF oq, fm, m
  <2> QED BY <1>2, <1>3, SettleKeeps
<1>5. oq[cur] = Append(omsg_q[cur], m) /\ 1 \in DOMAIN oq[cur]
  <2>1. omsg_q \in [Client -> Seq(Msg)]
      BY IInvIs
  <2>2. oq[cur] = Append(omsg_q[cur], m)
      BY <1>1, <2>1 DEF Pushed
  <2>3. omsg_q[cur] \in Seq(Msg)
      BY <1>1, <2>1
  <2> HIDE DEF oq, m
  <2> QED BY <2>2, <2>3, <1>2
<1> HIDE DEF failed, nl, oq, fm
<1> QED BY <1>5, <1>1, <1>4, CoalesceKeeps DEF failed, nl, oq, fm

(* A fragment that is not done is not the request.                         *)
LEMMA NotOwner ==
    ASSUME NEW mg, NEW nl, NEW k, Tree(mg, nl, k), NEW m \in Msg, Live(mg, m), ~mg[m].done
    PROVE  mg[m].frag_owner # m
    BY DEF Tree, Groups

(* No server is found for what is forwarded: it is settled with an error.  *)
LEMMA NowhereIs ==
    ASSUME IInv, ForwardNowhere
    PROVE  LET m == Head(frag_msgq)
           IN /\ pc = "forward" /\ NextForward /\ nlost' = nlost /\ queue' = queue /\ Faulty
              /\ m \in Msg /\ Live(msg, m) /\ ~msg[m].done /\ ~msg[m].swallow
              /\ msg' = Coalesced(Settled(msg, m, TRUE, msg[m].peer, TRUE),
                                  Append(omsg_q[cur], m), 1)
<1> DEFINE m == Head(frag_msgq)
           o == msg[m].frag_owner
<1>1. pc = "forward" /\ NextForward /\ nlost' = nlost /\ queue' = queue /\ Faulty
      /\ msg' = Coalesced([Counted(msg, m) EXCEPT ![m].done = TRUE, ![m].error = TRUE],
                          Append(omsg_q[cur], m), 1)
    BY DEF ForwardNowhere, req_forward_error
<1>2. /\ Flow(msg, nlost, nmsg, omsg_q, queue, frag_msgq, <<>>, cur, gone, wire)
      /\ frag_msgq # <<>> /\ cur \in Client \ gone
      /\ msg \in [Msg -> MsgRec]
    BY <1>1, ForwardStart
<1>3. m \in Msg /\ Live(msg, m) /\ ~msg[m].done /\ ~msg[m].swallow
    BY <1>2, MoveKeeps
<1>4. o # m /\ o \in Msg \cup {None}
  <2> QED BY <1>2, <1>3, NotOwner, MessageTypes DEF Flow
<1>5. [Counted(msg, m) EXCEPT ![m].done = TRUE, ![m].error = TRUE]
          = Settled(msg, m, TRUE, msg[m].peer, TRUE)
  <2> HIDE DEF m
  <2>1. [msg[m] EXCEPT !.done = TRUE, !.error = TRUE, !.peer = msg[m].peer]
           = [msg[m] EXCEPT !.done = TRUE, !.error = TRUE]
    <3> QED BY <1>2, <1>3 DEF MsgRec
  <2>2. CASE o = None
    <3>1. Counted(msg, m) = msg
        BY <2>2 DEF Counted
    <3>2. \A x \in Msg : x # o
        BY <2>2, FragmentsAssumption DEF Msg, None
    <3> DEFINE a == [msg EXCEPT ![m].done = TRUE, ![m].error = TRUE]
               b == Settled(msg, m, TRUE, msg[m].peer, TRUE)
    <3>3. ASSUME NEW x \in Msg PROVE a[x] = b[x]
        BY <2>1, <3>2, <1>2, <1>3 DEF Settled
    <3>4. a = [x \in Msg |-> a[x]] /\ b = [x \in Msg |-> b[x]]
        BY <1>2, <1>3 DEF Settled
    <3> HIDE DEF a, b
    <3> QED BY <3>1, <3>3, <3>4 DEF a, b
  <2>3. CASE o # None
    <3>1. o \in Msg
        BY <2>3, <1>4
    <3>2. Counted(msg, m) = [msg EXCEPT ![o].nfrag_done = @ + 1]
        BY <2>3 DEF Counted
    <3> DEFINE w == [msg EXCEPT ![o].nfrag_done = @ + 1]
               a == [w EXCEPT ![m].done = TRUE, ![m].error = TRUE]
               b == Settled(msg, m, TRUE, msg[m].peer, TRUE)
    <3> HIDE DEF o
    <3>3. \A x \in Msg : w[x] = IF x = o THEN [msg[x] EXCEPT !.nfrag_done = @ + 1] ELSE msg[x]
        BY <3>1, <1>2
    <3>4. w = [x \in Msg |-> w[x]]
        BY <1>2
    <3> HIDE DEF w
    <3>5. ASSUME NEW x \in Msg PROVE a[x] = b[x]
        BY <2>1, <3>4, <1>3, <3>3, <1>4 DEF Settled, o
    <3>6. a = [x \in Msg |-> a[x]] /\ b = [x \in Msg |-> b[x]]
        BY <3>4, <1>3 DEF Settled
    <3> HIDE DEF a, b
    <3> QED BY <3>2, <3>5, <3>6 DEF a, b, w
  <2> QED BY <2>2, <2>3
<1> QED
    BY <1>1, <1>3, <1>5

(* No server is found for it, or none answers: it fails and counts         *)
(* (ForwardNowhere).                                                       *)
LEMMA NowhereKeeps ==
    ASSUME IInv, ForwardNowhere
    PROVE  IInv'
<1> DEFINE m == Head(frag_msgq)
<1>1. /\ pc = "forward" /\ NextForward /\ nlost' = nlost /\ queue' = queue /\ Faulty
      /\ msg' = Coalesced(Settled(msg, m, TRUE, msg[m].peer, TRUE),
                          Append(omsg_q[cur], m), 1)
    BY NowhereIs
<1>6. LostOf(nlost, msg, m, TRUE) = nlost
    BY DEF LostOf
<1>7. Flow(Coalesced(Settled(msg, m, TRUE, msg[m].peer, TRUE), Append(omsg_q[cur], m), 1),
           LostOf(nlost, msg, m, TRUE), nmsg, Pushed(omsg_q, cur, frag_msgq),
           queue, Tail(frag_msgq), <<>>, cur, gone, wire)
    BY <1>1, FailKeeps
<1>8. Flow(msg', nlost', nmsg, Pushed(omsg_q, cur, frag_msgq), queue', Tail(frag_msgq), <<>>,
           cur, gone, wire)
  <2> HIDE DEF m
  <2> QED BY <1>1, <1>6, <1>7
<1> QED BY <1>1, <1>8, FaultyIs, ForwardNext

(* A server cannot be written to: it is settled with an error, and lost.   *)
LEMMA UnwritableIs ==
    ASSUME IInv, ForwardUnwritable
    PROVE  LET m == Head(frag_msgq)
           IN /\ pc = "forward" /\ NextForward /\ queue' = queue /\ Faulty
              /\ nlost' = LostOf(nlost, msg, m, FALSE)
              /\ m \in Msg /\ Live(msg, m) /\ ~msg[m].done /\ ~msg[m].swallow
              /\ msg' = Coalesced(Settled(msg, m, TRUE, msg[m].peer, FALSE),
                                  Append(omsg_q[cur], m), 1)
<1> DEFINE m == Head(frag_msgq)
<1>1. pc = "forward" /\ NextForward /\ queue' = queue /\ Faulty
      /\ msg' = Coalesced([msg EXCEPT ![m].done = TRUE, ![m].error = TRUE],
                          Append(omsg_q[cur], m), 1)
      /\ nlost' = LostOf(nlost, msg, m, FALSE)
    BY DEF ForwardUnwritable, req_forward_error, LostOf
<1>2. /\ Flow(msg, nlost, nmsg, omsg_q, queue, frag_msgq, <<>>, cur, gone, wire)
      /\ frag_msgq # <<>> /\ cur \in Client \ gone
      /\ msg \in [Msg -> MsgRec]
    BY <1>1, ForwardStart
<1>3. m \in Msg /\ Live(msg, m) /\ ~msg[m].done /\ ~msg[m].swallow
    BY <1>2, MoveKeeps
<1>5. [msg EXCEPT ![m].done = TRUE, ![m].error = TRUE]
          = Settled(msg, m, TRUE, msg[m].peer, FALSE)
  <2> HIDE DEF m
  <2>1. [msg[m] EXCEPT !.done = TRUE, !.error = TRUE, !.peer = msg[m].peer]
           = [msg[m] EXCEPT !.done = TRUE, !.error = TRUE]
    <3> QED BY <1>2, <1>3 DEF MsgRec
  <2> DEFINE a == [msg EXCEPT ![m].done = TRUE, ![m].error = TRUE]
             b == Settled(msg, m, TRUE, msg[m].peer, FALSE)
  <2>3. ASSUME NEW x \in Msg PROVE a[x] = b[x]
      BY <2>1, <1>2, <1>3 DEF Settled
  <2>4. a = [x \in Msg |-> a[x]] /\ b = [x \in Msg |-> b[x]]
      BY <1>2, <1>3 DEF Settled
  <2> HIDE DEF a, b
  <2> QED BY <2>3, <2>4 DEF a, b
<1> QED
    BY <1>1, <1>3, <1>5

(* The server cannot be written to: it fails and does not count            *)
(* (ForwardUnwritable).                                                    *)
LEMMA UnwritableKeeps ==
    ASSUME IInv, ForwardUnwritable
    PROVE  IInv'
<1> DEFINE m == Head(frag_msgq)
<1>1. /\ pc = "forward" /\ NextForward /\ queue' = queue /\ Faulty
      /\ nlost' = LostOf(nlost, msg, m, FALSE)
      /\ msg' = Coalesced(Settled(msg, m, TRUE, msg[m].peer, FALSE),
                          Append(omsg_q[cur], m), 1)
    BY UnwritableIs
<1>7. Flow(Coalesced(Settled(msg, m, TRUE, msg[m].peer, FALSE), Append(omsg_q[cur], m), 1),
           LostOf(nlost, msg, m, FALSE), nmsg, Pushed(omsg_q, cur, frag_msgq),
           queue, Tail(frag_msgq), <<>>, cur, gone, wire)
    BY <1>1, FailKeeps
<1>8. Flow(msg', nlost', nmsg, Pushed(omsg_q, cur, frag_msgq), queue', Tail(frag_msgq), <<>>,
           cur, gone, wire)
  <2> HIDE DEF m
  <2> QED BY <1>1, <1>7
<1> QED BY <1>1, <1>8, FaultyIs, ForwardNext

(* Servers have less to answer.                                            *)
LEMMA FewerWait ==
    ASSUME NEW mg, NEW qu, NEW fm, Waits(mg, qu, fm),
           NEW qn, qn \in [Server -> Seq(Msg)],
           \A s \in Server : IsInjective(qn[s]) /\ ToSet(qn[s]) \subseteq ToSet(qu[s])
    PROVE  Waits(mg, qn, fm)
<1>1. ASSUME NEW s \in Server
      PROVE  /\ IsInjective(qn[s])
             /\ \A m \in ToSet(qn[s]) :
                   /\ Live(mg, m) /\ ~mg[m].done /\ m \notin ToSet(fm)
                   /\ \A t \in Server \ {s} : m \notin ToSet(qn[t])
    BY DEF Waits
<1> QED
    BY <1>1 DEF Waits

(* The first message of a server's queue leaves it.                        *)
LEMMA HeadLeaves ==
    ASSUME NEW mg, NEW qu, NEW fm, Waits(mg, qu, fm),
           NEW s \in Server, qu[s] # <<>>
    PROVE  LET qn == [qu EXCEPT ![s] = Tail(@)]
               m == Head(qu[s])
           IN /\ qn \in [Server -> Seq(Msg)]
              /\ \A t \in Server : IsInjective(qn[t]) /\ ToSet(qn[t]) \subseteq ToSet(qu[t])
              /\ \A t \in Server : m \notin ToSet(qn[t])
              /\ m \in Msg /\ Live(mg, m) /\ ~mg[m].done /\ m \notin ToSet(fm)
<1> DEFINE qn == [qu EXCEPT ![s] = Tail(@)]
           m == Head(qu[s])
<1>1. qu \in [Server -> Seq(Msg)] /\ qu[s] \in Seq(Msg)
    BY DEF Waits
<1>3. /\ Head(qu[s]) \in Msg /\ Tail(qu[s]) \in Seq(Msg) /\ Head(qu[s]) \in ToSet(qu[s])
      /\ ToSet(qu[s]) = {Head(qu[s])} \cup ToSet(Tail(qu[s]))
      /\ IsInjective(Tail(qu[s])) /\ Head(qu[s]) \notin ToSet(Tail(qu[s]))
    BY <1>1, HeadFacts DEF Waits
<1>4. /\ qn[s] = Tail(qu[s]) /\ \A t \in Server \ {s} : qn[t] = qu[t]
      /\ qn \in [Server -> Seq(Msg)]
    BY <1>1, <1>3
<1> HIDE DEF qn, m
<1>6. m \in Msg /\ Live(mg, m) /\ ~mg[m].done /\ m \notin ToSet(fm) /\ m \in ToSet(qu[s])
    BY <1>3 DEF Waits, m
<1>7. ASSUME NEW t \in Server PROVE m \notin ToSet(qn[t])
    BY <1>3, <1>4, <1>6 DEF m, Waits
<1> QED BY <1>4, <1>3, <1>6, <1>7 DEF qn, m, Waits

(* A response settles its request, and counts for the request it is of.    *)
LEMMA PairedIs ==
    ASSUME NEW mg, mg \in [Msg -> MsgRec], NEW m \in Msg, ~mg[m].error,
           mg[m].frag_id = mg[m].frag_owner, mg[m].frag_owner # m,
           NEW failed \in BOOLEAN
    PROVE  pre_coalesce([mg EXCEPT ![m].done = TRUE, ![m].peer = "reply"], m, failed)
              = Settled(mg, m, mg[m].frag_owner # None /\ failed, "reply", TRUE)
<1> DEFINE o == mg[m].frag_owner
           r == [mg[m] EXCEPT !.done = TRUE, !.peer = "reply"]
           p == [mg EXCEPT ![m].done = TRUE, ![m].peer = "reply"]
           b == Settled(mg, m, o # None /\ failed, "reply", TRUE)
<1>0. o \in Msg \cup {None} /\ mg[m] \in MsgRec /\ mg[m].error = FALSE
    BY MessageTypes
<1>1. /\ r.frag_id = o /\ r.frag_owner = o /\ r.error = FALSE
      /\ [mg[m] EXCEPT !.done = TRUE, !.error = FALSE, !.peer = "reply"] = r
      /\ \A f \in BOOLEAN : [mg[m] EXCEPT !.done = TRUE, !.error = f, !.peer = "reply"]
                               = [r EXCEPT !.error = f]
    BY <1>0 DEF MsgRec
<1>2. /\ p = [x \in Msg |-> p[x]]
      /\ \A x \in Msg : p[x] = IF x = m THEN r ELSE mg[x]
    OBVIOUS
<1>3. /\ b = [x \in Msg |-> b[x]]
      /\ \A x \in Msg : b[x] =
            IF x = m THEN [mg[x] EXCEPT !.done = TRUE, !.error = (o # None /\ failed),
                                        !.peer = "reply"]
            ELSE IF x = o THEN [mg[x] EXCEPT !.nfrag_done = @ + 1] ELSE mg[x]
    BY DEF Settled
<1> HIDE DEF b, p, r, o
<1>4. CASE o = None
  <2>2. ASSUME NEW x \in Msg PROVE p[x] = b[x]
    <3>1. x # o
        BY <1>4, FragmentsAssumption DEF Msg, None
    <3> QED BY <3>1, <1>4, <1>1, <1>2, <1>3
  <2>3. p = b
      BY <2>2, <1>2, <1>3
  <2> QED BY <1>1, <1>2, <1>4, <2>3 DEF p, b, o, pre_coalesce
<1>5. CASE o # None
  <2> DEFINE w == [p EXCEPT ![o].nfrag_done = @ + 1]
             a == [w EXCEPT ![m].error = @ \/ failed]
  <2>1. o \in Msg /\ o # m
      BY <1>0, <1>5 DEF o
  <2>2. /\ \A x \in Msg : w[x] = IF x = o THEN [mg[x] EXCEPT !.nfrag_done = @ + 1] ELSE p[x]
        /\ w = [x \in Msg |-> w[x]]
      BY <2>1, <1>2
  <2>3. pre_coalesce(p, m, failed) = a
    <3>1. p[m] = r
        BY <1>2
    <3>2. Counted(p, m) = w
        BY <3>1, <1>1, <1>5 DEF Counted
    <3> HIDE DEF w
    <3> QED BY <3>1, <3>2, <1>1, <1>5 DEF pre_coalesce
  <2> HIDE DEF w
  <2>4. /\ \A x \in Msg : a[x] = IF x = m THEN [w[m] EXCEPT !.error = @ \/ failed] ELSE w[x]
        /\ a = [x \in Msg |-> a[x]]
      BY <2>2
  <2>6. [w[m] EXCEPT !.error = @ \/ failed] = [r EXCEPT !.error = failed]
      BY <2>1, <2>2, <1>2, <1>1
  <2> HIDE DEF a
  <2>7. ASSUME NEW x \in Msg PROVE a[x] = b[x]
    <3>1. CASE x = m
      <4>2. b[x] = [r EXCEPT !.error = failed]
          BY <3>1, <1>5, <1>1, <1>3
      <4> QED BY <3>1, <4>2, <2>4, <2>6
    <3>2. CASE x # m
      <4>1. a[x] = w[x]
          BY <3>2, <2>4
      <4> QED BY <3>2, <4>1, <2>2, <1>2, <1>3
    <3> QED BY <3>1, <3>2
  <2> QED BY <2>3, <2>4, <2>7, <1>3 DEF p, b, o
<1> QED
    BY <1>4, <1>5

(* Between two handlers nothing is forwarded or sent.                      *)
LEMMA LoopStart ==
    ASSUME IInv, pc = "loop"
    PROVE  /\ Flow(msg, nlost, nmsg, omsg_q, queue, <<>>, <<>>, None, gone, wire)
           /\ frag_msgq = <<>> /\ send_msgq = <<>> /\ cur = None
           /\ msg \in [Msg -> MsgRec]
<1>1. /\ Flow(msg, nlost, nmsg, omsg_q, queue, frag_msgq, send_msgq, cur, gone, wire)
      /\ Places(frag_msgq, send_msgq, pc, cur, gone)
      /\ msg \in [Msg -> MsgRec]
    BY IInvIs
<1> QED BY <1>1 DEF Places

(* A handler that only changes what the loop may change goes back to it.   *)
LEMMA LoopNext ==
    ASSUME IInv, pc = "loop", UNCHANGED <<frag_msgq, send_msgq, pc, cur>>,
           Flow(msg', nlost', nmsg', omsg_q', queue', <<>>, <<>>, None, gone', wire'),
           gone' \subseteq Client, nmsg' \in 0..MaxMsg, nfault' \in 0..MaxFault
    PROVE  IInv'
<1>1. frag_msgq' = <<>> /\ send_msgq' = <<>> /\ cur' = None /\ pc' = "loop"
    BY LoopStart
<1>3. Places(frag_msgq', send_msgq', pc', cur', gone')
    BY <1>1 DEF Places
<1> QED BY <1>1, <1>3, IInvNext

(* A response settles the head of a server's queue.                        *)
LEMMA ResponseIs ==
    ASSUME IInv, NEW s \in Server, NEW failed \in BOOLEAN, rsp_forward(s, failed)
    PROVE  LET m == Head(queue[s])
               c == msg[m].owner
               e == msg[m].frag_owner # None /\ failed
           IN /\ pc = "loop" /\ queue[s] # <<>> /\ c \in Client
              /\ m \in Msg /\ Live(msg, m) /\ ~msg[m].done /\ ~msg[m].swallow
              /\ msg' = HeadChecked(Settled(msg, m, e, "reply", TRUE), c)
              /\ queue' = [queue EXCEPT ![s] = Tail(@)]
              /\ UNCHANGED <<omsg_q, frag_msgq, send_msgq, pc, cur, gone, nmsg, nlost, wire>>
<1> DEFINE m == Head(queue[s])
           c == msg[m].owner
           e == msg[m].frag_owner # None /\ failed
           settled == Settled(msg, m, e, "reply", TRUE)
<1>1. /\ pc = "loop" /\ queue[s] # <<>> /\ ~msg[m].swallow
      /\ msg' = HeadChecked(pre_coalesce([msg EXCEPT ![m].done = TRUE, ![m].peer = "reply"],
                                         m, failed), c)
      /\ queue' = [queue EXCEPT ![s] = Tail(@)]
      /\ UNCHANGED <<omsg_q, frag_msgq, send_msgq, pc, cur, gone, nmsg, nlost, wire>>
    BY DEF rsp_forward
<1>2. /\ Flow(msg, nlost, nmsg, omsg_q, queue, <<>>, <<>>, None, gone, wire)
      /\ msg \in [Msg -> MsgRec]
    BY <1>1, LoopStart
<1>3. Tree(msg, nlost, nmsg) /\ Waits(msg, queue, <<>>)
    BY <1>2 DEF Flow
<1>4. m \in Msg /\ Live(msg, m) /\ ~msg[m].done
    BY <1>1, <1>3, HeadLeaves
<1> HIDE DEF m
<1>5. pre_coalesce([msg EXCEPT ![m].done = TRUE, ![m].peer = "reply"], m, failed) = settled
    BY <1>3, <1>4, NotOwner, <1>2, PairedIs DEF Tree, Flags, Groups
<1>6. c \in Client
    BY <1>3, <1>4 DEF Tree, Flags
<1> HIDE DEF settled
<1> QED
    BY <1>1, <1>4, <1>5, <1>6 DEF m, settled

(* A response settles the head of a server's queue (rsp_forward).          *)
LEMMA ResponseKeeps ==
    ASSUME IInv, NEW s \in Server, NEW failed \in BOOLEAN, rsp_forward(s, failed),
           nfault' \in 0..MaxFault
    PROVE  IInv'
<1> DEFINE m == Head(queue[s])
           c == msg[m].owner
           qn == [queue EXCEPT ![s] = Tail(@)]
           e == msg[m].frag_owner # None /\ failed
           settled == Settled(msg, m, e, "reply", TRUE)
<1>1. /\ pc = "loop" /\ queue[s] # <<>> /\ ~msg[m].swallow /\ c \in Client
      /\ msg' = HeadChecked(settled, c)
      /\ queue' = qn
      /\ UNCHANGED <<omsg_q, frag_msgq, send_msgq, pc, cur, gone, nmsg, nlost, wire>>
    BY ResponseIs
<1>2. /\ Flow(msg, nlost, nmsg, omsg_q, queue, <<>>, <<>>, None, gone, wire)
      /\ msg \in [Msg -> MsgRec]
    BY <1>1, LoopStart
<1>3. Tree(msg, nlost, nmsg) /\ Waits(msg, queue, <<>>)
    BY <1>2 DEF Flow
<1>4. /\ qn \in [Server -> Seq(Msg)]
      /\ \A t \in Server : IsInjective(qn[t]) /\ ToSet(qn[t]) \subseteq ToSet(queue[t])
      /\ \A t \in Server : m \notin ToSet(qn[t])
      /\ m \in Msg /\ Live(msg, m) /\ ~msg[m].done /\ m \notin ToSet(<<>>)
    BY <1>1, <1>3, HeadLeaves
<1>5. Waits(msg, qn, <<>>)
  <2> HIDE DEF qn
  <2> QED BY <1>3, <1>4, FewerWait
<1> HIDE DEF qn, m
<1>6. Flow(msg, nlost, nmsg, omsg_q, qn, <<>>, <<>>, None, gone, wire)
    BY <1>2, <1>5 DEF Flow
<1>7. Flow(settled, LostOf(nlost, msg, m, TRUE), nmsg, omsg_q, qn, <<>>, <<>>, None, gone, wire)
  <2>1. e \in BOOLEAN
      OBVIOUS
  <2> HIDE DEF e
  <2> QED BY <2>1, <1>1, <1>4, <1>6, SettleKeeps
<1>8. Flow(settled, nlost, nmsg, omsg_q, qn, <<>>, <<>>, None, gone, wire)
  <2>1. LostOf(nlost, msg, m, TRUE) = nlost
      BY DEF LostOf
  <2> HIDE DEF settled
  <2> QED BY <2>1, <1>7
<1> HIDE DEF settled, c
<1>11. Flow(HeadChecked(settled, c), nlost, nmsg, omsg_q, qn, <<>>, <<>>, None, gone, wire)
  <2>1. CASE omsg_q[c] = <<>>
      BY <2>1, <1>8 DEF HeadChecked
  <2>2. CASE omsg_q[c] # <<>>
    <3>1. 1 \in DOMAIN omsg_q[c]
      <4> QED BY <1>1, IInvIs, <2>2
    <3>3. Flow(Coalesced(settled, omsg_q[c], 1), nlost, nmsg, omsg_q, qn, <<>>, <<>>, None,
               gone, wire)
        BY <3>1, <1>8, <1>1, CoalesceKeeps
    <3> QED BY <2>2, <3>3 DEF HeadChecked
  <2> QED BY <2>1, <2>2
<1>13. gone' \subseteq Client /\ nmsg' \in 0..MaxMsg
    BY <1>1, IInvIs
<1> QED BY <1>1, <1>11, <1>13, LoopNext

(* A server forgets what waits there (server_close).                       *)
LEMMA ServerCloseKeeps ==
    ASSUME IInv, NEW s \in Server, server_close(s)
    PROVE  IInv'
<1> DEFINE qn == [queue EXCEPT ![s] = <<>>]
<1>1. /\ pc = "loop" /\ Faulty /\ queue' = qn
      /\ UNCHANGED <<msg, omsg_q, frag_msgq, send_msgq, pc, cur, gone, nmsg, nlost, wire>>
    BY DEF server_close
<1>2. Flow(msg, nlost, nmsg, omsg_q, queue, <<>>, <<>>, None, gone, wire)
    BY <1>1, LoopStart
<1>3. Waits(msg, queue, <<>>) /\ queue \in [Server -> Seq(Msg)]
    BY <1>2 DEF Flow, Waits
<1>4. /\ qn \in [Server -> Seq(Msg)] /\ qn[s] = <<>>
      /\ \A t \in Server \ {s} : qn[t] = queue[t]
    BY <1>3
<1>5. ToSet(<<>>) = {} /\ IsInjective(<<>>)
    BY DEF ToSet, IsInjective
<1> HIDE DEF qn
<1>7. Waits(msg, qn, <<>>)
    BY <1>3, <1>4, <1>5, FewerWait DEF Waits
<1>9. gone' \subseteq Client /\ nmsg' \in 0..MaxMsg /\ nfault' \in 0..MaxFault
    BY <1>1, IInvIs, FaultyIs
<1> QED BY <1>1, <1>2, <1>7, <1>9, LoopNext DEF Flow

(* A client becomes writable (core_send).                                  *)
LEMMA CoreSendKeeps ==
    ASSUME IInv, NEW c \in Client, core_send(c)
    PROVE  IInv'
<1>1. /\ pc = "loop" /\ c \notin gone /\ pc' = "send" /\ cur' = c
      /\ UNCHANGED <<msg, omsg_q, queue, frag_msgq, send_msgq, gone, nmsg, nfault, nlost, wire>>
    BY DEF core_send
<1>2. /\ Flow(msg, nlost, nmsg, omsg_q, queue, <<>>, <<>>, None, gone, wire)
      /\ frag_msgq = <<>> /\ send_msgq = <<>>
    BY <1>1, LoopStart
<1>4. Flow(msg', nlost', nmsg', omsg_q', queue', frag_msgq', send_msgq', cur', gone', wire')
    BY <1>1, <1>2, AnyTurn
<1> QED BY <1>1, <1>4, <1>2, IInvIs, IInvNext DEF Places

(* The loop goes on, or the process dies, with nothing gathered.           *)
LEMMA StopKeeps ==
    ASSUME IInv, pc = "send", send_msgq = <<>>, pc' \in {"loop", "crash"}, cur' = None,
           UNCHANGED <<msg, omsg_q, queue, frag_msgq, send_msgq, gone, nmsg, nfault, nlost,
                       wire>>
    PROVE  IInv'
<1>1. /\ Flow(msg, nlost, nmsg, omsg_q, queue, frag_msgq, send_msgq, cur, gone, wire)
      /\ Places(frag_msgq, send_msgq, pc, cur, gone)
    BY IInvIs
<1>2. frag_msgq = <<>>
    BY <1>1 DEF Places
<1>4. Flow(msg', nlost', nmsg', omsg_q', queue', frag_msgq', send_msgq', cur', gone', wire')
    BY <1>2, <1>1, AnyTurn
<1> QED BY <1>4, <1>2, IInvIs, IInvNext DEF Places

(* Messages are freed (S), or left to be swallowed (W).                    *)
Removed(mg, S, W) ==
    [x \in Msg |-> IF x \in S THEN put(mg[x])
                   ELSE IF x \in W THEN [mg[x] EXCEPT !.swallow = TRUE] ELSE mg[x]]

(* What it changes of a message, and that it is none of the others.        *)
LEMMA RemovedFields ==
    ASSUME NEW mg, mg \in [Msg -> MsgRec], NEW S, NEW W
    PROVE  LET new == Removed(mg, S, W)
           IN /\ new \in [Msg -> MsgRec]
              /\ \A x \in Msg : x \in S =>
                    /\ ~Live(new, x) /\ new[x] = [NoMsg EXCEPT !.st = new[x].st]
                    /\ new[x].frag_owner = None /\ ~new[x].done /\ ~new[x].ferror
                    /\ ~new[x].cut /\ new[x].st = "freed"
              /\ \A x \in Msg : x \notin S /\ x \notin W => new[x] = mg[x]
              /\ \A x \in Msg : x \notin S =>
                    /\ new[x].st = mg[x].st /\ new[x].owner = mg[x].owner
                    /\ new[x].frag_id = mg[x].frag_id /\ new[x].frag_owner = mg[x].frag_owner
                    /\ new[x].nfrag = mg[x].nfrag /\ new[x].nfrag_done = mg[x].nfrag_done
                    /\ new[x].done = mg[x].done /\ new[x].error = mg[x].error
                    /\ new[x].fdone = mg[x].fdone /\ new[x].ferror = mg[x].ferror
                    /\ (new[x].swallow <=> mg[x].swallow \/ x \in W)
                    /\ new[x].peer = mg[x].peer /\ new[x].cut = mg[x].cut
<1> DEFINE new == Removed(mg, S, W)
           f == [NoMsg EXCEPT !.st = "freed"]
<1>1. /\ f \in MsgRec /\ f.st = "freed" /\ f.frag_owner = None /\ f.done = FALSE
      /\ f.ferror = FALSE /\ f.cut = FALSE /\ f = [NoMsg EXCEPT !.st = f.st]
  <2>0. NoMsg \in MsgRec
      BY FragmentsAssumption DEF NoMsg, MsgRec
  <2>1. /\ [NoMsg EXCEPT !.st = "freed"].st = "freed"
        /\ [NoMsg EXCEPT !.st = "freed"].frag_owner = None
        /\ [NoMsg EXCEPT !.st = "freed"].done = FALSE
        /\ [NoMsg EXCEPT !.st = "freed"].ferror = FALSE
        /\ [NoMsg EXCEPT !.st = "freed"].cut = FALSE
      BY DEF NoMsg
  <2>3. [NoMsg EXCEPT !.st = f.st] = f
      BY <2>1
  <2> QED BY <2>1, <2>3, <2>0 DEF MsgRec
<1>2. /\ new = [x \in Msg |-> new[x]]
      /\ \A x \in Msg : new[x] = IF x \in S THEN f
                                 ELSE IF x \in W THEN [mg[x] EXCEPT !.swallow = TRUE]
                                 ELSE mg[x]
    BY DEF Removed, put
<1> HIDE DEF new, f
<1>3. ASSUME NEW x \in Msg, x \in S
      PROVE  /\ new[x] = f /\ new[x] \in MsgRec
             /\ ~Live(new, x) /\ new[x] = [NoMsg EXCEPT !.st = new[x].st]
             /\ new[x].frag_owner = None /\ ~new[x].done /\ ~new[x].ferror
             /\ ~new[x].cut /\ new[x].st = "freed"
  <2> QED BY <1>2, <1>3, <1>1 DEF Live
<1>4. ASSUME NEW x \in Msg, x \notin S, x \notin W PROVE new[x] = mg[x]
    BY <1>2, <1>4
<1>5. ASSUME NEW x \in Msg, x \notin S
      PROVE  /\ new[x] \in MsgRec
             /\ new[x].st = mg[x].st /\ new[x].owner = mg[x].owner
             /\ new[x].frag_id = mg[x].frag_id /\ new[x].frag_owner = mg[x].frag_owner
             /\ new[x].nfrag = mg[x].nfrag /\ new[x].nfrag_done = mg[x].nfrag_done
             /\ new[x].done = mg[x].done /\ new[x].error = mg[x].error
             /\ new[x].fdone = mg[x].fdone /\ new[x].ferror = mg[x].ferror
             /\ (new[x].swallow <=> mg[x].swallow \/ x \in W)
             /\ new[x].peer = mg[x].peer /\ new[x].cut = mg[x].cut
  <2>0. mg[x] \in MsgRec
      OBVIOUS
  <2>1. CASE x \notin W
      BY <2>0, <2>1, <1>4, <1>5
  <2>2. CASE x \in W
    <3> DEFINE r == mg[x]
               s == [mg[x] EXCEPT !.swallow = TRUE]
    <3>1. new[x] = s
        BY <2>2, <1>2, <1>5
    <3>2. /\ s \in MsgRec /\ s.st = r.st /\ s.owner = r.owner
          /\ s.frag_id = r.frag_id /\ s.frag_owner = r.frag_owner
          /\ s.nfrag = r.nfrag /\ s.nfrag_done = r.nfrag_done
          /\ s.done = r.done /\ s.error = r.error /\ s.fdone = r.fdone
          /\ s.ferror = r.ferror /\ s.swallow = TRUE /\ s.peer = r.peer /\ s.cut = r.cut
        BY <2>0 DEF MsgRec
    <3> HIDE DEF s
    <3> QED BY <2>2, <3>1, <3>2
  <2> QED BY <2>1, <2>2
<1> QED BY <1>3, <1>4, <1>5, <1>2 DEF new

(* When the first of an ordered queue stays in it, it stays the first.     *)
LEMMA FirstStays ==
    ASSUME NEW q \in Seq(Msg), NEW r \in Seq(Msg), Increasing(q), Increasing(r),
           NEW S, ToSet(r) = ToSet(q) \ S, q # <<>>, q[1] \notin S
    PROVE  r # <<>> /\ r[1] = q[1]
<1>1. /\ Len(q) \in Nat /\ Len(q) # 0 /\ Len(r) \in Nat
      /\ \A x \in ToSet(q) : \E i \in 1..Len(q) : q[i] = x
      /\ \A x \in ToSet(r) : \E i \in 1..Len(r) : r[i] = x
      /\ \A i \in 1..Len(q) : q[i] \in ToSet(q) /\ q[i] \in Msg
      /\ \A i \in 1..Len(r) : r[i] \in ToSet(r) /\ r[i] \in Msg
    BY PlaceOf
<1>2. 1 \in 1..Len(q)
    BY <1>1
<1>3. q[1] \in ToSet(r)
    BY <1>1, <1>2
<1>4. PICK j \in 1..Len(r) : r[j] = q[1]
    BY <1>1, <1>3
<1>5. 1 \in 1..Len(r) /\ Len(r) # 0
    BY <1>1, <1>4
<1>6. r[1] \in ToSet(q)
    BY <1>1, <1>5
<1>7. PICK i \in 1..Len(q) : q[i] = r[1]
    BY <1>1, <1>6
<1>9. j # 1 => r[1] < r[j]
    BY <1>4, <1>5, <1>1 DEF Increasing
<1>10. q[1] \in Int /\ r[1] \in Int
    BY <1>1, <1>2, <1>5 DEF Msg
<1>11. r[1] = q[1]
    BY <1>4, <1>7, <1>2, <1>1, <1>9, <1>10 DEF Increasing
<1> QED BY <1>11, <1>5, PlaceOf

(* What may be freed or left: it is there and not to be forwarded, and a   *)
(* fragment outlives its request only when it is settled or left as well.  *)
Removable(mg, fm, S, W) ==
    /\ S \subseteq Msg /\ W \subseteq Msg
    /\ \A x \in S : Live(mg, x)
    /\ \A x \in W : Live(mg, x) /\ ~mg[x].done /\ x \notin S
    /\ \A x \in S \cup W : x \notin ToSet(fm)
    /\ \A x \in S : LET o == mg[x].frag_owner IN
           o # None /\ o # x /\ o \notin S /\ Live(mg, o) => mg[o].fdone
    /\ \A x \in W : LET o == mg[x].frag_owner IN
           o # None /\ o # x => o \in S \/ ~Live(mg, o)
    /\ \A x \in Msg : LET o == mg[x].frag_owner IN
           x \notin S \cup W /\ Live(mg, x) /\ o \in S /\ o # x
               => mg[x].fdone /\ ~mg[x].error

(* The queues behind it.                                                   *)
Drained(oq, oqn, X, gon) ==
    /\ oqn \in [Client -> Seq(Msg)]
    /\ \A c \in Client : /\ Increasing(oqn[c]) /\ ToSet(oqn[c]) = ToSet(oq[c]) \ X
                         /\ c \in gon => oqn[c] = <<>>
Answered(qu, qn, S) ==
    /\ qn \in [Server -> Seq(Msg)]
    /\ \A s \in Server : IsInjective(qn[s]) /\ ToSet(qn[s]) \subseteq ToSet(qu[s]) \ S

(* Freeing what may be freed keeps the invariant.                          *)
LEMMA RemoveKeeps ==
    ASSUME NEW mg, NEW nl, NEW k, NEW oq, NEW qu, NEW fm, NEW sm, NEW cu, NEW go,
           Tree(mg, nl, k), OutQueues(mg, oq, fm, cu, go), Waits(mg, qu, fm), Errors(mg, sm),
           NEW S, NEW W, Removable(mg, fm, S, W),
           NEW oqn, NEW gon, Drained(oq, oqn, S \cup W, gon),
           NEW qn, Answered(qu, qn, S),
           NEW smn, ToSet(smn) \subseteq ToSet(sm) \ S
    PROVE  /\ Tree(Removed(mg, S, W), nl, k) /\ OutQueues(Removed(mg, S, W), oqn, fm, cu, gon)
           /\ Waits(Removed(mg, S, W), qn, fm) /\ Errors(Removed(mg, S, W), smn)
<1> DEFINE new == Removed(mg, S, W)
<1>h. /\ S \subseteq Msg /\ W \subseteq Msg
      /\ \A x \in S : Live(mg, x)
      /\ \A x \in W : Live(mg, x) /\ ~mg[x].done /\ x \notin S
      /\ \A x \in S \cup W : x \notin ToSet(fm)
      /\ \A x \in S : LET o == mg[x].frag_owner IN
             o # None /\ o # x /\ o \notin S /\ Live(mg, o) => mg[o].fdone
      /\ \A x \in W : LET o == mg[x].frag_owner IN
             o # None /\ o # x => o \in S \/ ~Live(mg, o)
      /\ \A x \in Msg : LET o == mg[x].frag_owner IN
             x \notin S \cup W /\ Live(mg, x) /\ o \in S /\ o # x
                 => mg[x].fdone /\ ~mg[x].error
    BY DEF Removable
<1>q. /\ oqn \in [Client -> Seq(Msg)]
      /\ \A c \in Client : Increasing(oqn[c]) /\ ToSet(oqn[c]) = ToSet(oq[c]) \ (S \cup W)
      /\ \A c \in Client : c \in gon => oqn[c] = <<>>
      /\ qn \in [Server -> Seq(Msg)]
      /\ \A s \in Server : IsInjective(qn[s]) /\ ToSet(qn[s]) \subseteq ToSet(qu[s]) \ S
    BY DEF Drained, Answered
<1> USE <1>h, <1>q
<1>0. mg \in [Msg -> MsgRec] /\ nl \in [Msg -> 0..MaxParts]
    BY DEF Tree
<1>1. /\ new \in [Msg -> MsgRec]
      /\ \A x \in Msg : x \in S =>
                    /\ ~Live(new, x) /\ new[x] = [NoMsg EXCEPT !.st = new[x].st]
                    /\ new[x].frag_owner = None /\ ~new[x].done /\ ~new[x].ferror
                    /\ ~new[x].cut /\ new[x].st = "freed"
      /\ \A x \in Msg : x \notin S /\ x \notin W => new[x] = mg[x]
      /\ \A x \in Msg : x \notin S =>
                    /\ new[x].st = mg[x].st /\ new[x].owner = mg[x].owner
                    /\ new[x].frag_id = mg[x].frag_id /\ new[x].frag_owner = mg[x].frag_owner
                    /\ new[x].nfrag = mg[x].nfrag /\ new[x].nfrag_done = mg[x].nfrag_done
                    /\ new[x].done = mg[x].done /\ new[x].error = mg[x].error
                    /\ new[x].fdone = mg[x].fdone /\ new[x].ferror = mg[x].ferror
                    /\ (new[x].swallow <=> mg[x].swallow \/ x \in W)
                    /\ new[x].peer = mg[x].peer /\ new[x].cut = mg[x].cut
    BY <1>0, RemovedFields
<1> HIDE DEF new
<1>2. \A x \in Msg : /\ x \notin S => Live(new, x) = Live(mg, x)
                     /\ Live(new, x) => x \notin S /\ Live(mg, x)
    BY <1>1 DEF Live
<1>3. \A x \in Msg : PartsOf(new, x) \subseteq PartsOf(mg, x)
  <2> SUFFICES ASSUME NEW x \in Msg, NEW n \in PartsOf(new, x) PROVE n \in PartsOf(mg, x)
      OBVIOUS
  <2>2. x # None
      BY FragmentsAssumption DEF Msg, None
  <2> QED BY <2>2, <1>1 DEF PartsOf
<1>4. Blank(new, nl, k)
  <2>1. ASSUME NEW x \in Msg, ~Live(new, x) PROVE new[x] = [NoMsg EXCEPT !.st = new[x].st]
      BY <1>1, <2>1, <1>2 DEF Tree, Blank
  <2>2. ASSUME NEW x \in Msg, x > k PROVE new[x].st = "unread" /\ nl[x] = 0
      BY <2>2, <1>1 DEF Tree, Blank, Live
  <2> QED BY <2>1, <2>2 DEF Blank
<1>5. Flags(new)
  <2> SUFFICES ASSUME NEW x \in Msg, Live(new, x)
               PROVE  /\ new[x].owner \in Client
                      /\ new[x].error => new[x].done
                      /\ new[x].fdone => new[x].done /\ new[x].frag_id # None
                      /\ new[x].ferror => /\ new[x].fdone /\ new[x].frag_owner = x
                                          /\ new[x].peer = "error"
                      /\ new[x].swallow => ~new[x].done
                      /\ new[x].cut => new[x].done /\ (new[x].frag_id # None => new[x].fdone)
      BY DEF Flags
  <2>1. x \notin S /\ Live(mg, x)
      BY <1>2
  <2>3. x \in W => ~mg[x].done
      OBVIOUS
  <2>4. /\ new[x].owner = mg[x].owner /\ new[x].error = mg[x].error /\ new[x].done = mg[x].done
        /\ new[x].frag_id = mg[x].frag_id /\ new[x].ferror = mg[x].ferror
        /\ new[x].frag_owner = mg[x].frag_owner /\ (new[x].swallow <=> mg[x].swallow \/ x \in W)
        /\ new[x].cut = mg[x].cut /\ new[x].fdone = mg[x].fdone /\ new[x].peer = mg[x].peer
      BY <2>1, <1>1
  <2> QED BY <2>1, <2>3, <2>4 DEF Tree, Flags
<1>6. Groups(new)
  <2>1. ASSUME NEW x \in Msg, Live(new, x)
        PROVE  /\ new[x].frag_id = new[x].frag_owner
               /\ new[x].frag_owner # None => new[x].frag_owner <= x
               /\ new[x].frag_owner = x =>
                     /\ new[x].done /\ ~new[x].error
                     /\ \A n \in PartsOf(new, x) : n <= x + new[x].nfrag
      BY <2>1, <1>2, <1>1, <1>3 DEF Tree, Groups
  <2>2. ASSUME NEW x \in Msg, Live(new, x), new[x].frag_owner # None,
               NEW n \in new[x].frag_owner..x, Live(new, n)
        PROVE  new[n].frag_owner = new[x].frag_owner /\ new[n].owner = new[x].owner
    <3>1. /\ Live(mg, x) /\ x \notin S /\ new[x].frag_owner = mg[x].frag_owner
          /\ new[x].owner = mg[x].owner
        BY <2>2, <1>1, <1>2
    <3>2. mg[x].frag_owner \in Msg
        BY <3>1, <2>2, <1>0, MessageTypes
    <3>3. n \in mg[x].frag_owner..x
        BY <3>1
    <3>4. n \in Msg
      <4> DEFINE o == mg[x].frag_owner
      <4>1. o \in 1..MaxMsg /\ x \in 1..MaxMsg /\ n \in o..x
          BY <3>2, <3>3 DEF Msg
      <4> HIDE DEF o
      <4> QED BY <4>1, FragmentsAssumption DEF Msg
    <3>5. Live(mg, n) /\ n \notin S
        BY <3>4, <2>2, <1>2
    <3> QED BY <3>1, <3>4, <3>5, <3>3, <2>2, <1>1 DEF Tree, Groups
  <2> QED BY <2>1, <2>2 DEF Groups
<1>7. Owners(new)
  <2> SUFFICES ASSUME NEW x \in Msg, Live(new, x), new[x].frag_owner # None,
                      new[x].frag_owner # x
               PROVE  /\ Live(new, new[x].frag_owner) =>
                            ~new[x].swallow /\ new[x].fdone = new[new[x].frag_owner].fdone
                      /\ ~Live(new, new[x].frag_owner) => new[x].swallow \/ new[x].fdone
      BY DEF Owners
  <2> DEFINE p == mg[x].frag_owner
  <2>1. /\ new[x].frag_owner = p /\ p \in Msg /\ Live(mg, x) /\ x \notin S /\ p # None
        /\ p # x
      BY <1>0, <1>1, <1>2, MessageTypes
  <2>2. /\ Live(mg, p) => ~mg[x].swallow /\ mg[x].fdone = mg[p].fdone
        /\ ~Live(mg, p) => mg[x].swallow \/ mg[x].fdone
      BY <2>1 DEF Tree, Owners
  <2>3. x \in W => p \in S \/ ~Live(mg, p)
      BY <2>1
  <2>4. x \notin W /\ p \in S => mg[x].fdone
      BY <2>1
  <2>5. /\ new[x].fdone = mg[x].fdone /\ (new[x].swallow <=> mg[x].swallow \/ x \in W)
        /\ p \notin S => new[p].fdone = mg[p].fdone /\ Live(new, p) = Live(mg, p)
        /\ p \in S => ~Live(new, p)
      BY <2>1, <1>1, <1>2
  <2> HIDE DEF p
  <2> QED BY <2>1, <2>2, <2>3, <2>4, <2>5
<1>8. Counts(new, nl)
  <2> SUFFICES ASSUME NEW x \in Msg, Live(new, x), new[x].frag_owner = x, ~new[x].fdone
               PROVE  Cardinality({n \in PartsOf(new, x) : new[n].done})
                          = new[x].nfrag_done + nl[x]
      BY DEF Counts
  <2>1. Live(mg, x) /\ mg[x].frag_owner = x /\ ~mg[x].fdone /\ x \notin S
      BY <1>1, <1>2
  <2>2. Cardinality({n \in PartsOf(mg, x) : mg[n].done}) = mg[x].nfrag_done + nl[x]
      BY <2>1 DEF Tree, Counts
  <2>3. \A n \in PartsOf(mg, x) : n \in Msg /\ n \notin S
    <3> QED BY FragmentsAssumption, <2>1 DEF PartsOf, Msg, None
  <2>5. {n \in PartsOf(new, x) : new[n].done} = {n \in PartsOf(mg, x) : mg[n].done}
      BY <2>3, <1>1, <1>3 DEF PartsOf
  <2> QED BY <2>1, <2>2, <2>5, <1>1
<1>9. Tree(new, nl, k)
    BY <1>0, <1>1, <1>4, <1>5, <1>6, <1>7, <1>8 DEF Tree
<1>10. OutQueues(new, oqn, fm, cu, gon)
  <2>0. oq \in [Client -> Seq(Msg)] /\ fm \in Seq(Msg) /\ cu \in Client \cup {None}
        /\ Increasing(fm)
      BY DEF OutQueues
  <2>1. ASSUME NEW c \in Client, NEW x \in ToSet(oqn[c])
        PROVE  Live(new, x) /\ new[x].owner = c /\ ~new[x].swallow
    <3>1. x \in ToSet(oq[c]) /\ x \notin S /\ x \notin W
        BY <2>1
    <3>2. x \in Msg
      <4> QED BY <3>1, <2>0, PlaceOf
    <3> QED BY <3>1, <3>2, <1>1, <1>2 DEF OutQueues
  <2>2. ASSUME NEW x \in ToSet(fm)
        PROVE  /\ Live(new, x) /\ new[x].owner = cu /\ ~new[x].swallow /\ ~new[x].done
      BY <2>0, PlaceOf, <1>1, <1>2 DEF OutQueues
  <2>3. ASSUME NEW x \in ToSet(fm), NEW n \in ToSet(oqn[cu]) PROVE n < x
      BY <2>0, PlaceOf, <2>3 DEF OutQueues, Tree, Flags
  <2>4. ASSUME NEW x \in Msg, Live(new, x), ~new[x].swallow
        PROVE  x \in ToSet(oqn[new[x].owner]) \cup ToSet(fm)
      BY <2>4, <1>1, <1>2 DEF OutQueues, Tree, Flags
  <2> QED BY <2>0, <2>1, <2>2, <2>3, <2>4 DEF OutQueues
<1>12. Errors(new, smn)
  <2>1. ASSUME NEW x \in Msg, Live(new, x), new[x].frag_owner # None, new[x].frag_owner # x,
               ~new[x].swallow,
               \/ ~Live(new, new[x].frag_owner) \/ new[x].frag_owner \in ToSet(smn)
               \/ new[new[x].frag_owner].cut
        PROVE  new[x].fdone /\ ~new[x].error
    <3> DEFINE o == mg[x].frag_owner
    <3>1. /\ new[x].frag_owner = o /\ o \in Msg /\ Live(mg, x) /\ x \notin S /\ x \notin W
          /\ ~mg[x].swallow /\ o # None /\ o # x
        BY <2>1, <1>0, <1>1, <1>2, MessageTypes
    <3>2. new[x] = mg[x]
        BY <3>1, <1>1
    <3>3. CASE o \in S
        BY <3>1, <3>2, <3>3
    <3>4. CASE o \notin S
        BY <3>1, <3>4, <1>1, <1>2, <2>1, <3>2 DEF Errors
    <3> QED BY <3>3, <3>4
  <2>2. ASSUME NEW x \in Msg, new[x].ferror PROVE PartsOf(new, x) = {}
      BY <2>2, <1>1, <1>3 DEF Errors
  <2>3. ASSUME NEW x \in Msg, new[x].cut \/ x \in ToSet(smn)
        PROVE  new[x].peer = "error" \/ ~new[x].error
      BY <2>3, <1>1 DEF Errors
  <2> QED BY <2>1, <2>2, <2>3 DEF Errors
<1> QED BY <1>9, <1>10, PlaceOf, <1>1, <1>2, <1>12 DEF new, Waits

(* A response that is half written is not freed.                           *)
LEMMA WireKeeps ==
    ASSUME NEW mg, NEW oq, NEW go, NEW wi, mg \in [Msg -> MsgRec],
           oq \in [Client -> Seq(Msg)], \A c \in Client : Increasing(oq[c]),
           OnWire(mg, oq, wi, go), NEW S, NEW W,
           NEW oqn, NEW gon, Drained(oq, oqn, S \cup W, gon), go \subseteq gon,
           \A c \in Client \ gon : Halfway(wi[c]) => Last(wi[c]).req \notin S \cup W
    PROVE  OnWire(Removed(mg, S, W), oqn, wi, gon)
<1> DEFINE new == Removed(mg, S, W)
<1>1. /\ \A x \in Msg : x \notin S /\ x \notin W => new[x] = mg[x]
      /\ \A x \in Msg : x \in S => ~new[x].cut
      /\ \A x \in Msg : x \notin S => new[x].cut = mg[x].cut /\ new[x].owner = mg[x].owner
  <2>1. \A x \in Msg : x \notin S /\ x \notin W => new[x] = mg[x]
      BY RemovedFields
  <2>2. \A x \in Msg : x \in S => ~new[x].cut
      BY RemovedFields
  <2>3. \A x \in Msg : x \notin S => new[x].cut = mg[x].cut /\ new[x].owner = mg[x].owner
      BY RemovedFields
  <2> HIDE DEF new
  <2> QED BY <2>1, <2>2, <2>3
<1> HIDE DEF new
<1>2. ASSUME NEW c \in Client \ gon, Halfway(wi[c])
      PROVE  First(new, oqn[c], Last(wi[c]))
  <2> DEFINE h == Last(wi[c])
  <2>1. First(mg, oq[c], h) /\ h.req \notin S \cup W
      BY <1>2 DEF OnWire
  <2> HIDE DEF h
  <2>2. /\ oq[c] \in Seq(Msg) /\ oqn[c] \in Seq(Msg) /\ Increasing(oq[c]) /\ Increasing(oqn[c])
        /\ ToSet(oqn[c]) = ToSet(oq[c]) \ (S \cup W)
      BY DEF Drained
  <2>3. oq[c] # <<>> /\ oq[c][1] = h.req
      BY <2>1 DEF First
  <2>6. new[h.req] = mg[h.req]
      BY <2>1, <2>2, <2>3, HeadFacts, <1>1
  <2>7. First(new, oqn[c], h)
      BY <2>1, <2>2, <2>3, FirstStays, <2>6 DEF First
  <2> QED BY <2>7 DEF h
<1>3. ASSUME NEW x \in Msg, new[x].cut
      PROVE  Halfway(wi[new[x].owner]) /\ Last(wi[new[x].owner]).req = x
    BY <1>1, <1>3 DEF OnWire
<1> QED BY <1>2, <1>3 DEF OnWire, new

(* What is half written is in the out_q of its client.                     *)
LEMMA HalfIsQueued ==
    ASSUME NEW mg, NEW oq, NEW fm, NEW cu, NEW go, NEW wi,
           OutQueues(mg, oq, fm, cu, go), OnWire(mg, oq, wi, go),
           NEW c \in Client \ go, Halfway(wi[c])
    PROVE  Last(wi[c]).req \in ToSet(oq[c]) /\ Last(wi[c]).req \in Msg
<1>2. oq[c] # <<>> /\ oq[c][1] = Last(wi[c]).req
    BY DEF First, OnWire
<1> QED BY <1>2, HeadFacts DEF OutQueues

(* A response nobody waits for is dropped with its request                 *)
(* (rsp_filter_swallow).                                                   *)
LEMMA SwallowKeeps ==
    ASSUME IInv, NEW s \in Server, rsp_filter_swallow(s)
    PROVE  IInv'
<1> DEFINE m == Head(queue[s])
           qn == [queue EXCEPT ![s] = Tail(@)]
           new == Removed(msg, {m}, {})
<1>1. /\ pc = "loop" /\ queue[s] # <<>> /\ msg[m].swallow
      /\ msg' = req_put(msg, {m}) /\ queue' = qn
      /\ UNCHANGED <<omsg_q, frag_msgq, send_msgq, pc, cur, gone, nmsg, nfault, nlost, wire>>
    BY DEF rsp_filter_swallow
<1>2. /\ Flow(msg, nlost, nmsg, omsg_q, queue, <<>>, <<>>, None, gone, wire)
      /\ msg \in [Msg -> MsgRec]
    BY <1>1, LoopStart
<1>3. /\ Tree(msg, nlost, nmsg) /\ OutQueues(msg, omsg_q, <<>>, None, gone)
      /\ Waits(msg, queue, <<>>) /\ Errors(msg, <<>>) /\ OnWire(msg, omsg_q, wire, gone)
    BY <1>2 DEF Flow
<1>4. /\ qn \in [Server -> Seq(Msg)]
      /\ \A t \in Server : IsInjective(qn[t]) /\ ToSet(qn[t]) \subseteq ToSet(queue[t])
      /\ \A t \in Server : m \notin ToSet(qn[t])
      /\ m \in Msg /\ Live(msg, m) /\ ~msg[m].done /\ m \notin ToSet(<<>>)
    BY <1>1, <1>3, HeadLeaves
<1> HIDE DEF m, qn
<1>5. \A c \in Client : m \notin ToSet(omsg_q[c]) /\ Increasing(omsg_q[c])
    BY <1>1, <1>3 DEF OutQueues
<1>7. \A x \in Msg : Live(msg, x) /\ x # m => msg[x].frag_owner # m
  <2> SUFFICES ASSUME NEW x \in Msg, Live(msg, x), x # m, msg[x].frag_owner = m PROVE FALSE
      OBVIOUS
  <2>2. msg[m].done
      BY <1>4, FragmentsAssumption, <1>3, OwnerIs DEF Msg, None
  <2> QED BY <2>2, <1>4
<1>9. omsg_q \in [Client -> Seq(Msg)] /\ \A c \in Client : c \in gone => omsg_q[c] = <<>>
    BY <1>3 DEF OutQueues
<1>10. \A t \in Server : IsInjective(qn[t]) /\ ToSet(qn[t]) \subseteq ToSet(queue[t]) \ {m}
    BY <1>4
<1>11. \A x \in {m} \cup {} : x \notin ToSet(<<>>)
    BY DEF ToSet
<1>18. Removable(msg, <<>>, {m}, {})
    BY <1>4, <1>1, <1>3, <1>7, <1>11 DEF Removable, Tree, Owners
<1>19. Drained(omsg_q, omsg_q, {m} \cup {}, gone) /\ Answered(queue, qn, {m})
    BY <1>4, <1>5, <1>9, <1>10 DEF Drained, Answered
<1>20. ToSet(<<>>) \subseteq ToSet(<<>>) \ {m}
    BY DEF ToSet
<1>12. /\ Tree(new, nlost, nmsg) /\ OutQueues(new, omsg_q, <<>>, None, gone)
       /\ Waits(new, qn, <<>>) /\ Errors(new, <<>>)
    BY <1>3, <1>18, <1>19, <1>20, RemoveKeeps
<1>13. OnWire(new, omsg_q, wire, gone)
    BY <1>3, <1>5, HalfIsQueued, <1>2, <1>9, <1>19, WireKeeps
<1>14. Sending(new, omsg_q, <<>>, None)
    BY DEF ToSet, Sending
<1>15. msg' = new
    BY <1>1 DEF req_put, Removed, m
<1> HIDE DEF new
<1>17. gone' \subseteq Client /\ nmsg' \in 0..MaxMsg /\ nfault' \in 0..MaxFault
    BY <1>1, IInvIs
<1> QED BY <1>1, <1>12, <1>13, <1>14, <1>15, <1>17, LoopNext DEF Flow, qn

(* A client leaves: what is done is freed, the rest is left to be          *)
(* swallowed (client_close).                                               *)
LEMMA ClientCloseKeeps ==
    ASSUME IInv, NEW c \in Client, client_close(c)
    PROVE  IInv'
<1> DEFINE Q == ToSet(omsg_q[c])
           S == {m \in Q : msg[m].done}
           W == {m \in Q : ~msg[m].done}
           oqn == [omsg_q EXCEPT ![c] = <<>>]
           gon == gone \cup {c}
           new == Removed(msg, S, W)
<1>1. /\ pc = "loop" /\ msg' = Abandon(c) /\ omsg_q' = oqn /\ gone' = gon
      /\ UNCHANGED <<queue, frag_msgq, send_msgq, pc, cur, nmsg, nfault, nlost, wire>>
    BY DEF client_close
<1>2. /\ Flow(msg, nlost, nmsg, omsg_q, queue, <<>>, <<>>, None, gone, wire)
      /\ msg \in [Msg -> MsgRec]
    BY <1>1, LoopStart
<1>3. /\ Tree(msg, nlost, nmsg) /\ OutQueues(msg, omsg_q, <<>>, None, gone)
      /\ Waits(msg, queue, <<>>) /\ Errors(msg, <<>>) /\ OnWire(msg, omsg_q, wire, gone)
    BY <1>2 DEF Flow
<1>4. /\ omsg_q \in [Client -> Seq(Msg)]
      /\ \A d \in Client : /\ Increasing(omsg_q[d]) /\ ToSet(omsg_q[d]) \subseteq Msg
                           /\ d \in gone => omsg_q[d] = <<>>
                           /\ \A m \in ToSet(omsg_q[d]) : /\ Live(msg, m) /\ msg[m].owner = d
                                                          /\ ~msg[m].swallow
  <2>1. omsg_q \in [Client -> Seq(Msg)]
      BY <1>3 DEF OutQueues
  <2>2. ASSUME NEW d \in Client PROVE ToSet(omsg_q[d]) \subseteq Msg
    <3> QED BY <2>1, PlaceOf
  <2> QED BY <2>1, <2>2, <1>3 DEF OutQueues
<1>5. ToSet(<<>>) = {} /\ <<>> \in Seq(Msg) /\ Increasing(<<>>)
    BY DEF ToSet, Increasing
<1>6. ASSUME NEW x \in Msg, Live(msg, x), msg[x].owner = c, ~msg[x].swallow
      PROVE  x \in Q
    BY <1>3, <1>5, <1>6, WhereItIs
<1>7. ASSUME NEW x \in Q, msg[x].frag_owner # None, Live(msg, msg[x].frag_owner)
      PROVE  msg[x].frag_owner \in S
    BY <1>4, <1>3, <1>7, OwnerIs, <1>6
<1>8. ASSUME NEW x \in Msg, Live(msg, x), msg[x].frag_owner \in S PROVE x \in Q
    BY <1>4, <1>8, FragmentsAssumption, <1>3, OwnerIs, <1>6 DEF Msg, None
<1>9. Q \subseteq Msg /\ \A x \in Q : Live(msg, x) /\ msg[x].owner = c
    BY <1>4
<1>10. S \cup W = Q
    OBVIOUS
<1>12. /\ oqn \in [Client -> Seq(Msg)]
       /\ \A d \in Client : /\ Increasing(oqn[d])
                            /\ ToSet(oqn[d]) = ToSet(omsg_q[d]) \ (S \cup W)
                            /\ d \in gon => oqn[d] = <<>>
  <2>1. /\ oqn \in [Client -> Seq(Msg)] /\ oqn[c] = <<>>
        /\ \A d \in Client \ {c} : oqn[d] = omsg_q[d]
      BY <1>4, <1>5
  <2>2. \A d \in Client \ {c} : ToSet(omsg_q[d]) \cap Q = {}
      BY <1>4, <1>9
  <2> HIDE DEF oqn
  <2>3. ASSUME NEW d \in Client
        PROVE  Increasing(oqn[d]) /\ ToSet(oqn[d]) = ToSet(omsg_q[d]) \ Q
               /\ (d \in gon => oqn[d] = <<>>)
      BY <2>1, <1>5, <2>2, <1>4
  <2> HIDE DEF S, W, Q
  <2> QED BY <2>1, <2>3, <1>10
<1>13. /\ S \in SUBSET Msg /\ W \in SUBSET Msg
       /\ \A x \in S : Live(msg, x)
       /\ \A x \in W : Live(msg, x) /\ ~msg[x].done /\ x \notin S
       /\ \A x \in S \cup W : x \notin ToSet(<<>>)
    BY <1>5, <1>9
<1>14. \A x \in S : LET o == msg[x].frag_owner IN
               o # None /\ o # x /\ o \notin S /\ Live(msg, o) => msg[o].fdone
  <2>1. \A x \in S : x \in Q
      OBVIOUS
  <2> HIDE DEF S, W, Q
  <2> QED BY <2>1, <1>7
<1>15. \A x \in W : LET o == msg[x].frag_owner IN
               o # None /\ o # x => o \in S \/ ~Live(msg, o)
  <2>1. \A x \in W : x \in Q
      OBVIOUS
  <2> HIDE DEF S, W, Q
  <2> QED BY <2>1, <1>7
<1>16. \A x \in Msg : LET o == msg[x].frag_owner IN
               x \notin S \cup W /\ Live(msg, x) /\ o \in S /\ o # x
                  => msg[x].fdone /\ ~msg[x].error
  <2> HIDE DEF S, W, Q
  <2> QED BY <1>8, <1>10
<1>17. \A s \in Server : IsInjective(queue[s]) /\ ToSet(queue[s]) \subseteq ToSet(queue[s]) \ S
    BY <1>3 DEF Waits
<1>18. queue \in [Server -> Seq(Msg)]
    BY <1>3 DEF Waits
<1>19. \A d \in Client \ gon : Halfway(wire[d]) => Last(wire[d]).req \notin S \cup W
  <2> SUFFICES ASSUME NEW d \in Client \ gon, Halfway(wire[d]), Last(wire[d]).req \in Q
               PROVE  FALSE
      BY <1>10
  <2>2. msg[Last(wire[d]).req].owner = d
      BY <1>3, HalfIsQueued, <1>4
  <2> QED BY <2>2, <1>9
<1>20. ToSet(<<>>) \subseteq ToSet(<<>>) \ S
    BY <1>5
<1>21. \A d \in Client : d \in gon => oqn[d] = <<>>
    BY <1>12
<1>22. msg' = new
    BY <1>1 DEF Abandon, Removed
<1>23. \A d \in Client : Increasing(oqn[d]) /\ ToSet(oqn[d]) = ToSet(omsg_q[d]) \ (S \cup W)
    BY <1>12
<1> HIDE DEF S, W, oqn
<1>30. Removable(msg, <<>>, S, W)
    BY <1>13, <1>14, <1>15, <1>16 DEF Removable
<1>31. Drained(omsg_q, oqn, S \cup W, gon) /\ Answered(queue, queue, S)
    BY <1>12, <1>17, <1>18 DEF Drained, Answered
<1>25. /\ Tree(new, nlost, nmsg) /\ OutQueues(new, oqn, <<>>, None, gon)
       /\ Waits(new, queue, <<>>) /\ Errors(new, <<>>)
  <2> HIDE DEF gon
  <2> QED BY <1>3, <1>20, <1>30, <1>31, RemoveKeeps
<1>26. OnWire(new, oqn, wire, gon)
  <2>1. gone \subseteq gon
      OBVIOUS
  <2> HIDE DEF gon
  <2> QED BY <2>1, <1>4, <1>2, <1>3, <1>19, <1>31, WireKeeps
<1>27. Sending(new, oqn, <<>>, None)
    BY <1>5 DEF Sending
<1> HIDE DEF new, gon
<1>29. gone' \subseteq Client /\ nmsg' \in 0..MaxMsg /\ nfault' \in 0..MaxFault
    BY <1>1, IInvIs DEF gon
<1> QED BY <1>1, <1>22, <1>25, <1>26, <1>27, <1>29, LoopNext DEF Flow

(* A request that was read, and its fragments when it was split (p of them *)
(* with the request's number as their id).                                 *)
Arrived(mg, new, k, p, split, c) ==
    LET A == (k + 1)..(k + 1 + p) IN
    /\ new \in [Msg -> MsgRec]
    /\ \A x \in Msg : x \notin A => new[x] = mg[x]
    /\ \A x \in Msg : x \in A =>
          /\ new[x].st = "live" /\ new[x].owner = c
          /\ new[x].frag_id = (IF split THEN k + 1 ELSE None)
          /\ new[x].frag_owner = (IF split THEN k + 1 ELSE None)
          /\ x = k + 1 /\ split => new[x].nfrag = p
          /\ new[x].nfrag_done = 0
          /\ (new[x].done <=> split /\ x = k + 1)
          /\ ~new[x].error /\ ~new[x].fdone /\ ~new[x].ferror /\ ~new[x].swallow
          /\ ~new[x].cut

(* A request or a request and its fragments arrive.                        *)
LEMMA ArriveKeeps ==
    ASSUME NEW mg, NEW nl, NEW k \in Nat, NEW oq, NEW qu, NEW go, NEW wi,
           Flow(mg, nl, k, oq, qu, <<>>, <<>>, None, go, wi),
           NEW new, NEW p \in Nat, NEW split \in BOOLEAN, NEW c \in Client, c \notin go,
           Arrived(mg, new, k, p, split, c), split \/ p = 0, k + 1 + p <= MaxMsg,
           NEW oqn, oqn = IF split THEN [oq EXCEPT ![c] = Append(@, k + 1)] ELSE oq,
           NEW fm \in Seq(Msg), Increasing(fm),
           ToSet(fm) = IF split THEN (k + 2)..(k + 1 + p) ELSE {k + 1}
    PROVE  Flow(new, nl, k + 1 + p, oqn, qu, fm, <<>>, c, go, wi)
<1> DEFINE A == (k + 1)..(k + 1 + p)
<1>0. /\ Tree(mg, nl, k) /\ OutQueues(mg, oq, <<>>, None, go) /\ Waits(mg, qu, <<>>)
      /\ Errors(mg, <<>>) /\ OnWire(mg, oq, wi, go)
      /\ mg \in [Msg -> MsgRec] /\ nl \in [Msg -> 0..MaxParts]
    BY DEF Flow, Tree
<1>1. /\ new \in [Msg -> MsgRec]
      /\ \A x \in Msg : x \notin A => new[x] = mg[x]
      /\ \A x \in Msg : x \in A =>
            /\ new[x].st = "live" /\ new[x].owner = c
            /\ new[x].frag_id = (IF split THEN k + 1 ELSE None)
            /\ new[x].frag_owner = (IF split THEN k + 1 ELSE None)
            /\ x = k + 1 /\ split => new[x].nfrag = p
            /\ new[x].nfrag_done = 0
            /\ (new[x].done <=> split /\ x = k + 1)
            /\ ~new[x].error /\ ~new[x].fdone /\ ~new[x].ferror /\ ~new[x].swallow
            /\ ~new[x].cut
    BY DEF Arrived
<1>2. /\ A \subseteq Msg /\ k + 1 \in A /\ k + 1 # None /\ k + 1 \in Msg
      /\ \A x \in A : x > k /\ x <= k + 1 + p /\ x \in Nat
      /\ \A x \in Msg : x \in Nat /\ x # None /\ (x > k /\ x <= k + 1 + p => x \in A)
      /\ ~split => A = {k + 1}
    BY FragmentsAssumption DEF Msg, None
<1> HIDE DEF A
<1>3. \A x \in Msg : Live(mg, x) => x <= k /\ x \notin A
  <2>2. \A x \in Msg : x > k => ~Live(mg, x)
      BY <1>0 DEF Live, Tree, Blank
  <2> QED BY <2>2, <1>2
<1>4. \A x \in Msg : (Live(new, x) <=> Live(mg, x) \/ x \in A)
    BY <1>1, <1>3 DEF Live
<1>5. \A x \in Msg : x \notin A => PartsOf(new, x) = PartsOf(mg, x)
  <2> SUFFICES ASSUME NEW x \in Msg, x \notin A, NEW n \in Msg
               PROVE  new[n].frag_owner = x <=> mg[n].frag_owner = x
      BY DEF PartsOf
  <2>1. CASE n \notin A
      BY <2>1, <1>1
  <2>2. CASE n \in A
    <3>2. mg[n].frag_owner = None
        BY <2>2, <1>0, <1>3, BlankMessage DEF Tree
    <3> QED BY <2>2, <1>1, <1>2, <3>2
  <2> QED BY <2>1, <2>2
<1>6. \A x \in Msg : x \in A => \A n \in PartsOf(new, x) : n \in A /\ n # k + 1 /\ x = k + 1 /\ split
  <2> SUFFICES ASSUME NEW x \in A, NEW n \in Msg, new[n].frag_owner = x, n # x
               PROVE  n \in A /\ n # k + 1 /\ x = k + 1 /\ split
      BY DEF PartsOf
  <2>0. x \in Msg /\ x \in Nat /\ x > k /\ x # None
      BY <1>2
  <2>1. n \in A
    <3> SUFFICES ASSUME n \notin A PROVE FALSE
        OBVIOUS
    <3>1. mg[n].frag_owner = x
        BY <1>1
    <3>2. Live(mg, n)
        BY <3>1, <2>0, <1>0, BlankMessage DEF Tree
    <3>4. n <= k /\ n \in Nat
        BY <3>2, <1>2, <1>3
    <3> QED BY <3>1, <3>2, <2>0, <1>0, <3>4 DEF Tree, Groups
  <2> QED BY <2>1, <2>0, <1>1
<1>7. Blank(new, nl, k + 1 + p)
    BY <1>1, <1>4, <1>0, <1>2 DEF Tree, Blank
<1>8. Flags(new)
  <2>1. ASSUME NEW x \in Msg, Live(new, x)
        PROVE  /\ new[x].owner \in Client
               /\ new[x].error => new[x].done
               /\ new[x].fdone => new[x].done /\ new[x].frag_id # None
               /\ new[x].ferror => /\ new[x].fdone /\ new[x].frag_owner = x
                                   /\ new[x].peer = "error"
               /\ new[x].swallow => ~new[x].done
               /\ new[x].cut => new[x].done /\ (new[x].frag_id # None => new[x].fdone)
      BY <1>1, <2>1, <1>4, <1>0 DEF Tree, Flags
  <2> QED BY <2>1 DEF Flags
<1>9. Groups(new)
  <2>1. ASSUME NEW x \in Msg, Live(new, x)
        PROVE  /\ new[x].frag_id = new[x].frag_owner
               /\ new[x].frag_owner # None => new[x].frag_owner <= x
               /\ new[x].frag_owner = x =>
                     /\ new[x].done /\ ~new[x].error
                     /\ \A n \in PartsOf(new, x) : n <= x + new[x].nfrag
      BY <1>2, <1>1, <1>6, <2>1, <1>4, <1>5, <1>0 DEF Tree, Groups
  <2>2. ASSUME NEW x \in Msg, Live(new, x), new[x].frag_owner # None,
               NEW n \in new[x].frag_owner..x, Live(new, n)
        PROVE  new[n].frag_owner = new[x].frag_owner /\ new[n].owner = new[x].owner
    <3>1. CASE x \in A
        BY <3>1, <2>2, <1>1, <1>2 DEF A
    <3>2. CASE x \notin A
      <4>1. Live(mg, x) /\ new[x] = mg[x] /\ x <= k /\ x \in Nat
          BY <3>2, <2>2, <1>4, <1>3, <1>2, <1>1
      <4>2. mg[x].frag_owner \in Msg
        <5>2. mg[x].frag_owner \in Msg \cup {None}
            BY <1>0, MessageTypes
        <5> QED BY <4>1, <2>2, <5>2
      <4>3. n \in mg[x].frag_owner..x
          BY <4>1
      <4>4. n \in Msg /\ n <= k
        <5> DEFINE o == mg[x].frag_owner
        <5>1. o \in 1..MaxMsg /\ x \in 1..MaxMsg /\ n \in o..x
            BY <4>2, <4>3 DEF Msg
        <5> HIDE DEF o
        <5> QED BY <4>1, <5>1, FragmentsAssumption DEF Msg
      <4>6. Live(mg, n) /\ new[n] = mg[n]
          BY <4>4, <1>2, <2>2, <1>1, <1>4
      <4> QED BY <4>1, <4>6, <4>3, <2>2, <1>0 DEF Tree, Groups
    <3> QED BY <3>1, <3>2
  <2> QED BY <2>1, <2>2 DEF Groups
<1>10. ASSUME NEW x \in Msg, Live(mg, x), mg[x].frag_owner # None
       PROVE  mg[x].frag_owner \in Msg /\ mg[x].frag_owner \notin A
  <2>1. mg[x].frag_owner \in Msg
      BY <1>0, <1>10, MessageTypes
  <2>2. mg[x].frag_owner <= x /\ x <= k /\ x \in Nat
      BY <1>0, <1>2, <1>3, <1>10 DEF Tree, Groups
  <2>3. mg[x].frag_owner \in Nat
      BY <2>1, <1>2
  <2>4. ~(mg[x].frag_owner > k)
    <3> DEFINE o == mg[x].frag_owner
    <3>1. o <= x /\ x <= k /\ x \in Nat /\ o \in Nat
        BY <2>2, <2>3
    <3> HIDE DEF o
    <3> QED BY <3>1 DEF o
  <2> QED BY <2>1, <2>4, <1>2
<1>11. Owners(new)
  <2> SUFFICES ASSUME NEW x \in Msg, Live(new, x), new[x].frag_owner # None,
                      new[x].frag_owner # x
               PROVE  /\ Live(new, new[x].frag_owner) =>
                            ~new[x].swallow /\ new[x].fdone = new[new[x].frag_owner].fdone
                      /\ ~Live(new, new[x].frag_owner) => new[x].swallow \/ new[x].fdone
      BY DEF Owners
  <2>1. CASE x \in A
      BY <2>1, <1>1, <1>2, <1>4, MessageTypes
  <2>2. CASE x \notin A
      BY <2>2, <1>1, <1>4, <1>10, <1>0 DEF Live, Tree, Owners
  <2> QED BY <2>1, <2>2
<1>12. Counts(new, nl)
  <2> SUFFICES ASSUME NEW x \in Msg, Live(new, x), new[x].frag_owner = x, ~new[x].fdone
               PROVE  Cardinality({n \in PartsOf(new, x) : new[n].done})
                          = new[x].nfrag_done + nl[x]
      BY DEF Counts
  <2>1. CASE x \in A
    <3>1. new[x].nfrag_done = 0 /\ nl[x] = 0
      <4> QED BY <2>1, <1>2, <1>0, <1>1 DEF Tree, Blank
    <3>3. Cardinality({n \in PartsOf(new, x) : new[n].done}) = 0
        BY <2>1, <1>2, <1>6, <1>1, FS_EmptySet
    <3> QED BY <3>3, <3>1
  <2>2. CASE x \notin A
    <3>1. Live(mg, x) /\ new[x] = mg[x] /\ PartsOf(new, x) = PartsOf(mg, x)
        BY <2>2, <1>1, <1>4, <1>5
    <3>2. {n \in PartsOf(new, x) : new[n].done} = {n \in PartsOf(mg, x) : mg[n].done}
      <4>1. \A n \in PartsOf(mg, x) : n \in Msg /\ n \notin A
          BY <1>2, <1>0, BlankMessage, <1>3 DEF PartsOf, Tree
      <4> QED BY <4>1, <3>1, <1>1
    <3> QED BY <3>1, <3>2, <1>0 DEF Tree, Counts
  <2> QED BY <2>1, <2>2
<1>13. Tree(new, nl, k + 1 + p)
    BY <1>0, <1>1, <1>7, <1>8, <1>9, <1>11, <1>12 DEF Tree
<1>14. /\ oq \in [Client -> Seq(Msg)] /\ ToSet(<<>>) = {}
       /\ \A d \in Client : /\ Increasing(oq[d]) /\ oq[d] \in Seq(Msg)
                            /\ \A x \in ToSet(oq[d]) : /\ x \in Msg /\ Live(mg, x)
                                                       /\ mg[x].owner = d /\ ~mg[x].swallow
                            /\ d \in go => oq[d] = <<>>
  <2>1. oq \in [Client -> Seq(Msg)]
      BY <1>0 DEF OutQueues
  <2>2. ASSUME NEW d \in Client PROVE ToSet(oq[d]) \subseteq Msg
    <3> QED BY <2>1, PlaceOf
  <2> QED BY <2>1, <2>2, <1>0 DEF OutQueues, ToSet
<1>15. /\ oqn \in [Client -> Seq(Msg)]
       /\ \A d \in Client \ {c} : oqn[d] = oq[d]
       /\ Increasing(oqn[c])
       /\ ToSet(oqn[c]) = IF split THEN ToSet(oq[c]) \cup {k + 1} ELSE ToSet(oq[c])
       /\ oq[c] # <<>> => oqn[c] # <<>> /\ oqn[c][1] = oq[c][1]
  <2>1. CASE ~split
      BY <2>1, <1>14
  <2>2. CASE split
    <3>1. oq[c] \in Seq(Msg) /\ oq[c] \in Seq(Int) /\ Increasing(oq[c])
        BY <1>14, SeqOfInts
    <3>3. /\ Append(oq[c], k + 1) \in Seq(Msg)
          /\ ToSet(Append(oq[c], k + 1)) = ToSet(oq[c]) \cup {k + 1}
        BY <3>1, <1>2, AppendFacts
    <3>4. Increasing(Append(oq[c], k + 1))
        BY <3>1, <1>2, <1>3, <1>14, IncreasingAppend
    <3>5. oq[c] # <<>> => Append(oq[c], k + 1) # <<>> /\ Append(oq[c], k + 1)[1] = oq[c][1]
      <4> DEFINE r == oq[c]
                 y == k + 1
      <4>1. r \in Seq(Msg) /\ y \in Msg
          BY <3>1, <1>2
      <4> HIDE DEF r, y
      <4> QED BY <4>1 DEF r, y
    <3>7. /\ oqn[c] = Append(oq[c], k + 1) /\ oqn \in [Client -> Seq(Msg)]
          /\ \A d \in Client \ {c} : oqn[d] = oq[d]
        BY <3>3, <2>2, <1>14
    <3> QED BY <2>2, <3>3, <3>4, <3>5, <3>7
  <2> QED BY <2>1, <2>2
<1>16. \A x \in ToSet(fm) : x \in Msg /\ x \in A /\ (split => x # k + 1)
    BY PlaceOf DEF A
<1>17. \A x \in A : x = k + 1 \/ (split /\ x \in ToSet(fm))
    BY <1>2 DEF A
<1>18. OutQueues(new, oqn, fm, c, go)
  <2>1. ASSUME NEW d \in Client
        PROVE  /\ Increasing(oqn[d])
               /\ \A x \in ToSet(oqn[d]) : Live(new, x) /\ new[x].owner = d /\ ~new[x].swallow
               /\ d \in go => oqn[d] = <<>>
    <3>1. ASSUME NEW x \in ToSet(oq[d])
          PROVE  Live(new, x) /\ new[x].owner = d /\ ~new[x].swallow
        BY <1>14, <1>1, <1>3, <1>4
    <3>3. Increasing(oqn[d]) /\ (d \in go => oqn[d] = <<>>)
        BY <1>14, <1>15
    <3>4. \A x \in ToSet(oqn[d]) : x \in ToSet(oq[d]) \/ (x = k + 1 /\ d = c)
        BY <1>15
    <3> QED BY <3>1, <1>1, <1>2, <1>4, <3>3, <3>4
  <2>2. ASSUME NEW x \in ToSet(fm)
        PROVE  /\ Live(new, x) /\ new[x].owner = c /\ ~new[x].swallow /\ ~new[x].done
               /\ \A n \in ToSet(oqn[c]) : n < x
    <3>1. /\ x \in Msg /\ x \in A /\ (split => x # k + 1)
        BY <1>16
    <3>3. x \in Nat /\ x > k
        BY <3>1, <1>2
    <3>4. \A n \in ToSet(oqn[c]) : n < x
        BY <1>2, <1>3, <1>14, <3>3, <3>1, <1>15
    <3> QED BY <3>1, <3>4, <1>1, <1>4
  <2>3. ASSUME NEW x \in Msg, Live(new, x), ~new[x].swallow
        PROVE  x \in ToSet(oqn[new[x].owner]) \cup ToSet(fm)
    <3>1. CASE x \in A
        BY <3>1, <1>1, <1>17, <1>15
    <3>2. CASE x \notin A
      <4>1. Live(mg, x) /\ new[x] = mg[x]
          BY <3>2, <2>3, <1>1, <1>4
      <4> QED BY <4>1, <2>3, <1>0, <1>14, <1>15 DEF OutQueues, Tree, Flags
    <3> QED BY <3>1, <3>2
  <2> QED BY <2>1, <2>2, <2>3, <1>15 DEF OutQueues
<1>19. Waits(new, qu, fm)
    BY <1>0, PlaceOf, <1>3, <1>1, <1>4, <1>16 DEF Waits
<1>21. Errors(new, <<>>)
  <2>1. ASSUME NEW x \in Msg, Live(new, x), new[x].frag_owner # None, new[x].frag_owner # x,
               ~new[x].swallow,
               \/ ~Live(new, new[x].frag_owner) \/ new[x].frag_owner \in ToSet(<<>>)
               \/ new[new[x].frag_owner].cut
        PROVE  new[x].fdone /\ ~new[x].error
      BY <2>1, <1>1, <1>2, <1>4, <1>14, <1>10, <1>0 DEF Live, Errors
  <2>2. ASSUME NEW x \in Msg, new[x].ferror PROVE PartsOf(new, x) = {}
      BY <2>2, <1>1, <1>0, <1>5 DEF Errors
  <2>3. ASSUME NEW x \in Msg, new[x].cut \/ x \in ToSet(<<>>)
        PROVE  new[x].peer = "error" \/ ~new[x].error
      BY <2>3, <1>1, <1>14, <1>0 DEF Errors
  <2> QED BY <2>1, <2>2, <2>3 DEF Errors
<1>22. OnWire(new, oqn, wi, go)
  <2>1. ASSUME NEW d \in Client \ go, Halfway(wi[d])
        PROVE  First(new, oqn[d], Last(wi[d]))
    <3> DEFINE h == Last(wi[d])
    <3>1. First(mg, oq[d], h)
        BY <2>1, <1>0 DEF OnWire
    <3>2. h.req \in ToSet(oq[d]) /\ h.req \in Msg
        BY <2>1, <1>0, HalfIsQueued
    <3> HIDE DEF h
    <3>4. oqn[d] # <<>> /\ oqn[d][1] = h.req
        BY <3>1, <1>15 DEF First
    <3>5. First(new, oqn[d], h)
        BY <3>1, <3>2, <1>1, <1>3, <1>14, <3>4 DEF First
    <3> QED BY <3>5 DEF h
  <2>2. ASSUME NEW x \in Msg, new[x].cut
        PROVE  Halfway(wi[new[x].owner]) /\ Last(wi[new[x].owner]).req = x
      BY <2>2, <1>1, <1>0 DEF OnWire
  <2> QED BY <2>1, <2>2, <1>0 DEF OnWire
<1> QED BY <1>13, <1>18, <1>19, <1>14, <1>21, <1>22 DEF Flow, Sending

(* A request as it is read.                                                *)
LEMMA FreshIs ==
    ASSUME NEW c \in Client
    PROVE  /\ Fresh(c) \in MsgRec
           /\ Fresh(c).st = "live" /\ Fresh(c).owner = c /\ Fresh(c).frag_id = None
           /\ Fresh(c).frag_owner = None /\ Fresh(c).nfrag = 0 /\ Fresh(c).nfrag_done = 0
           /\ Fresh(c).done = FALSE /\ Fresh(c).error = FALSE /\ Fresh(c).fdone = FALSE
           /\ Fresh(c).ferror = FALSE /\ Fresh(c).swallow = FALSE /\ Fresh(c).cut = FALSE
<1>1. NoMsg \in MsgRec
    BY FragmentsAssumption DEF NoMsg, MsgRec
<1>3. /\ NoMsg.frag_id = None /\ NoMsg.frag_owner = None /\ NoMsg.nfrag = 0
      /\ NoMsg.nfrag_done = 0 /\ NoMsg.done = FALSE /\ NoMsg.error = FALSE
      /\ NoMsg.fdone = FALSE /\ NoMsg.ferror = FALSE /\ NoMsg.swallow = FALSE
      /\ NoMsg.cut = FALSE
    BY DEF NoMsg
<1> QED BY <1>1, <1>3 DEF Fresh, MsgRec

(* What a request that is read needs of the places.                        *)
LEMMA ReceiveNext ==
    ASSUME IInv, pc = "loop", NEW c \in Client, c \notin gone, pc' = "forward", cur' = c,
           frag_msgq' # <<>>, UNCHANGED <<queue, send_msgq, gone, nfault, nlost, wire>>,
           nmsg' \in 0..MaxMsg,
           Flow(msg', nlost, nmsg', omsg_q', queue, frag_msgq', <<>>, c, gone, wire)
    PROVE  IInv'
<1>1. send_msgq' = <<>>
    BY LoopStart
<1>3. Places(frag_msgq', send_msgq', pc', cur', gone')
    BY <1>1 DEF Places
<1>4. gone' \subseteq Client /\ nfault' \in 0..MaxFault
    BY IInvIs
<1> QED BY <1>1, <1>3, <1>4, IInvNext

(* What arrives with a request for one server.                             *)
LEMMA PlainIs ==
    ASSUME IInv, NEW c \in Client, ReceivePlain(c)
    PROVE  LET k == nmsg
           IN /\ pc = "loop" /\ c \notin gone /\ nmsg' = k + 1 /\ pc' = "forward" /\ cur' = c
              /\ UNCHANGED <<omsg_q, queue, send_msgq, gone, nfault, nlost, wire>>
              /\ k \in Nat /\ k + 1 \in Msg /\ k + 1 + 0 = k + 1 /\ k + 1 <= MaxMsg
              /\ k + 1 \in 0..MaxMsg
              /\ Arrived(msg, msg', k, 0, FALSE, c) /\ msg'[k + 1].peer = "none"
              /\ frag_msgq' \in Seq(Msg) /\ Increasing(frag_msgq') /\ frag_msgq' # <<>>
              /\ ToSet(frag_msgq') = {k + 1}
<1> DEFINE k == nmsg
           fm == <<k + 1>>
           new == [msg EXCEPT ![k + 1] = Fresh(c)]
<1>1. /\ pc = "loop" /\ c \notin gone /\ k < MaxMsg /\ nmsg' = k + 1
      /\ msg' = new /\ frag_msgq' = fm /\ pc' = "forward" /\ cur' = c
      /\ UNCHANGED <<omsg_q, queue, send_msgq, gone, nfault, nlost, wire>>
    BY DEF ReceivePlain
<1>2. /\ Flow(msg, nlost, k, omsg_q, queue, <<>>, <<>>, None, gone, wire)
      /\ msg \in [Msg -> MsgRec]
    BY <1>1, LoopStart
<1>3. k \in 0..MaxMsg /\ MaxMsg \in Nat
    BY IInvIs, FragmentsAssumption
<1> HIDE DEF k
<1>4. k \in Nat /\ k + 1 \in Msg /\ k + 1 + 0 = k + 1 /\ k + 1 <= MaxMsg /\ k + 1 \in 0..MaxMsg
      /\ \A x : x \in (k + 1)..(k + 1) <=> x = k + 1
    BY <1>1, <1>3 DEF Msg
<1>5. Arrived(msg, new, k, 0, FALSE, c)
  <2>1. \A x \in Msg : new[x] = IF x = k + 1 THEN Fresh(c) ELSE msg[x]
      BY <1>2, <1>4
  <2>2. new \in [Msg -> MsgRec]
      BY <1>2, <1>4, FreshIs
  <2> HIDE DEF new
  <2>4. \A x \in Msg : x \in (k + 1)..(k + 1 + 0) => x = k + 1 /\ new[x] = Fresh(c)
      BY <2>1, <1>4
  <2> QED BY <2>2, <2>1, <1>4, <2>4, FreshIs DEF Arrived
<1>7. new[k + 1].peer = "none"
  <2>1. new[k + 1] = Fresh(c)
      BY <1>2, <1>4
  <2>2. Fresh(c).peer = "none"
      BY DEF Fresh, NoMsg
  <2> HIDE DEF new
  <2> QED BY <2>1, <2>2
<1>8. /\ fm \in Seq(Msg) /\ Increasing(fm) /\ fm # <<>>
      /\ ToSet(fm) = {k + 1}
  <2> DEFINE y == k + 1
  <2>1. y \in Msg
      BY <1>4
  <2> HIDE DEF y
  <2>2. <<y>> \in Seq(Msg) /\ <<y>> # <<>> /\ Len(<<y>>) = 1 /\ <<y>>[1] = y
      BY <2>1
  <2>4. ToSet(<<y>>) = {y}
      BY <2>2 DEF ToSet
  <2> QED BY <2>2, <2>4 DEF y, Increasing
<1> HIDE DEF new, fm
<1> QED
    BY <1>1, <1>4, <1>5, <1>7, <1>8 DEF k

(* A request for one server is read (ReceivePlain).                        *)
LEMMA PlainKeeps ==
    ASSUME IInv, NEW c \in Client, ReceivePlain(c)
    PROVE  IInv'
<1> DEFINE k == nmsg
           fm == frag_msgq'
<1>1. /\ pc = "loop" /\ c \notin gone /\ nmsg' = k + 1 /\ pc' = "forward" /\ cur' = c
      /\ UNCHANGED <<omsg_q, queue, send_msgq, gone, nfault, nlost, wire>>
      /\ k \in Nat /\ k + 1 \in Msg /\ k + 1 + 0 = k + 1 /\ k + 1 <= MaxMsg
      /\ k + 1 \in 0..MaxMsg
      /\ Arrived(msg, msg', k, 0, FALSE, c)
      /\ fm \in Seq(Msg) /\ Increasing(fm) /\ fm # <<>> /\ ToSet(fm) = {k + 1}
    BY PlainIs
<1>2. /\ Flow(msg, nlost, k, omsg_q, queue, <<>>, <<>>, None, gone, wire)
      /\ msg \in [Msg -> MsgRec]
    BY <1>1, LoopStart
<1> HIDE DEF k, fm
<1>8. Flow(msg', nlost, nmsg', omsg_q', queue, frag_msgq', <<>>, c, gone, wire)
    BY <1>1, <1>2, ArriveKeeps DEF fm
<1> QED BY <1>1, <1>8, ReceiveNext DEF fm

(* What arrives with a request that is split.                              *)
LEMMA SplitIs ==
    ASSUME IInv, NEW c \in Client, NEW p \in 1..MaxParts, ReceiveSplit(c, p)
    PROVE  LET k == nmsg
           IN /\ pc = "loop" /\ c \notin gone /\ nmsg' = k + 1 + p /\ pc' = "forward" /\ cur' = c
              /\ omsg_q' = [omsg_q EXCEPT ![c] = Append(@, k + 1)]
              /\ UNCHANGED <<queue, send_msgq, gone, nfault, nlost, wire>>
              /\ k \in Nat /\ p \in Nat /\ k + 1 \in Msg /\ k + 1 + p <= MaxMsg
              /\ k + 1 + p \in 0..MaxMsg
              /\ Arrived(msg, msg', k, p, TRUE, c)
              /\ \A x \in (k + 1)..(k + 1 + p) : msg'[x].peer \in {"none", "reply"}
              /\ frag_msgq' \in Seq(Msg) /\ Increasing(frag_msgq') /\ frag_msgq' # <<>>
              /\ ToSet(frag_msgq') = (k + 2)..(k + 1 + p)
<1> DEFINE k == nmsg
           m == k + 1
           part == [Fresh(c) EXCEPT !.frag_id = m, !.frag_owner = m]
           whole == [part EXCEPT !.nfrag = p, !.done = TRUE, !.peer = "reply"]
           parts == (m + 1)..(m + p)
           fm == [i \in 1..p |-> m + i]
           oqn == [omsg_q EXCEPT ![c] = Append(@, m)]
           new == [n \in Msg |-> IF n = m THEN whole
                                 ELSE IF n \in parts THEN part ELSE msg[n]]
<1>1. /\ pc = "loop" /\ c \notin gone /\ k + p < MaxMsg /\ nmsg' = k + p + 1
      /\ msg' = new /\ frag_msgq' = fm /\ omsg_q' = oqn /\ pc' = "forward" /\ cur' = c
      /\ UNCHANGED <<queue, send_msgq, gone, nfault, nlost, wire>>
    BY DEF ReceiveSplit, req_make_reply
<1>2. /\ Flow(msg, nlost, k, omsg_q, queue, <<>>, <<>>, None, gone, wire)
      /\ msg \in [Msg -> MsgRec]
    BY <1>1, LoopStart
<1>3. k \in 0..MaxMsg /\ MaxMsg \in Nat /\ p \in Nat /\ p # 0 /\ p \in 0..MaxParts
    BY IInvIs, FragmentsAssumption
<1> HIDE DEF k
<1>4. /\ k \in Nat /\ m \in Msg /\ k + p + 1 = k + 1 + p /\ k + 1 + p <= MaxMsg
      /\ k + 1 + p \in 0..MaxMsg /\ m + p = k + 1 + p /\ m + 1 = k + 2
      /\ \A x \in parts : x \in Msg /\ x # m
      /\ \A x \in (k + 1)..(k + 1 + p) : x = m \/ x \in parts
      /\ m \in (k + 1)..(k + 1 + p) /\ parts \subseteq (k + 1)..(k + 1 + p)
  <2>1. k \in Nat /\ k + p < MaxMsg
      BY <1>1, <1>3
  <2>2. /\ m \in Msg /\ k + p + 1 = k + 1 + p /\ k + 1 + p <= MaxMsg
        /\ k + 1 + p \in 0..MaxMsg /\ m + p = k + 1 + p /\ m + 1 = k + 2
      BY <2>1, <1>3 DEF Msg
  <2>3. \A x \in parts : x \in Msg /\ x # m
      BY <2>1, <1>3 DEF Msg
  <2>4. ASSUME NEW x \in (k + 1)..(k + 1 + p) PROVE x = m \/ x \in parts
      BY <2>1, <1>3
  <2>5. m \in (k + 1)..(k + 1 + p) /\ parts \subseteq (k + 1)..(k + 1 + p)
      BY <2>1, <1>3
  <2> HIDE DEF m, parts
  <2> QED BY <2>1, <2>2, <2>3, <2>4, <2>5
<1>5. /\ part \in MsgRec /\ part.st = "live" /\ part.owner = c
      /\ part.frag_id = m /\ part.frag_owner = m /\ part.nfrag_done = 0
      /\ part.done = FALSE /\ part.error = FALSE /\ part.fdone = FALSE
      /\ part.ferror = FALSE /\ part.swallow = FALSE /\ part.cut = FALSE
      /\ part.peer = "none"
  <2> DEFINE f == Fresh(c)
  <2>1. /\ f \in MsgRec /\ f.st = "live" /\ f.owner = c /\ f.nfrag_done = 0
        /\ f.done = FALSE /\ f.error = FALSE /\ f.fdone = FALSE
        /\ f.ferror = FALSE /\ f.swallow = FALSE /\ f.cut = FALSE /\ f.peer = "none"
    <3> QED BY FreshIs DEF Fresh, NoMsg
  <2> HIDE DEF f, m
  <2> QED BY <2>1, <1>4 DEF f, MsgRec
<1> HIDE DEF part, m
<1>6. /\ whole \in MsgRec /\ whole.st = part.st /\ whole.owner = part.owner
      /\ whole.frag_id = part.frag_id /\ whole.frag_owner = part.frag_owner
      /\ whole.nfrag_done = part.nfrag_done
      /\ whole.nfrag = p /\ whole.done = TRUE /\ whole.error = part.error
      /\ whole.fdone = part.fdone /\ whole.ferror = part.ferror
      /\ whole.swallow = part.swallow /\ whole.cut = part.cut /\ whole.peer = "reply"
    BY <1>3, <1>5 DEF MsgRec
<1> HIDE DEF whole, parts
<1>7. Arrived(msg, new, k, p, TRUE, c)
  <2>1. new \in [Msg -> MsgRec]
      BY <1>2, <1>5, <1>6
  <2>2. \A x \in Msg : /\ x = m => new[x] = whole
                       /\ x # m /\ x \in parts => new[x] = part
                       /\ x # m /\ x \notin parts => new[x] = msg[x]
      OBVIOUS
  <2> HIDE DEF new
  <2>3. \A x \in Msg : x \notin (k + 1)..(k + 1 + p) => new[x] = msg[x]
      BY <2>2, <1>4
  <2>4. \A x \in Msg : x \in (k + 1)..(k + 1 + p) =>
            (x = m /\ new[x] = whole) \/ (x # m /\ new[x] = part)
      BY <2>2, <1>4
  <2>5. m = k + 1
      BY DEF m
  <2> DEFINE A == (k + 1)..(k + 1 + p)
  <2> HIDE DEF A
  <2>6. ASSUME NEW x \in Msg, x \in A
        PROVE  /\ new[x].st = "live" /\ new[x].owner = c
               /\ new[x].frag_id = m /\ new[x].frag_owner = m
               /\ x = m => new[x].nfrag = p
               /\ new[x].nfrag_done = 0
               /\ (new[x].done <=> x = m)
               /\ ~new[x].error /\ ~new[x].fdone /\ ~new[x].ferror /\ ~new[x].swallow
               /\ ~new[x].cut
    <3>1. CASE x = m
      <4> QED BY <3>1, <2>2, <1>5, <1>6
    <3>2. CASE x # m
      <4> QED BY <3>2, <2>4, <2>6, <1>5 DEF A
    <3> QED BY <3>1, <3>2
  <2> QED BY <2>1, <2>3, <2>5, <2>6 DEF Arrived, A
<1>8. /\ fm \in Seq(Msg) /\ Increasing(fm) /\ fm # <<>>
      /\ ToSet(fm) = (k + 2)..(k + 1 + p)
  <2>1. \A i \in 1..p : m + i \in Msg /\ m + i \in parts
      BY <1>1, <1>3, <1>4 DEF parts, m, Msg
  <2>2. /\ fm \in Seq(Msg) /\ Len(fm) = p /\ DOMAIN fm = 1..p
        /\ \A i \in 1..p : fm[i] = m + i
    <3>2. fm \in Seq(Msg) /\ DOMAIN fm = 1..p
        BY <2>1, <1>3, SeqDef
    <3>3. Len(fm) = p
      <4> HIDE DEF fm
      <4> QED BY <3>2, <1>3
    <3> QED BY <3>2, <3>3
  <2> HIDE DEF fm
  <2>3. Increasing(fm)
      BY <2>2, <1>3, <1>4 DEF m, Increasing
  <2>5. ToSet(fm) = {m + i : i \in 1..p}
      BY <2>2 DEF ToSet
  <2>6. {m + i : i \in 1..p} = (k + 2)..(k + 1 + p)
    <3>1. ASSUME NEW x \in (k + 2)..(k + 1 + p) PROVE \E i \in 1..p : m + i = x
        BY <1>3, <1>4 DEF m
    <3>2. \A i \in 1..p : m + i \in (k + 2)..(k + 1 + p)
        BY <1>3, <1>4 DEF m
    <3> QED BY <3>1, <3>2
  <2> QED BY <2>2, <2>3, <1>3, <2>5, <2>6
<1>9. \A x \in (k + 1)..(k + 1 + p) : new[x].peer \in {"none", "reply"}
  <2>1. \A x \in Msg : /\ x = m => new[x] = whole
                       /\ x # m /\ x \in parts => new[x] = part
      OBVIOUS
  <2> HIDE DEF new
  <2> QED BY <2>1, <1>4, <1>5, <1>6
<1> HIDE DEF new, fm
<1>10. m = k + 1
    BY DEF m
<1>11. omsg_q' = [omsg_q EXCEPT ![c] = Append(@, k + 1)]
    BY <1>1, <1>10
<1>12. nmsg' = k + 1 + p
    BY <1>1, <1>4
<1> HIDE DEF oqn
<1> QED
    BY <1>1, <1>3, <1>4, <1>7, <1>8, <1>9, <1>10, <1>11, <1>12 DEF k

(* A request is read and split (ReceiveSplit).                             *)
LEMMA SplitKeeps ==
    ASSUME IInv, NEW c \in Client, NEW p \in 1..MaxParts, ReceiveSplit(c, p)
    PROVE  IInv'
<1> DEFINE k == nmsg
           fm == frag_msgq'
           oqn == omsg_q'
<1>1. /\ pc = "loop" /\ c \notin gone /\ nmsg' = k + 1 + p /\ pc' = "forward" /\ cur' = c
      /\ oqn = [omsg_q EXCEPT ![c] = Append(@, k + 1)]
      /\ UNCHANGED <<queue, send_msgq, gone, nfault, nlost, wire>>
      /\ k \in Nat /\ p \in Nat /\ k + 1 \in Msg /\ k + 1 + p <= MaxMsg
      /\ k + 1 + p \in 0..MaxMsg
      /\ Arrived(msg, msg', k, p, TRUE, c)
      /\ fm \in Seq(Msg) /\ Increasing(fm) /\ fm # <<>>
      /\ ToSet(fm) = (k + 2)..(k + 1 + p)
    BY SplitIs
<1>2. /\ Flow(msg, nlost, k, omsg_q, queue, <<>>, <<>>, None, gone, wire)
      /\ msg \in [Msg -> MsgRec]
    BY <1>1, LoopStart
<1> HIDE DEF k, fm, oqn
<1>4. Flow(msg', nlost, nmsg', omsg_q', queue, frag_msgq', <<>>, c, gone, wire)
    BY <1>1, <1>2, ArriveKeeps DEF fm, oqn
<1> QED BY <1>1, <1>4, ReceiveNext DEF fm

(* What is taken out behind the first j of a queue leaves these alone.     *)
LEMMA WithoutPrefix ==
    ASSUME NEW T, NEW q \in Seq(T), NEW S, NEW j \in 0..Len(q),
           \A i \in 1..j : q[i] \notin S
    PROVE  /\ Len(Without(q, S)) >= j
           /\ \A i \in 1..j : Without(q, S)[i] = q[i]
<1>1. PICK h : IsRest(h, q, S) /\ Without(q, S) = h[Len(q)] /\ h \in [0..Len(q) -> Seq(T)]
    BY RestExists
<1>2. Len(q) \in Nat /\ \A i \in 1..Len(q) : q[i] \in T
    BY PlaceOf
<1>3. \A i \in 0..Len(q) : h[i] = IF i = 0 THEN <<>>
                                  ELSE IF q[i] \in S THEN h[i - 1] ELSE Append(h[i - 1], q[i])
    BY <1>1 DEF IsRest
<1> DEFINE Good(k) == /\ h[k] \in Seq(T)
                      /\ k <= j => Len(h[k]) = k /\ \A i \in 1..k : h[k][i] = q[i]
                      /\ k >= j => Len(h[k]) >= j /\ \A i \in 1..j : h[k][i] = q[i]
           K == {k \in Nat : k <= Len(q) => Good(k)}
<1>4. 0 \in K
  <2>1. h[0] = <<>> /\ <<>> \in Seq(T) /\ Len(<<>>) = 0
      BY <1>2, <1>3
  <2>2. j \in Nat /\ 1..0 = {}
      BY <1>2
  <2>3. /\ 0 <= j => Len(h[0]) = 0 /\ \A i \in 1..0 : h[0][i] = q[i]
        /\ 0 >= j => Len(h[0]) >= j /\ \A i \in 1..j : h[0][i] = q[i]
    <3> QED BY <2>1, <2>2
  <2>4. Good(0)
      BY <2>1, <2>3
  <2> HIDE DEF Good
  <2> QED BY <2>4
<1>5. ASSUME NEW k \in Nat, k \in K PROVE k + 1 \in K
  <2>0. k + 1 <= Len(q) => Good(k + 1)
    <3> SUFFICES ASSUME k + 1 <= Len(q) PROVE Good(k + 1)
        OBVIOUS
    <3>1. k + 1 \in 0..Len(q) /\ k + 1 # 0 /\ (k + 1) - 1 = k /\ k + 1 \in 1..Len(q)
        BY <1>2
    <3>2. h[k + 1] = IF q[k + 1] \in S THEN h[k] ELSE Append(h[k], q[k + 1])
        BY <1>3, <3>1
    <3>3. Good(k)
      <4> HIDE DEF Good
      <4> QED BY <1>2, <1>5
    <3>5. /\ Append(h[k], q[k + 1]) \in Seq(T)
          /\ Len(Append(h[k], q[k + 1])) = Len(h[k]) + 1
          /\ \A i \in 1..Len(h[k]) : Append(h[k], q[k + 1])[i] = h[k][i]
          /\ Append(h[k], q[k + 1])[Len(h[k]) + 1] = q[k + 1]
          /\ Len(h[k]) \in Nat
        BY <3>3, <1>2, <3>1
    <3>6. CASE k + 1 <= j
        BY <3>6, <1>2, <3>2, <3>3, <3>5
    <3>7. CASE k >= j
        BY <3>3, <3>7, <3>5, <3>2
    <3> QED BY <3>6, <3>7, <1>2
  <2> HIDE DEF Good
  <2> QED BY <2>0
<1>6. \A k \in Nat : k \in K
  <2> HIDE DEF K
  <2>1. \A k \in Nat : k \in K => k + 1 \in K
      BY <1>5
  <2> QED BY ONLY <1>4, <2>1, SetInduction
<1>7. Good(Len(q))
  <2> HIDE DEF Good
  <2> QED BY <1>2, <1>6
<1> QED
    BY <1>1, <1>2, <1>7

(* A queue in order of arrival holds each message once.                    *)
LEMMA OncePlaced ==
    ASSUME NEW q \in Seq(Int), Increasing(q), NEW i \in 1..Len(q), NEW j \in 1..Len(q),
           q[i] = q[j]
    PROVE  i = j
<1>1. q[i] \in Int /\ Len(q) \in Nat
    BY PlaceOf
<1> QED BY <1>1 DEF Increasing

(* The request whose turn it is follows what is gathered, which is the     *)
(* beginning of out_q.                                                     *)
LEMMA TurnIs ==
    ASSUME IInv, pc = "send"
    PROVE  /\ frag_msgq = <<>> /\ cur \in Client \ gone
           /\ Turn = Len(send_msgq) + 1
           /\ omsg_q[cur] \in Seq(Msg) /\ Increasing(omsg_q[cur])
           /\ Len(send_msgq) \in Nat /\ Len(send_msgq) <= Len(omsg_q[cur])
           /\ \A i \in 1..Len(send_msgq) : send_msgq[i] = omsg_q[cur][i]
<1> DEFINE q == omsg_q[cur]
           s == send_msgq
<1>1. /\ Flow(msg, nlost, nmsg, omsg_q, queue, frag_msgq, s, cur, gone, wire)
      /\ Places(frag_msgq, s, pc, cur, gone)
      /\ omsg_q \in [Client -> Seq(Msg)] /\ s \in Seq(Msg)
    BY IInvIs
<1>2. frag_msgq = <<>> /\ cur \in Client \ gone
    BY <1>1 DEF Places
<1>3. q \in Seq(Msg) /\ Increasing(q)
    BY <1>1, <1>2 DEF Flow, OutQueues
<1>4. Len(s) \in Nat /\ Len(q) \in Nat /\ (s = <<>> <=> Len(s) = 0)
    BY <1>1, <1>3
<1>5. Len(s) <= Len(q) /\ \A i \in 1..Len(s) : s[i] = q[i]
  <2>1. s # <<>> => Len(s) <= Len(q) /\ \A i \in 1..Len(s) : s[i] = q[i]
      BY <1>1 DEF Flow, Sending
  <2> HIDE DEF s, q
  <2> QED BY <2>1, <1>4
<1>6. Turn = Len(s) + 1
  <2>1. CASE s = <<>>
      BY <2>1, <1>4 DEF Turn
  <2>2. CASE s # <<>>
    <3> DEFINE n == Len(s)
    <3>1. n \in 1..n /\ n \in 1..Len(q) /\ DOMAIN q = 1..Len(q)
        BY <2>2, <1>3, <1>4, <1>5
    <3>2. q[n] = Last(s)
        BY <3>1, <1>5 DEF Last
    <3>3. q \in Seq(Int)
        BY <1>3, SeqOfInts
    <3> DEFINE i == CHOOSE i \in DOMAIN q : q[i] = Last(s)
    <3>4. i \in 1..Len(q) /\ q[i] = Last(s)
      <4> HIDE DEF q, n, s
      <4> QED BY <3>1, <3>2
    <3>5. i = n
      <4> HIDE DEF q, n, s, i
      <4>1. q[i] = q[n] /\ i \in 1..Len(q) /\ n \in 1..Len(q)
          BY <3>1, <3>2, <3>4
      <4>2. Increasing(q)
          BY <1>3
      <4> QED BY ONLY <3>3, <4>1, <4>2, OncePlaced
    <3>6. Turn = 1 + i
        BY <2>2 DEF Turn
    <3>7. n \in Nat
        BY <1>4
    <3> HIDE DEF i, n
    <3> QED BY <3>5, <3>6, <3>7 DEF n
  <2> QED BY <2>1, <2>2
<1> QED
    BY <1>2, <1>3, <1>4, <1>5, <1>6

(* The next of out_q is gathered when it is settled and, without an error, *)
(* its fragments have none.                                                *)
LEMMA GatherKeeps ==
    ASSUME NEW mg, NEW nl, NEW k, NEW oq, NEW qu, NEW sm, NEW cu, NEW go, NEW wi,
           Flow(mg, nl, k, oq, qu, <<>>, sm, cu, go, wi), cu \in Client,
           oq[cu] \in Seq(Msg), Len(sm) + 1 <= Len(oq[cu]),
           \A i \in 1..Len(sm) : sm[i] = oq[cu][i],
           NEW m, m = oq[cu][Len(sm) + 1],
           mg[m].done, mg[m].frag_id # None => mg[m].fdone,
           mg[m].peer = "error" \/ ~mg[m].error,
           \A n \in PartsOf(mg, m) : mg[n].fdone /\ ~mg[n].error
    PROVE  Flow(mg, nl, k, oq, qu, <<>>, Append(sm, m), cu, go, wi)
<1>1. sm \in Seq(Msg) /\ Len(sm) \in Nat
    BY DEF Flow, Sending
<1>2. m \in Msg
    BY <1>1, PlaceOf
<1>3. /\ Append(sm, m) \in Seq(Msg) /\ Len(Append(sm, m)) = Len(sm) + 1
      /\ ToSet(Append(sm, m)) = ToSet(sm) \cup {m}
    BY <1>1, <1>2, AppendFacts
<1>4. ASSUME NEW i \in 1..(Len(sm) + 1) PROVE Append(sm, m)[i] = oq[cu][i]
    BY <1>1, <1>2
<1>6. Errors(mg, Append(sm, m))
  <2>1. ASSUME NEW x \in Msg, NEW o, o = mg[x].frag_owner, Live(mg, x), o # None, o # x,
               ~mg[x].swallow, ~Live(mg, o) \/ o \in ToSet(Append(sm, m)) \/ mg[o].cut
        PROVE  mg[x].fdone /\ ~mg[x].error
    <3>1. CASE o = m
      <4> QED BY <2>1, <3>1 DEF PartsOf
    <3>2. CASE o # m
        BY <2>1, <3>2, <1>3 DEF Flow, Errors
    <3> QED BY <3>1, <3>2
  <2>3. \A x \in Msg : mg[x].cut \/ x \in ToSet(Append(sm, m)) =>
            mg[x].peer = "error" \/ ~mg[x].error
      BY <1>3 DEF Flow, Errors
  <2> QED BY <2>1, <2>3 DEF Errors, Flow
<1> QED BY <1>3, <1>4, <1>6 DEF Flow, Sending

-----------------------------------------------------------------------------
(* What rsp_make_error leaves of the request m, once its fragments are     *)
(* gone.                                                                   *)
Errored(mg, m) ==
    [x \in Msg |-> IF x = m THEN [mg[x] EXCEPT !.peer = "error", !.cut = FALSE,
                                               !.ferror = @ \/ mg[x].frag_id # None]
                   ELSE mg[x]]

(* What it changes of a message.                                           *)
LEMMA ErroredFields ==
    ASSUME NEW mg, mg \in [Msg -> MsgRec], NEW m \in Msg
    PROVE  LET new == Errored(mg, m)
           IN /\ new \in [Msg -> MsgRec]
              /\ \A x \in Msg :
                   /\ new[x].st = mg[x].st /\ new[x].owner = mg[x].owner
                   /\ new[x].frag_id = mg[x].frag_id /\ new[x].frag_owner = mg[x].frag_owner
                   /\ new[x].nfrag = mg[x].nfrag /\ new[x].nfrag_done = mg[x].nfrag_done
                   /\ new[x].fdone = mg[x].fdone /\ new[x].swallow = mg[x].swallow
                   /\ new[x].done = mg[x].done /\ new[x].error = mg[x].error
                   /\ (new[x].ferror <=> mg[x].ferror \/ (x = m /\ mg[x].frag_id # None))
                   /\ (new[x].cut <=> mg[x].cut /\ x # m)
                   /\ new[x].peer = IF x = m THEN "error" ELSE mg[x].peer
                   /\ x # m => new[x] = mg[x]
<1> DEFINE new == Errored(mg, m)
<1>1. ASSUME NEW x \in Msg
      PROVE  /\ new[x] \in MsgRec
             /\ new[x].st = mg[x].st /\ new[x].owner = mg[x].owner
             /\ new[x].frag_id = mg[x].frag_id /\ new[x].frag_owner = mg[x].frag_owner
             /\ new[x].nfrag = mg[x].nfrag /\ new[x].nfrag_done = mg[x].nfrag_done
             /\ new[x].fdone = mg[x].fdone /\ new[x].swallow = mg[x].swallow
             /\ new[x].done = mg[x].done /\ new[x].error = mg[x].error
             /\ (new[x].ferror <=> mg[x].ferror \/ (x = m /\ mg[x].frag_id # None))
             /\ (new[x].cut <=> mg[x].cut /\ x # m)
             /\ new[x].peer = IF x = m THEN "error" ELSE mg[x].peer
             /\ x # m => new[x] = mg[x]
  <2> DEFINE r == mg[x]
             f == r.ferror \/ r.frag_id # None
             s == [mg[x] EXCEPT !.peer = "error", !.cut = FALSE, !.ferror = f]
  <2>0. r \in MsgRec /\ f \in BOOLEAN
      BY DEF MsgRec
  <2>1. CASE x # m
    <3>1. new[x] = mg[x]
        BY <2>1 DEF Errored
    <3> HIDE DEF new
    <3> QED BY <2>0, <2>1, <3>1
  <2>2. CASE x = m
    <3>1. new[x] = s
        BY <2>2 DEF Errored
    <3> HIDE DEF new, f
    <3>2. /\ s.st = r.st /\ s.owner = r.owner /\ s.frag_id = r.frag_id
          /\ s.frag_owner = r.frag_owner /\ s.nfrag = r.nfrag
          /\ s.nfrag_done = r.nfrag_done /\ s.fdone = r.fdone
          /\ s.swallow = r.swallow /\ s.done = r.done /\ s.error = r.error
          /\ s.ferror = f /\ s.cut = FALSE /\ s.peer = "error"
          /\ s \in MsgRec
        BY <2>0 DEF MsgRec
    <3> HIDE DEF s
    <3> QED BY <2>2, <3>1, <3>2 DEF f
  <2> QED BY <2>1, <2>2
<1>2. new \in [Msg -> MsgRec]
  <2>1. \A x \in Msg : new[x] \in MsgRec
      BY <1>1
  <2>2. new = [x \in Msg |-> new[x]]
      BY DEF Errored
  <2> HIDE DEF new
  <2> QED BY <2>1, <2>2
<1> QED
    BY <1>1, <1>2

(* The request whose turn it is: either nothing of it failed, or it is no  *)
(* fragment, and rsp_make_error drops all of its fragments.                *)
LEMMA ErrorIs ==
    ASSUME NEW mg, NEW nl, NEW k, NEW oq, NEW sm, NEW cu, NEW go,
           Tree(mg, nl, k), OutQueues(mg, oq, <<>>, cu, go), Errors(mg, sm),
           cu \in Client, NEW i \in DOMAIN oq[cu],
           \A j \in 1..(i - 1) : oq[cu][j] \in ToSet(sm),
           NEW m, m = oq[cu][i], mg[m].done, mg[m].frag_id # None => mg[m].fdone
    PROVE  /\ m \in Msg /\ Live(mg, m) /\ mg[m].owner = cu
           /\ \A n \in PartsOf(mg, m) : /\ n \in ToSet(oq[cu]) /\ n > m /\ Live(mg, n)
                                        /\ mg[n].done /\ mg[n].fdone
           /\ ~req_error(mg, oq[cu], i) => /\ ~mg[m].error
                                           /\ \A n \in PartsOf(mg, m) : ~mg[n].error
           /\ req_error(mg, oq[cu], i) =>
                 /\ mg[m].frag_owner \in {None, m}
                 /\ mg[m].cut => mg[m].peer = "error"
                 /\ rsp_make_error(mg, oq[cu], i) =
                       <<Errored(Removed(mg, PartsOf(mg, m), {}), m),
                         Without(oq[cu], PartsOf(mg, m))>>
<1> DEFINE q == oq[cu]
           P == PartsOf(mg, m)
           o == mg[m].frag_owner
<1>1. /\ q \in Seq(Msg) /\ DOMAIN q = 1..Len(q) /\ Len(q) \in Nat /\ i \in 1..Len(q)
      /\ ToSet(q) \subseteq Msg /\ m \in ToSet(q) /\ m \in Msg
      /\ \A x \in ToSet(q) : \E j \in 1..Len(q) : q[j] = x
  <2> QED BY PlaceOf DEF OutQueues
<1>2. \A x \in ToSet(q) : Live(mg, x) /\ mg[x].owner = cu /\ ~mg[x].swallow
    BY DEF OutQueues
<1>3. Increasing(q)
    BY DEF OutQueues
<1>4. ToSet(<<>>) = {}
    BY DEF ToSet
<1>5. \A x \in Msg : x \in Nat /\ x # None
    BY FragmentsAssumption DEF Msg, None
<1>6. mg \in [Msg -> MsgRec] /\ mg[m].frag_id = o /\ o \in Msg \cup {None}
    BY <1>1, <1>2, MessageTypes DEF Tree, Groups
<1>7. P # {} => o = m
  <2> SUFFICES ASSUME NEW n \in P PROVE o = m
      OBVIOUS
  <2>1. n \in Msg /\ mg[n].frag_owner = m /\ n # m
      BY DEF PartsOf
  <2>6. m # None /\ mg \in [Msg -> MsgRec] /\ Blank(mg, nl, k)
      BY <1>1, <1>5 DEF Tree
  <2>2. Live(mg, n)
    <3> HIDE DEF P, q, o
    <3> QED BY <2>1, <2>6, BlankMessage
  <2>3. mg[n].frag_owner # None /\ Live(mg, mg[n].frag_owner)
      BY <2>1, <1>1, <1>2, <1>5
  <2>5. n \in Msg
      BY <2>1
  <2>4. mg[mg[n].frag_owner].frag_owner = mg[n].frag_owner
      BY ONLY Tree(mg, nl, k), <2>2, <2>3, <2>5, OwnerIs
  <2> QED BY <2>1, <2>4
<1>8. ASSUME NEW n \in P
      PROVE  /\ n \in ToSet(q) /\ n > m /\ Live(mg, n) /\ mg[n].done /\ mg[n].fdone
             /\ mg[n].frag_id = m /\ n \in Msg /\ ~mg[n].swallow /\ mg[n].frag_owner = m
             /\ n # m
  <2>0. o = m
      BY <1>7
  <2>1. /\ n \in Msg /\ Live(mg, n) /\ mg[n].frag_id = m /\ ~mg[n].swallow
        /\ mg[n].owner = mg[m].owner /\ n > m /\ mg[n].fdone = mg[m].fdone
        /\ mg[n].frag_owner = m
      BY <2>0, <1>1, <1>2, PartsAre
  <2>2. mg[m].fdone
      BY <2>0, <1>1, <1>5, <1>6
  <2>4. mg[n].done
      BY <2>1, <2>2 DEF Tree, Flags
  <2>5. n # m
      BY DEF PartsOf
  <2> QED BY <2>1, <2>2, <1>4, WhereItIs, <2>4, <2>5, <1>1, <1>2
<1>9. mg[m].frag_id # None =>
          /\ Siblings(mg, q, i) = {n \in ToSet(q) \ {m} : mg[n].frag_id = mg[m].frag_id}
          /\ After(mg, q, i) = {n \in ToSet(q) : n > m /\ mg[n].frag_id = mg[m].frag_id}
    BY SiblingsAre
<1>10. o = m => Siblings(mg, q, i) = P /\ After(mg, q, i) = P
  <2> SUFFICES ASSUME o = m PROVE Siblings(mg, q, i) = P /\ After(mg, q, i) = P
      OBVIOUS
  <2>1. mg[m].frag_id = m /\ mg[m].frag_id # None
      BY <1>1, <1>5, <1>6
  <2>2. ASSUME NEW n \in ToSet(q) \ {m}, mg[n].frag_id = m PROVE n \in P
      BY <1>1, <1>2, <2>2 DEF Tree, Groups, PartsOf
  <2>3. ~(m > m)
      BY <1>1, <1>5
  <2> HIDE DEF P, q, o
  <2> QED BY <2>1, <2>2, <2>3, <1>8, <1>9
<1>11. ~req_error(mg, q, i) => ~mg[m].error /\ \A n \in P : ~mg[n].error
  <2> SUFFICES ASSUME ~req_error(mg, q, i)
               PROVE  ~mg[m].error /\ \A n \in P : ~mg[n].error
      OBVIOUS
  <2>2. ASSUME NEW n \in P PROVE ~mg[n].error
      BY <1>7, <1>1, <1>5, <1>6, <1>10 DEF req_error
  <2> QED BY <2>2 DEF req_error
<1>12. req_error(mg, q, i) => o \in {None, m}
  <2> SUFFICES ASSUME req_error(mg, q, i), o # None, o # m PROVE FALSE
      OBVIOUS
  <2>1. o \in Msg /\ mg[m].frag_id = o
      BY <1>6
  <2>2. ~Live(mg, o) \/ o \in ToSet(sm)
    <3> SUFFICES ASSUME Live(mg, o) PROVE o \in ToSet(sm)
        OBVIOUS
    <3>1. /\ mg[o].done /\ ~mg[o].swallow /\ mg[o].owner = mg[m].owner /\ o <= m
        BY <1>1, <1>2, OwnerIs
    <3>2. o \in ToSet(q)
        BY <2>1, <3>1, <1>1, <1>2, WhereItIs
    <3>3. PICK j \in 1..Len(q) : q[j] = o
        BY <3>2, <1>1
    <3>4. o < m
        BY <2>1, <3>1, <1>1, <1>5
    <3>5. ~(i < j) /\ j # i
      <4>1. q[i] = m /\ q[j] < q[i] /\ q[i] \in Nat /\ q[j] \in Nat
          BY <2>1, <3>3, <3>4, <1>1, <1>5
      <4> HIDE DEF q, o
      <4> QED BY <4>1, <1>1, <1>3 DEF Increasing
    <3>6. j \in 1..(i - 1)
      <4> HIDE DEF q
      <4> QED BY <3>5, <1>1
    <3> QED BY <3>3, <3>6
  <2>3. ASSUME NEW n \in ToSet(q), mg[n].frag_id = o PROVE ~mg[n].error
      BY <1>1, <1>2, <2>3, <2>2 DEF Tree, Groups, Errors
  <2>5. ~mg[m].ferror
      BY <1>1, <1>2 DEF Tree, Flags
  <2>6. \A n \in Siblings(mg, q, i) : ~mg[n].error
    <3> HIDE DEF q, o
    <3> QED BY <2>1, <2>3, <1>9
  <2> QED BY <2>1, <2>3, <1>1, <2>5, <2>6 DEF req_error
<1>13. req_error(mg, q, i) /\ mg[m].cut => mg[m].peer = "error"
  <2> SUFFICES ASSUME req_error(mg, q, i), mg[m].cut, mg[m].peer # "error" PROVE FALSE
      OBVIOUS
  <2>1. ~mg[m].error
      BY <1>1 DEF Errors
  <2>4. ASSUME NEW n \in P PROVE ~mg[n].error
      BY <1>1, <1>5, <1>8 DEF Errors
  <2>5. \A n \in Siblings(mg, q, i) : ~mg[n].error
      BY <2>1, <1>6, <1>12, <2>4, <1>10 DEF req_error
  <2> QED BY <2>1, <1>1, <1>2, <2>5 DEF req_error, Tree, Flags
<1>14. req_error(mg, q, i) =>
           rsp_make_error(mg, q, i) = <<Errored(Removed(mg, P, {}), m), Without(q, P)>>
  <2> SUFFICES ASSUME req_error(mg, q, i)
               PROVE  rsp_make_error(mg, q, i) = <<Errored(Removed(mg, P, {}), m), Without(q, P)>>
      OBVIOUS
  <2> DEFINE own == mg[m].error
             rest == IF mg[m].frag_id = None THEN {} ELSE After(mg, q, i)
             marked == [n \in Msg |->
                          IF n \in {m} \cup Siblings(mg, q, i) /\ ~own /\ ~mg[m].ferror
                          THEN [mg[n] EXCEPT !.ferror = TRUE] ELSE mg[n]]
             res == [req_put(marked, rest) EXCEPT ![m].peer = "error", ![m].cut = FALSE]
             new == Errored(Removed(mg, P, {}), m)
  <2>1. rsp_make_error(mg, q, i) = <<res, Without(q, rest)>>
      BY DEF rsp_make_error
  <2>2. o \in {None, m}
      BY <1>12
  <2>3. rest = P
    <3>1. CASE o = None
      <4> QED BY <3>1, <1>1, <1>5, <1>7, <1>6
    <3>2. CASE o = m
        BY <3>2, <1>1, <1>5, <1>6, <1>10
    <3> QED BY <2>2, <3>1, <3>2
  <2>4. m \notin P
      BY <1>8
  <2>5. ASSUME NEW x \in Msg PROVE res[x] = new[x]
    <3> DEFINE r == mg[m]
    <3>0. /\ \A y \in Msg : req_put(marked, P)[y] = IF y \in P THEN put(marked[y]) ELSE marked[y]
          /\ \A y \in Msg : Removed(mg, P, {})[y] = IF y \in P THEN put(mg[y]) ELSE mg[y]
        BY DEF req_put, Removed
    <3>00. \A y \in Msg : put(marked[y]) = put(mg[y])
        BY DEF put
    <3>1. CASE x # m
      <4>1. res[x] = req_put(marked, P)[x]
          BY <2>3, <3>1 DEF req_put
      <4>2. new[x] = Removed(mg, P, {})[x]
          BY <3>1 DEF Errored
      <4>3. x \notin P => marked[x] = mg[x]
        <5> SUFFICES ASSUME x \notin P, x \in Siblings(mg, q, i), ~own, ~mg[m].ferror
                     PROVE  FALSE
            BY <3>1
        <5> QED BY <2>2, <1>6, <1>10 DEF req_error
      <4> HIDE DEF res, new, marked
      <4> QED BY <4>1, <4>2, <4>3, <3>0, <3>00
    <3>2. CASE x = m
      <4>1. req_put(marked, P)[m] = marked[m] /\ Removed(mg, P, {})[m] = r
          BY <2>4, <3>0, <1>1
      <4>2. res[m] = [marked[m] EXCEPT !.peer = "error", !.cut = FALSE]
        <5>1. m \in DOMAIN req_put(marked, rest)
            BY <1>1 DEF req_put
        <5> HIDE DEF marked, rest
        <5> QED BY <5>1, <4>1, <2>3
      <4>3. new[m] = [r EXCEPT !.peer = "error", !.cut = FALSE,
                               !.ferror = r.ferror \/ r.frag_id # None]
          BY <4>1, <1>1 DEF Errored
      <4>4. r \in MsgRec
          BY <1>1, <1>6
      <4>5. marked[m] = IF ~own /\ ~r.ferror THEN [r EXCEPT !.ferror = TRUE] ELSE r
          BY <1>1
      <4>6. own => r.frag_id = None
        <5> SUFFICES ASSUME own, r.frag_id # None PROVE FALSE
            OBVIOUS
        <5> QED BY <2>2, <1>6, <1>1, <1>2 DEF Tree, Groups
      <4>7. ~own => r.frag_id # None
          BY DEF req_error
      <4> HIDE DEF res, new, marked, own, r
      <4>8. CASE ~own /\ ~r.ferror
        <5>2. [[r EXCEPT !.ferror = TRUE] EXCEPT !.peer = "error", !.cut = FALSE]
                = [r EXCEPT !.peer = "error", !.cut = FALSE, !.ferror = TRUE]
            BY <4>4 DEF MsgRec
        <5> QED BY <4>5, <4>7, <4>8, <5>2, <4>2, <4>3, <3>2
      <4>9. CASE own \/ r.ferror
        <5>1. marked[m] = r
            BY <4>5, <4>9
        <5>3. (r.ferror \/ r.frag_id # None) = r.ferror
            BY <4>4, <4>6, <4>9 DEF MsgRec
        <5>4. [r EXCEPT !.peer = "error", !.cut = FALSE]
                = [r EXCEPT !.peer = "error", !.cut = FALSE, !.ferror = r.ferror]
            BY <4>4 DEF MsgRec
        <5> QED BY <5>1, <5>3, <5>4, <4>2, <4>3, <3>2
      <4> QED BY <4>8, <4>9
    <3> QED BY <3>1, <3>2
  <2>6. res = new
    <3>1. res = [x \in Msg |-> res[x]] /\ new = [x \in Msg |-> new[x]]
        BY DEF req_put, Errored
    <3> HIDE DEF res, new
    <3> QED BY <3>1, <2>5
  <2> HIDE DEF res, new, rest
  <2> QED BY <2>1, <2>3, <2>6 DEF new
<1> QED BY <1>1, <1>8, <1>11, <1>12, <1>13, <1>14, <1>2

(* Nothing changes but the response and what depends on it: ferror, cut.   *)
Alike(mg, new) ==
    /\ new \in [Msg -> MsgRec]
    /\ \A x \in Msg :
          /\ new[x].st = mg[x].st /\ new[x].owner = mg[x].owner
          /\ new[x].frag_id = mg[x].frag_id /\ new[x].frag_owner = mg[x].frag_owner
          /\ new[x].nfrag = mg[x].nfrag /\ new[x].nfrag_done = mg[x].nfrag_done
          /\ new[x].fdone = mg[x].fdone /\ new[x].swallow = mg[x].swallow
          /\ new[x].done = mg[x].done /\ new[x].error = mg[x].error
          /\ ~Live(mg, x) => new[x] = mg[x]

(* Messages that differ only in what is written of them have the same tree *)
(* and the same queues.                                                    *)
LEMMA AlikeKeeps ==
    ASSUME NEW mg, NEW nl, NEW k, NEW oq, NEW qu, NEW fm, NEW cu, NEW go,
           Tree(mg, nl, k), OutQueues(mg, oq, fm, cu, go), Waits(mg, qu, fm),
           NEW new, Alike(mg, new), Flags(new)
    PROVE  /\ Tree(new, nl, k) /\ OutQueues(new, oq, fm, cu, go) /\ Waits(new, qu, fm)
           /\ \A x \in Msg : Live(new, x) <=> Live(mg, x)
           /\ \A x : PartsOf(new, x) = PartsOf(mg, x)
<1>0. mg \in [Msg -> MsgRec]
    BY DEF Tree
<1>2. \A x \in Msg :
          /\ new[x].st = mg[x].st /\ new[x].owner = mg[x].owner
          /\ new[x].frag_id = mg[x].frag_id /\ new[x].frag_owner = mg[x].frag_owner
          /\ new[x].nfrag = mg[x].nfrag /\ new[x].nfrag_done = mg[x].nfrag_done
          /\ new[x].fdone = mg[x].fdone /\ new[x].swallow = mg[x].swallow
          /\ new[x].done = mg[x].done /\ new[x].error = mg[x].error
          /\ ~Live(mg, x) => new[x] = mg[x]
    BY DEF Alike
<1>3. /\ \A x \in Msg : Live(new, x) <=> Live(mg, x)
      /\ \A x : PartsOf(new, x) = PartsOf(mg, x)
    BY <1>2 DEF Live, PartsOf
<1>5. Blank(new, nl, k)
    BY <1>2, <1>3 DEF Tree, Blank
<1>7. Groups(new)
  <2> SUFFICES ASSUME NEW x \in Msg, Live(mg, x)
               PROVE  /\ new[x].frag_id = new[x].frag_owner
                      /\ new[x].frag_owner # None =>
                            /\ new[x].frag_owner <= x
                            /\ \A n \in new[x].frag_owner..x :
                                  Live(new, n) => /\ new[n].frag_owner = new[x].frag_owner
                                                  /\ new[n].owner = new[x].owner
                      /\ new[x].frag_owner = x =>
                            /\ new[x].done /\ ~new[x].error
                            /\ \A n \in PartsOf(new, x) : n <= x + new[x].nfrag
      BY <1>3 DEF Groups
  <2>1. /\ mg[x].frag_id = mg[x].frag_owner
        /\ mg[x].frag_owner # None =>
              /\ mg[x].frag_owner <= x
              /\ \A n \in mg[x].frag_owner..x :
                    Live(mg, n) => /\ mg[n].frag_owner = mg[x].frag_owner
                                   /\ mg[n].owner = mg[x].owner
        /\ mg[x].frag_owner = x =>
              /\ mg[x].done /\ ~mg[x].error
              /\ \A n \in PartsOf(mg, x) : n <= x + mg[x].nfrag
      BY DEF Tree, Groups
  <2>4. mg[x].frag_owner # None =>
              /\ new[x].frag_owner <= x
              /\ \A n \in new[x].frag_owner..x :
                    Live(new, n) => /\ new[n].frag_owner = new[x].frag_owner
                                    /\ new[n].owner = new[x].owner
      BY <2>1, <1>0, MessageTypes, FragmentsAssumption, <1>2, <1>3 DEF Msg
  <2> QED BY <2>1, <1>3, <2>4, <1>2
<1>8. Owners(new)
  <2> SUFFICES ASSUME NEW x \in Msg, NEW o, o = mg[x].frag_owner, Live(mg, x), o # None, o # x
               PROVE  /\ Live(new, o) => ~new[x].swallow /\ new[x].fdone = new[o].fdone
                      /\ ~Live(new, o) => new[x].swallow \/ new[x].fdone
      BY <1>2, <1>3 DEF Owners
  <2>2. /\ Live(mg, o) => ~mg[x].swallow /\ mg[x].fdone = mg[o].fdone
        /\ ~Live(mg, o) => mg[x].swallow \/ mg[x].fdone
      BY DEF Tree, Owners
  <2> QED BY <1>0, MessageTypes, <2>2, <1>2, <1>3
<1>9. Counts(new, nl)
  <2> SUFFICES ASSUME NEW x \in Msg, Live(mg, x), mg[x].frag_owner = x, ~mg[x].fdone
               PROVE  Cardinality({n \in PartsOf(new, x) : new[n].done})
                         = new[x].nfrag_done + nl[x]
      BY <1>2, <1>3 DEF Counts
  <2>2. {n \in PartsOf(new, x) : new[n].done} = {n \in PartsOf(mg, x) : mg[n].done}
      BY <1>2, <1>3 DEF PartsOf
  <2> QED BY <2>2, <1>2 DEF Tree, Counts
<1>10. Tree(new, nl, k)
    BY <1>5, <1>7, <1>8, <1>9 DEF Tree, Alike
<1>11. OutQueues(new, oq, fm, cu, go)
  <2>2. ToSet(fm) \subseteq Msg
    <3> QED BY PlaceOf DEF OutQueues
  <2>4. \A c \in Client : \A x \in ToSet(oq[c]) :
            Live(new, x) /\ new[x].owner = c /\ ~new[x].swallow
      BY PlaceOf, <1>2, <1>3 DEF OutQueues
  <2>5. \A x \in ToSet(fm) : /\ Live(new, x) /\ new[x].owner = cu /\ ~new[x].swallow
                             /\ ~new[x].done
                             /\ \A n \in ToSet(oq[cu]) : n < x
      BY <2>2, <1>2, <1>3 DEF OutQueues
  <2>6. \A x \in Msg : Live(new, x) /\ ~new[x].swallow =>
                          x \in ToSet(oq[new[x].owner]) \cup ToSet(fm)
      BY <1>2, <1>3 DEF OutQueues
  <2> QED BY <2>4, <2>5, <2>6 DEF OutQueues
<1> QED BY <1>3, <1>10, <1>11, PlaceOf, <1>2 DEF Waits

(* A request whose response is an error has no fragment left that could    *)
(* disagree.                                                               *)
LEMMA ErroredKeeps ==
    ASSUME NEW mg, NEW nl, NEW k, NEW oq, NEW qu, NEW fm, NEW sm, NEW cu, NEW go, NEW wi,
           Tree(mg, nl, k), OutQueues(mg, oq, fm, cu, go), Waits(mg, qu, fm),
           Sending(mg, oq, sm, cu), Errors(mg, sm), OnWire(mg, oq, wi, go),
           NEW m \in Msg, Live(mg, m), mg[m].done, mg[m].frag_id # None => mg[m].fdone,
           mg[m].frag_owner \in {None, m}, PartsOf(mg, m) = {},
           \A c \in Client \ go : Halfway(wi[c]) /\ Last(wi[c]).req = m => Last(wi[c]).bad
    PROVE  Flow(Errored(mg, m), nl, k, oq, qu, fm, sm, cu, go, wi)
<1> DEFINE new == Errored(mg, m)
<1>0. mg \in [Msg -> MsgRec]
    BY DEF Tree
<1>1. new \in [Msg -> MsgRec]
    BY <1>0, ErroredFields
<1>2. \A x \in Msg :
         /\ new[x].st = mg[x].st /\ new[x].owner = mg[x].owner
         /\ new[x].frag_id = mg[x].frag_id /\ new[x].frag_owner = mg[x].frag_owner
         /\ new[x].nfrag = mg[x].nfrag /\ new[x].nfrag_done = mg[x].nfrag_done
         /\ new[x].fdone = mg[x].fdone /\ new[x].swallow = mg[x].swallow
         /\ new[x].done = mg[x].done /\ new[x].error = mg[x].error
         /\ (new[x].ferror <=> mg[x].ferror \/ (x = m /\ mg[x].frag_id # None))
         /\ (new[x].cut <=> mg[x].cut /\ x # m)
         /\ new[x].peer = IF x = m THEN "error" ELSE mg[x].peer
         /\ x # m => new[x] = mg[x]
    BY <1>0, ErroredFields
<1> HIDE DEF new
<1>3. \A x \in Msg : Live(new, x) <=> Live(mg, x)
    BY <1>2 DEF Live
<1>4. mg[m].frag_id = mg[m].frag_owner
    BY DEF Tree, Groups
<1>6. Flags(new)
  <2> SUFFICES ASSUME NEW x \in Msg, Live(mg, x)
               PROVE  /\ new[x].owner \in Client
                      /\ new[x].error => new[x].done
                      /\ new[x].fdone => new[x].done /\ new[x].frag_id # None
                      /\ new[x].ferror => /\ new[x].fdone /\ new[x].frag_owner = x
                                          /\ new[x].peer = "error"
                      /\ new[x].swallow => ~new[x].done
                      /\ new[x].cut => /\ new[x].done
                                       /\ new[x].frag_id # None => new[x].fdone
      BY <1>3 DEF Flags
  <2> QED BY <1>2, <1>4 DEF Tree, Flags
<1>8. /\ Tree(new, nl, k) /\ OutQueues(new, oq, fm, cu, go) /\ Waits(new, qu, fm)
      /\ \A x : PartsOf(new, x) = PartsOf(mg, x)
    BY <1>6, <1>1, <1>2, AlikeKeeps DEF Alike
<1>13. Sending(new, oq, sm, cu)
  <2>1. ToSet(sm) \subseteq Msg
    <3> QED BY PlaceOf DEF Sending
  <2> QED BY <2>1, <1>2 DEF Sending
<1>14. Errors(new, sm)
    BY <1>0, MessageTypes, <1>2, <1>3, <1>8 DEF Errors
<1>15. OnWire(new, oq, wi, go)
  <2>1. ASSUME NEW c \in Client \ go, Halfway(wi[c])
        PROVE  First(new, oq[c], Last(wi[c]))
    <3> DEFINE h == Last(wi[c])
    <3>1. First(mg, oq[c], h)
        BY <2>1 DEF OnWire
    <3>2. h.req \in Msg
        BY <3>1, HeadFacts DEF First, OutQueues
    <3>3. h.req = m => h.bad
        BY <2>1
    <3> HIDE DEF h
    <3>6. /\ oq[c] # <<>> /\ oq[c][1] = h.req
          /\ mg[h.req].done /\ (mg[h.req].frag_id # None => mg[h.req].fdone)
          /\ h.bad <=> mg[h.req].peer = "error"
          /\ mg[h.req].peer # "empty"
          /\ h.bad \/ mg[h.req].cut
        BY <3>1 DEF First
    <3>4. CASE h.req = m
        BY <1>2, <3>3, <3>4, <3>6 DEF First, h
    <3>5. CASE h.req # m
        BY <3>2, <3>5, <1>2, <3>6 DEF First, h
    <3> QED BY <3>4, <3>5 DEF h
  <2>2. \A x \in Msg : new[x].cut => /\ Halfway(wi[new[x].owner])
                                     /\ Last(wi[new[x].owner]).req = x
      BY <1>2 DEF OnWire
  <2> QED BY <2>1, <2>2 DEF OnWire
<1> QED
    BY <1>8, <1>13, <1>14, <1>15 DEF Flow, new

(* The turn of a request in error (rsp_make_error).                        *)
LEMMA ErrorKeeps ==
    ASSUME NEW mg, NEW nl, NEW k, NEW oq, NEW qu, NEW sm, NEW cu, NEW go, NEW wi,
           Flow(mg, nl, k, oq, qu, <<>>, sm, cu, go, wi), cu \in Client \ go,
           NEW i \in DOMAIN oq[cu], i = Len(sm) + 1,
           \A j \in 1..Len(sm) : sm[j] = oq[cu][j],
           NEW m, m = oq[cu][i], mg[m].done, mg[m].frag_id # None => mg[m].fdone,
           req_error(mg, oq[cu], i)
    PROVE  Flow(Errored(Removed(mg, PartsOf(mg, m), {}), m), nl, k,
                [oq EXCEPT ![cu] = Without(@, PartsOf(mg, m))],
                qu, <<>>, Append(sm, m), cu, go, wi)
<1> DEFINE q == oq[cu]
           P == PartsOf(mg, m)
           qn == Without(q, P)
           oqn == [oq EXCEPT ![cu] = qn]
           new == Removed(mg, P, {})
           err == Errored(new, m)
<1>0. /\ Tree(mg, nl, k) /\ OutQueues(mg, oq, <<>>, cu, go) /\ Waits(mg, qu, <<>>)
      /\ Sending(mg, oq, sm, cu) /\ Errors(mg, sm) /\ OnWire(mg, oq, wi, go)
      /\ mg \in [Msg -> MsgRec]
    BY DEF Flow, Tree
<1>1. /\ oq \in [Client -> Seq(Msg)] /\ q \in Seq(Msg) /\ sm \in Seq(Msg)
      /\ \A c \in Client : Increasing(oq[c]) /\ (c \in go => oq[c] = <<>>)
      /\ \A c \in Client : \A x \in ToSet(oq[c]) : mg[x].owner = c /\ x \in Msg
  <2>1. oq \in [Client -> Seq(Msg)] /\ sm \in Seq(Msg)
      BY <1>0 DEF OutQueues, Sending
  <2>2. ASSUME NEW c \in Client PROVE ToSet(oq[c]) \subseteq Msg
    <3> QED BY <2>1, PlaceOf
  <2> QED BY <2>1, <2>2, <1>0 DEF OutQueues
<1>2. /\ Len(q) \in Nat /\ Len(sm) \in Nat /\ i \in 1..Len(q) /\ DOMAIN q = 1..Len(q)
      /\ \A x \in ToSet(sm) : \E j \in 1..Len(sm) : sm[j] = x
      /\ \A j \in 1..Len(sm) : sm[j] \in ToSet(sm)
      /\ \A j \in 1..Len(q) : q[j] \in ToSet(q) /\ q[j] \in Msg
    BY <1>1, PlaceOf
<1>3. \A j \in 1..(i - 1) : q[j] \in ToSet(sm)
    BY <1>2
<1>4. /\ m \in Msg /\ Live(mg, m) /\ mg[m].owner = cu
      /\ \A n \in P : /\ n \in ToSet(q) /\ n > m /\ Live(mg, n) /\ mg[n].done /\ mg[n].fdone
      /\ mg[m].frag_owner \in {None, m}
      /\ mg[m].cut => mg[m].peer = "error"
    BY <1>0, <1>3, ErrorIs
<1>5. \A x \in Msg : x \in Nat /\ x # None
    BY FragmentsAssumption DEF Msg, None
<1>6. ASSUME NEW n \in P
      PROVE  n \in Msg /\ mg[n].frag_owner = m /\ n # m /\ mg[m].fdone /\ mg[m].frag_owner = m
  <2>1. n \in Msg /\ mg[n].frag_owner = m /\ n # m
      BY DEF PartsOf
  <2>2. Live(mg, n) /\ mg[n].fdone /\ mg[n].frag_owner # None /\ Live(mg, mg[n].frag_owner)
      BY <2>1, <1>4, <1>5
  <2>5. n \in Msg
      BY <2>1
  <2>3. LET o == mg[n].frag_owner IN mg[o].frag_owner = o /\ mg[n].fdone = mg[o].fdone
      BY ONLY <1>0, <2>2, <2>5, OwnerIs
  <2> QED BY <2>1, <2>2, <2>3
<1>7. \A j \in 1..i : q[j] \notin P
  <2> SUFFICES ASSUME NEW j \in 1..i, q[j] \in P PROVE FALSE
      OBVIOUS
  <2>1. q[j] > m /\ q[j] \in Nat /\ m \in Nat /\ q[i] = m /\ j \in 1..Len(q)
      BY <1>2, <1>4, <1>5
  <2>2. j < i => q[j] < q[i]
      BY <2>1, <1>1, <1>2 DEF Increasing
  <2>3. j < i \/ j = i
      BY <1>2
  <2> HIDE DEF q, P
  <2> QED BY <2>1, <2>2, <2>3
<1>8. /\ qn \in Seq(Msg) /\ ToSet(qn) = ToSet(q) \ P /\ Increasing(qn)
      /\ Len(qn) >= i /\ \A j \in 1..i : qn[j] = q[j]
  <2>3. Increasing(qn)
      BY <1>1, <1>5, WithoutFacts
  <2>4. i \in 0..Len(q)
      BY <1>2
  <2>5. Len(qn) >= i /\ \A j \in 1..i : qn[j] = q[j]
    <3> HIDE DEF P, q
    <3> QED BY <2>4, <1>1, <1>7, WithoutPrefix
  <2> QED BY <1>1, WithoutFacts, <2>3, <2>5
<1>9. Removable(mg, <<>>, P, {})
  <2>1. \A x \in P \cup {} : x \notin ToSet(<<>>)
      BY DEF ToSet
  <2>2. \A x \in P : LET o == mg[x].frag_owner IN
             o # None /\ o # x /\ o \notin P /\ Live(mg, o) => mg[o].fdone
      BY <1>6
  <2>3. ASSUME NEW x \in Msg, NEW o, o = mg[x].frag_owner, x \notin P \cup {}, Live(mg, x),
               o \in P, o # x
        PROVE  mg[x].fdone /\ ~mg[x].error
      BY <2>3, <1>4, <1>5, <1>6, <1>0, OwnerIs
  <2>4. P \subseteq Msg /\ \A x \in P : Live(mg, x)
      BY <1>4, <1>6
  <2> HIDE DEF P
  <2> QED BY <2>1, <2>2, <2>3, <2>4 DEF Removable
<1>10. Drained(oq, oqn, P \cup {}, go)
  <2>1. oqn \in [Client -> Seq(Msg)] /\ oqn[cu] = qn /\ \A c \in Client \ {cu} : oqn[c] = oq[c]
      BY <1>1, <1>8
  <2>2. ASSUME NEW c \in Client
        PROVE  /\ Increasing(oqn[c]) /\ ToSet(oqn[c]) = ToSet(oq[c]) \ (P \cup {})
               /\ c \in go => oqn[c] = <<>>
    <3> HIDE DEF oqn, qn, P
    <3>1. CASE c = cu
        BY <3>1, <2>1, <1>8
    <3>2. CASE c # cu
      <4>1. \A x \in ToSet(oq[c]) : x \notin P
          BY <3>2, <1>1, <1>4
      <4> QED BY <4>1, <3>2, <2>1, <1>1
    <3> QED BY <3>1, <3>2
  <2> HIDE DEF oqn, P
  <2> QED BY <2>1, <2>2 DEF Drained
<1>11. Answered(qu, qu, P)
    BY <1>0, <1>4 DEF Waits, Answered
<1>12. \A x \in ToSet(sm) : x \notin P
  <2> SUFFICES ASSUME NEW x \in ToSet(sm) PROVE x \notin P
      OBVIOUS
  <2>1. PICK j \in 1..Len(sm) : sm[j] = x
      BY <1>2
  <2> QED BY <2>1, <1>2, <1>7
<1>13. ToSet(sm) \subseteq ToSet(sm) \ P
    BY <1>12
<1>14. /\ Tree(new, nl, k) /\ OutQueues(new, oqn, <<>>, cu, go)
       /\ Waits(new, qu, <<>>) /\ Errors(new, sm)
  <2> HIDE DEF oqn, P
  <2> QED BY <1>0, <1>9, <1>10, <1>11, <1>13, RemoveKeeps
<1>15. OnWire(new, oqn, wi, go)
  <2>1. \A c \in Client \ go : Halfway(wi[c]) => Last(wi[c]).req \notin P \cup {}
    <3> SUFFICES ASSUME NEW c \in Client \ go, Halfway(wi[c]), Last(wi[c]).req \in P
                 PROVE  FALSE
        OBVIOUS
    <3>2. oq[c] # <<>> /\ oq[c][1] = Last(wi[c]).req /\ oq[c] \in Seq(Msg)
        BY <1>0, <1>1 DEF First, OnWire
    <3>4. c = cu
        BY <1>4, <3>2, HeadFacts, <1>1
    <3>5. 1 \in 1..i
        BY <1>2
    <3> HIDE DEF P
    <3> QED BY <3>2, <3>4, <3>5, <1>7
  <2>2. go \subseteq go /\ \A c \in Client : Increasing(oq[c])
      BY <1>1
  <2> HIDE DEF oqn, P
  <2> QED BY <2>1, <2>2, <1>0, <1>1, <1>10, WireKeeps
<1>16. /\ \A x \in Msg : x \notin P => new[x] = mg[x]
       /\ \A x \in Msg : x \in P => new[x].frag_owner = None
       /\ new \in [Msg -> MsgRec]
  <2> HIDE DEF P
  <2> DEFINE W == {}
  <2>0. mg \in [Msg -> MsgRec]
      BY <1>0
  <2>1. \A x \in Msg : x \notin P /\ x \notin W => Removed(mg, P, W)[x] = mg[x]
      BY ONLY <2>0, RemovedFields
  <2>2. \A x \in Msg : x \in P => Removed(mg, P, W)[x].frag_owner = None
    <3> HIDE DEF W
    <3>1. \A x \in Msg : x \in P =>
                    /\ ~Live(Removed(mg, P, W), x)
                    /\ Removed(mg, P, W)[x] = [NoMsg EXCEPT !.st = Removed(mg, P, W)[x].st]
                    /\ Removed(mg, P, W)[x].frag_owner = None
        BY <2>0, RemovedFields
    <3> QED BY <3>1
  <2>3. Removed(mg, P, W) \in [Msg -> MsgRec]
      BY ONLY <2>0, RemovedFields
  <2> QED BY <2>1, <2>2, <2>3
<1>17. Sending(new, oqn, sm, cu)
  <2>1. oqn[cu] = qn
      BY <1>1
  <2>2. \A x \in ToSet(sm) : x \in Msg /\ new[x] = mg[x]
    <3>1. ToSet(sm) \subseteq Msg
        BY <1>1, PlaceOf
    <3> HIDE DEF P, new
    <3> QED BY <3>1, <1>12, <1>16
  <2>3. \A j \in 1..Len(sm) : sm[j] = qn[j]
    <3>1. \A j \in 1..Len(sm) : j \in 1..i /\ sm[j] = q[j]
        BY <1>2
    <3> HIDE DEF q, P
    <3> QED BY <3>1, <1>8
  <2>4. Len(sm) <= Len(qn)
    <3>1. Len(qn) \in Nat /\ Len(qn) >= i
        BY <1>8
    <3> HIDE DEF qn
    <3> QED BY <3>1, <1>2
  <2> HIDE DEF qn, oqn, new
  <2> QED BY <2>1, <2>2, <2>3, <2>4, <1>0, <1>1 DEF Sending
<1>18. m \notin P /\ new[m] = mg[m]
  <2>1. m \notin P
      BY <1>6
  <2> HIDE DEF P, new
  <2> QED BY <2>1, <1>4, <1>16
<1>19. PartsOf(new, m) = {}
  <2> SUFFICES ASSUME NEW x \in Msg, new[x].frag_owner = m, x # m PROVE FALSE
      BY DEF PartsOf
  <2>1. x \notin P
      BY <1>4, <1>5, <1>16
  <2>2. x \in P
    <3> QED BY <2>1, <1>16 DEF PartsOf
  <2> QED BY <2>1, <2>2
<1>20. \A c \in Client \ go : Halfway(wi[c]) /\ Last(wi[c]).req = m => Last(wi[c]).bad
  <2> SUFFICES ASSUME NEW c \in Client \ go, Halfway(wi[c]), Last(wi[c]).req = m
               PROVE  Last(wi[c]).bad
      OBVIOUS
  <2>1. First(mg, oq[c], Last(wi[c]))
      BY <1>0 DEF OnWire
  <2>3. Last(wi[c]).bad <=> mg[m].peer = "error"
      BY <2>1 DEF First
  <2> QED BY <2>1, <2>3, <1>4 DEF First
<1>21. Live(new, m)
    BY <1>4, <1>18 DEF Live
<1>22. Flow(err, nl, k, oqn, qu, <<>>, sm, cu, go, wi)
  <2> HIDE DEF new, oqn
  <2> QED
      BY <1>4, <1>18, <1>14, <1>15, <1>17, <1>19, <1>20, <1>21, ErroredKeeps
<1>23. /\ oqn[cu] \in Seq(Msg) /\ Len(sm) + 1 <= Len(oqn[cu])
       /\ \A j \in 1..Len(sm) : sm[j] = oqn[cu][j]
       /\ m = oqn[cu][Len(sm) + 1]
  <2>1. oqn[cu] = qn
      BY <1>1
  <2>2. qn \in Seq(Msg) /\ Len(qn) \in Nat /\ Len(qn) >= i
      BY <1>8
  <2>3. \A j \in 1..Len(sm) : j \in 1..i
      BY <1>2
  <2>4. i \in 1..i
      BY <1>2
  <2>5. qn[i] = q[i] /\ \A j \in 1..Len(sm) : qn[j] = q[j]
    <3> HIDE DEF qn, q
    <3> QED BY <2>3, <2>4, <1>8
  <2> HIDE DEF oqn, qn
  <2> QED BY <2>1, <2>2, <2>5
<1>24. /\ err[m].done /\ (err[m].frag_id # None => err[m].fdone)
       /\ err[m].peer = "error"
       /\ PartsOf(err, m) = {}
  <2>1. \A x \in Msg : /\ err[x].frag_owner = new[x].frag_owner
                       /\ err[x].done = new[x].done /\ err[x].fdone = new[x].fdone
                       /\ err[x].frag_id = new[x].frag_id
                       /\ err[x].peer = IF x = m THEN "error" ELSE new[x].peer
    <3> HIDE DEF new
    <3> QED BY <1>4, <1>16, ErroredFields
  <2> HIDE DEF err, new
  <2> QED BY <2>1, <1>19, <1>4, <1>18 DEF PartsOf
<1> HIDE DEF err, oqn
<1> QED BY <1>22, <1>23, <1>24, GatherKeeps DEF err, oqn

(* What msg_send_chain is given next: the response to m, with an error or  *)
(* without.                                                                *)
LEMMA SendNextIs ==
    ASSUME IInv, rsp_send_next
    PROVE  LET q == omsg_q[cur]
               i == Len(send_msgq) + 1
               m == q[i]
               mg == Coalesced(msg, q, i)
               P == PartsOf(mg, m)
           IN /\ pc = "send" /\ frag_msgq = <<>> /\ cur \in Client \ gone
              /\ i \in DOMAIN q /\ q \in Seq(Msg) /\ Len(send_msgq) \in Nat
              /\ Len(send_msgq) <= Len(q)
              /\ \A j \in 1..Len(send_msgq) : send_msgq[j] = q[j]
              /\ \A j \in 1..(i - 1) : q[j] \in ToSet(send_msgq)
              /\ Flow(mg, nlost, nmsg, omsg_q, queue, <<>>, send_msgq, cur, gone, wire)
              /\ mg[m].done /\ (mg[m].frag_id # None => mg[m].fdone)
              /\ m \in Msg /\ \A n \in P : mg[n].fdone
              /\ ~req_error(mg, q, i) => /\ ~mg[m].error /\ \A n \in P : ~mg[n].error
                                         /\ msg' = mg /\ omsg_q' = omsg_q
              /\ req_error(mg, q, i) =>
                    /\ mg[m].frag_owner \in {None, m}
                    /\ msg' = Errored(Removed(mg, P, {}), m)
                    /\ omsg_q' = [omsg_q EXCEPT ![cur] = Without(@, P)]
              /\ send_msgq' = Append(send_msgq, m)
              /\ UNCHANGED <<queue, frag_msgq, pc, cur, gone, nmsg, nfault, nlost, wire>>
<1> DEFINE q == omsg_q[cur]
           i == Len(send_msgq) + 1
           m == q[i]
           mg == Coalesced(msg, q, i)
           P == PartsOf(mg, m)
<1>1. /\ Flow(msg, nlost, nmsg, omsg_q, queue, frag_msgq, send_msgq, cur, gone, wire)
      /\ Places(frag_msgq, send_msgq, pc, cur, gone)
      /\ gone \subseteq Client /\ nmsg \in 0..MaxMsg /\ nfault \in 0..MaxFault
    BY IInvIs
<1>2. pc = "send"
    BY DEF rsp_send_next
<1>3. /\ frag_msgq = <<>> /\ cur \in Client \ gone /\ Turn = i
      /\ q \in Seq(Msg) /\ Len(send_msgq) \in Nat /\ Len(send_msgq) <= Len(q)
      /\ \A j \in 1..Len(send_msgq) : send_msgq[j] = q[j]
    BY <1>2, TurnIs
<1>4. /\ i \in DOMAIN q /\ req_done(msg, q, i)
      /\ send_msgq' = Append(send_msgq, m)
      /\ ~req_error(mg, q, i) => msg' = mg /\ omsg_q' = omsg_q
      /\ req_error(mg, q, i) => LET made == rsp_make_error(mg, q, i)
                                IN msg' = made[1] /\ omsg_q' = [omsg_q EXCEPT ![cur] = made[2]]
      /\ UNCHANGED <<queue, frag_msgq, pc, cur, gone, nmsg, nfault, nlost, wire>>
    BY <1>3 DEF rsp_send_next, Ready
<1> HIDE DEF q, i, m, mg
<1>5. /\ Flow(mg, nlost, nmsg, omsg_q, queue, <<>>, send_msgq, cur, gone, wire)
      /\ mg[m].done /\ (mg[m].frag_id # None => mg[m].fdone)
    BY <1>1, <1>3, <1>4, CoalesceKeeps DEF q, m, mg
<1>6. /\ Tree(mg, nlost, nmsg) /\ OutQueues(mg, omsg_q, <<>>, cur, gone) /\ Errors(mg, send_msgq)
      /\ send_msgq \in Seq(Msg)
    BY <1>5 DEF Flow, Sending
<1>7. \A j \in 1..(i - 1) : q[j] \in ToSet(send_msgq)
    BY <1>6, PlaceOf, <1>3 DEF i
<1>8. /\ m \in Msg
      /\ \A n \in P : mg[n].fdone
      /\ req_error(mg, q, i) => mg[m].frag_owner \in {None, m}
      /\ ~req_error(mg, q, i) => ~mg[m].error /\ \A n \in P : ~mg[n].error
      /\ req_error(mg, q, i) => rsp_make_error(mg, q, i) =
             <<Errored(Removed(mg, P, {}), m), Without(q, P)>>
    BY <1>3, <1>4, <1>7, <1>5, <1>6, ErrorIs DEF q, m
<1>9. req_error(mg, q, i) =>
          /\ msg' = Errored(Removed(mg, P, {}), m)
          /\ omsg_q' = [omsg_q EXCEPT ![cur] = Without(@, P)]
    BY <1>4, <1>8 DEF q
<1> HIDE DEF P
<1>10. /\ i \in DOMAIN q /\ send_msgq' = Append(send_msgq, m)
       /\ ~req_error(mg, q, i) => msg' = mg /\ omsg_q' = omsg_q
       /\ UNCHANGED <<queue, frag_msgq, pc, cur, gone, nmsg, nfault, nlost, wire>>
    BY <1>4
<1> QED
    BY <1>2, <1>3, <1>5, <1>7, <1>8, <1>9, <1>10 DEF q, i, m, mg, P

(* The turn of a request comes (rsp_send_next).                            *)
LEMMA SendNextKeeps ==
    ASSUME IInv, rsp_send_next
    PROVE  IInv'
<1> DEFINE q == omsg_q[cur]
           i == Len(send_msgq) + 1
           m == q[i]
           mg == Coalesced(msg, q, i)
           P == PartsOf(mg, m)
<1>1. /\ Places(frag_msgq, send_msgq, pc, cur, gone)
      /\ gone \subseteq Client /\ nmsg \in 0..MaxMsg /\ nfault \in 0..MaxFault
    BY IInvIs
<1>2. /\ pc = "send" /\ frag_msgq = <<>> /\ cur \in Client \ gone
      /\ i \in DOMAIN q /\ q \in Seq(Msg) /\ Len(send_msgq) \in Nat
      /\ \A j \in 1..Len(send_msgq) : send_msgq[j] = q[j]
      /\ Flow(mg, nlost, nmsg, omsg_q, queue, <<>>, send_msgq, cur, gone, wire)
      /\ mg[m].done /\ (mg[m].frag_id # None => mg[m].fdone)
      /\ m \in Msg /\ \A n \in P : mg[n].fdone
      /\ ~req_error(mg, q, i) => /\ ~mg[m].error /\ \A n \in P : ~mg[n].error
                                 /\ msg' = mg /\ omsg_q' = omsg_q
      /\ req_error(mg, q, i) =>
            /\ msg' = Errored(Removed(mg, P, {}), m)
            /\ omsg_q' = [omsg_q EXCEPT ![cur] = Without(@, P)]
      /\ send_msgq' = Append(send_msgq, m)
      /\ UNCHANGED <<queue, frag_msgq, pc, cur, gone, nmsg, nfault, nlost, wire>>
    BY SendNextIs
<1> HIDE DEF q, i, m, mg, P
<1>9. Flow(msg', nlost, nmsg, omsg_q', queue, <<>>, send_msgq', cur, gone, wire)
  <2>1. CASE ~req_error(mg, q, i)
      BY <1>2, <2>1, GatherKeeps DEF q, m, i, P
  <2>2. CASE req_error(mg, q, i)
    <3> DEFINE err == Errored(Removed(mg, P, {}), m)
               oqn == [omsg_q EXCEPT ![cur] = Without(@, P)]
    <3>2. Flow(err, nlost, nmsg, oqn, queue, <<>>, Append(send_msgq, m), cur, gone, wire)
        BY <2>2, <1>2, ErrorKeeps DEF P, q, m, i
    <3>3. msg' = err /\ omsg_q' = oqn
        BY <2>2, <1>2
    <3> HIDE DEF err, oqn
    <3> QED BY <3>2, <3>3, <1>2
  <2> QED BY <2>1, <2>2
<1>11. Places(frag_msgq', send_msgq', pc', cur', gone')
    BY <1>1, <1>2 DEF Places
<1> QED BY <1>1, <1>2, <1>9, <1>11, IInvNext

-----------------------------------------------------------------------------
(* The function FlattenSeq is computed by.                                 *)
IsFlat(g, s) == g = [i \in 1..Len(s) |-> IF i = 1 THEN s[i] ELSE g[i - 1] \o s[i]]

(* Adding one or two halves.                                               *)
LEMMA ConcatFacts ==
    ASSUME NEW T, NEW u \in Seq(T), NEW a \in T, NEW b \in T
    PROVE  /\ u \o <<a>> = Append(u, a)
           /\ u \o <<a, b>> = Append(Append(u, a), b)
<1>2. u \o <<a, b>> = Append(Append(u, a), b)
    OBVIOUS
<1> QED BY <1>2

(* FlattenSeq adds its sequences one after the other.                      *)
LEMMA FlattenExists ==
    ASSUME NEW T, NEW n \in Nat, NEW s \in [1..n -> Seq(T)]
    PROVE  \E h \in [0..n -> Seq(T)] :
               /\ h[0] = <<>>
               /\ \A i \in 1..n : h[i] = h[i - 1] \o s[i]
               /\ FlattenSeq(s) = h[n]
<1> DEFINE F == [i \in 1..n |-> [v \in Seq(T) |-> v \o s[i]]]
           V == Seq(T)
           b == <<>>
           g == CHOOSE g : IsFlat(g, s)
<1>1. s \in Seq(V) /\ Len(s) = n
    OBVIOUS
<1>2. b \in V /\ F \in StepFun(n, V)
    BY DEF StepFun
<1>3. PICK h : Computes(h, n, V, b, F)
  <2> HIDE DEF F, V, b
  <2> QED BY ONLY <1>2, n \in Nat, StepsExist
<1>4. /\ h \in [0..n -> Seq(T)] /\ h[0] = <<>>
      /\ \A i \in 1..n : h[i] = h[i - 1] \o s[i]
  <2>1. h \in [0..n -> V] /\ h[0] = b /\ \A i \in 1..n : h[i] = F[i][h[i - 1]]
    <3> HIDE DEF F, V, b
    <3> QED BY <1>3 DEF Computes
  <2>2. ASSUME NEW i \in 1..n PROVE h[i] = h[i - 1] \o s[i]
    <3>1. h[i - 1] \in Seq(T)
        BY <2>1
    <3>2. h[i] = F[i][h[i - 1]]
        BY <2>1
    <3> HIDE DEF g
    <3> QED BY <3>1, <3>2
  <2> QED BY <2>1, <2>2
<1>5. n = 0 => FlattenSeq(s) = h[n]
  <2> SUFFICES ASSUME n = 0 PROVE FlattenSeq(s) = h[n]
      OBVIOUS
  <2>2. FlattenSeq(s) = s
      BY <1>1 DEF FlattenSeq
  <2> QED BY <1>1, <2>2, <1>4
<1>6. n # 0 => FlattenSeq(s) = g[n]
  <2> SUFFICES ASSUME n # 0 PROVE FlattenSeq(s) = g[n]
      OBVIOUS
  <2> QED BY <1>1 DEF FlattenSeq, IsFlat
<1> HIDE DEF F, V, b
<1>7. IsFlat([i \in 1..n |-> h[i]], s)
  <2> DEFINE f == [i \in 1..n |-> h[i]]
  <2>1. ASSUME NEW i \in 1..n PROVE f[i] = IF i = 1 THEN s[i] ELSE f[i - 1] \o s[i]
    <3>1. CASE i = 1
      <4>0. 1 \in 1..n /\ 1 - 1 = 0
          BY <3>1
      <4>3. <<>> \o s[1] = s[1]
          BY <3>1
      <4> QED BY <3>1, <4>0, <1>4, <4>3
    <3>2. CASE i # 1
      <4>1. i - 1 \in 1..n
          BY <3>2
      <4> QED BY <3>2, <4>1, <1>4
    <3> QED BY <3>1, <3>2
  <2> QED BY <2>1, <1>1 DEF IsFlat
<1>8. IsFlat(g, s)
    BY <1>7
<1> HIDE DEF g
<1>9. \A i \in 1..n : g[i] = IF i = 1 THEN s[i] ELSE g[i - 1] \o s[i]
    BY <1>1, <1>8 DEF IsFlat
<1> DEFINE K == {j \in Nat : j >= 1 /\ j <= n => g[j] = h[j]}
<1>10. 0 \in K
    OBVIOUS
<1>11. ASSUME NEW j \in Nat, j \in K PROVE j + 1 \in K
  <2> SUFFICES ASSUME j + 1 <= n PROVE g[j + 1] = h[j + 1]
      OBVIOUS
  <2>1. j + 1 \in 1..n /\ (j + 1) - 1 = j
      OBVIOUS
  <2>2. CASE j = 0
    <3>2. <<>> \o s[1] = s[1]
        BY <2>1, <2>2
    <3>0. 1 \in 1..n /\ 1 - 1 = 0
        BY <2>1, <2>2
    <3>3. g[1] = s[1] /\ h[1] = h[0] \o s[1]
        BY <3>0, <1>4, <1>9
    <3> QED BY <2>2, <3>2, <3>3, <1>4
  <2>3. CASE j # 0
    <3> DEFINE i == j + 1
    <3>1. g[j] = h[j] /\ i # 1 /\ i \in 1..n /\ i - 1 = j
        BY <1>11, <2>1, <2>3
    <3> HIDE DEF i
    <3>3. g[i] = g[i - 1] \o s[i]
        BY <3>1, <1>9
    <3>4. g[i] = h[i]
        BY <3>1, <1>4, <3>3
    <3> QED BY <3>4 DEF i
  <2> QED BY <2>2, <2>3
<1>12. \A j \in Nat : j \in K
  <2> HIDE DEF K
  <2>1. \A j \in Nat : j \in K => j + 1 \in K
      BY <1>11
  <2> QED BY ONLY <1>10, <2>1, SetInduction
<1>14. FlattenSeq(s) = h[n]
    BY <1>5, <1>6, <1>12
<1> QED
    BY <1>4, <1>14

-----------------------------------------------------------------------------
(* What is written to a client.                                            *)
Halved == [req : Msg, half : {1, 2}, bad : BOOLEAN]

(* A half may follow what was written.                                     *)
Follows(w, x) ==
    IF x.half = 2 THEN Halfway(w) /\ Last(w) = [x EXCEPT !.half = 1]
    ELSE Halfway(w) => Last(w) = x /\ x.bad

(* A half that may follow keeps the wire of a client whole.                *)
LEMMA PairedAppend ==
    ASSUME NEW w \in Seq(Halved), Paired(w), NEW x \in Halved, Follows(w, x)
    PROVE  /\ Append(w, x) \in Seq(Halved) /\ Paired(Append(w, x))
           /\ Append(w, x) # <<>> /\ Last(Append(w, x)) = x
<1> DEFINE v == Append(w, x)
           n == Len(w)
<1>1. /\ v \in Seq(Halved) /\ Len(v) = n + 1 /\ n \in Nat
      /\ DOMAIN v = 1..(n + 1) /\ DOMAIN w = 1..n
      /\ \A i \in 1..n : v[i] = w[i]
      /\ v[n + 1] = x /\ v # <<>>
      /\ \A i \in 1..n : w[i] \in Halved
      /\ (w # <<>> <=> n # 0)
    OBVIOUS
<1>2. Last(v) = x /\ Last(w) = w[n]
    BY <1>1 DEF Last
<1> HIDE DEF v, n
<1>3. ASSUME NEW i \in DOMAIN v
      PROVE  LET other == [v[i] EXCEPT !.half = 3 - @]
             IN IF v[i].half = 2 THEN i > 1 /\ v[i - 1] = other
                ELSE i < Len(v) => v[i + 1] = other \/ (v[i].bad /\ v[i + 1] = v[i])
  <2>1. CASE i < n
      BY <2>1, <1>1 DEF Paired, n
  <2>2. CASE i = n
    <3>1. i \in 1..n /\ i < Len(v) /\ (i > 1 => i - 1 \in 1..n) /\ v[i] = w[i] /\ v[i + 1] = x
        BY <2>2, <1>1
    <3>3. CASE w[i].half = 2
        BY <3>1, <1>1, <3>3 DEF Paired
    <3>4. CASE w[i].half # 2
        BY <3>1, <3>4, <1>1, <1>2, <2>2 DEF Halved, Halfway, Follows
    <3> QED BY <3>3, <3>4
  <2>3. CASE i = n + 1
      BY <2>3, <1>1, <1>2 DEF Follows, Halfway
  <2> QED BY <2>1, <2>2, <2>3, <1>1
<1> QED BY <1>1, <1>2, <1>3 DEF v, Paired

(* The response to m is half written.                                      *)
CutOff(mg, m) == [x \in Msg |-> IF x = m THEN [mg[x] EXCEPT !.cut = TRUE] ELSE mg[x]]

(* A response that is cut keeps the invariant: nothing of its request can  *)
(* fail any more.                                                          *)
LEMMA CutKeeps ==
    ASSUME NEW mg, NEW nl, NEW k, NEW oq, NEW qu, NEW fm, NEW cu, NEW go,
           Tree(mg, nl, k), OutQueues(mg, oq, fm, cu, go), Waits(mg, qu, fm), Errors(mg, <<>>),
           NEW m \in Msg, Live(mg, m), mg[m].done, mg[m].frag_id # None => mg[m].fdone,
           mg[m].peer = "error" \/ ~mg[m].error,
           \A n \in PartsOf(mg, m) : mg[n].fdone /\ ~mg[n].error
    PROVE  LET new == CutOff(mg, m)
           IN /\ Tree(new, nl, k) /\ OutQueues(new, oq, fm, cu, go) /\ Waits(new, qu, fm)
              /\ Errors(new, <<>>)
              /\ new[m].cut /\ \A x \in Msg : x # m => new[x] = mg[x]
              /\ \A x \in Msg : /\ new[x].owner = mg[x].owner /\ new[x].done = mg[x].done
                                /\ new[x].frag_id = mg[x].frag_id
                                /\ new[x].fdone = mg[x].fdone /\ new[x].peer = mg[x].peer
<1> DEFINE new == CutOff(mg, m)
<1>0. mg \in [Msg -> MsgRec]
    BY DEF Tree
<1>1. ASSUME NEW x \in Msg
      PROVE  /\ new[x] \in MsgRec
             /\ new[x].st = mg[x].st /\ new[x].owner = mg[x].owner
             /\ new[x].frag_id = mg[x].frag_id /\ new[x].frag_owner = mg[x].frag_owner
             /\ new[x].nfrag = mg[x].nfrag /\ new[x].nfrag_done = mg[x].nfrag_done
             /\ new[x].fdone = mg[x].fdone /\ new[x].swallow = mg[x].swallow
             /\ new[x].done = mg[x].done /\ new[x].error = mg[x].error
             /\ new[x].ferror = mg[x].ferror /\ new[x].peer = mg[x].peer
             /\ (new[x].cut <=> mg[x].cut \/ x = m)
             /\ x # m => new[x] = mg[x]
  <2> DEFINE r == mg[x]
             s == [mg[x] EXCEPT !.cut = TRUE]
  <2>0. r \in MsgRec
      BY <1>0
  <2>1. CASE x # m
    <3>1. new[x] = mg[x]
        BY <2>1 DEF CutOff
    <3> HIDE DEF new
    <3> QED BY <2>0, <2>1, <3>1
  <2>2. CASE x = m
    <3>1. new[x] = s
        BY <2>2 DEF CutOff
    <3> HIDE DEF new
    <3>2. /\ s.st = r.st /\ s.owner = r.owner /\ s.frag_id = r.frag_id
          /\ s.frag_owner = r.frag_owner /\ s.nfrag = r.nfrag
          /\ s.nfrag_done = r.nfrag_done /\ s.fdone = r.fdone
          /\ s.swallow = r.swallow /\ s.done = r.done /\ s.error = r.error
          /\ s.ferror = r.ferror /\ s.cut = TRUE /\ s.peer = r.peer
          /\ s \in MsgRec
        BY <2>0 DEF MsgRec
    <3> HIDE DEF s
    <3> QED BY <2>2, <3>1, <3>2
  <2> QED BY <2>1, <2>2
<1>2. new = [x \in Msg |-> new[x]]
    BY DEF CutOff
<1> HIDE DEF new
<1>4. \A x \in Msg : Live(new, x) <=> Live(mg, x)
    BY <1>1 DEF Live
<1>5. Flags(new)
  <2> SUFFICES ASSUME NEW x \in Msg, Live(mg, x)
               PROVE  /\ new[x].owner \in Client
                      /\ new[x].error => new[x].done
                      /\ new[x].fdone => new[x].done /\ new[x].frag_id # None
                      /\ new[x].ferror => /\ new[x].fdone /\ new[x].frag_owner = x
                                          /\ new[x].peer = "error"
                      /\ new[x].swallow => ~new[x].done
                      /\ new[x].cut => /\ new[x].done
                                       /\ new[x].frag_id # None => new[x].fdone
      BY <1>4 DEF Flags
  <2> QED BY <1>1 DEF Tree, Flags
<1>6. Alike(mg, new)
    BY <1>1, <1>2 DEF Alike
<1>7. /\ Tree(new, nl, k) /\ OutQueues(new, oq, fm, cu, go) /\ Waits(new, qu, fm)
      /\ \A x : PartsOf(new, x) = PartsOf(mg, x)
    BY <1>5, <1>6, AlikeKeeps
<1>8. Errors(new, <<>>)
  <2>0. ToSet(<<>>) = {}
      BY DEF ToSet
  <2>1. ASSUME NEW x \in Msg, NEW o, o = mg[x].frag_owner, Live(mg, x), o # None, o # x,
               ~mg[x].swallow, ~Live(new, o) \/ o \in ToSet(<<>>) \/ new[o].cut
        PROVE  new[x].fdone /\ ~new[x].error
    <3>2. ~Live(mg, o) \/ mg[o].cut \/ o = m
        BY <2>0, <2>1, <1>0, MessageTypes, <1>1, <1>4
    <3> QED BY <2>1, <3>2, <1>1 DEF PartsOf, Errors
  <2>3. \A x \in Msg : new[x].cut \/ x \in ToSet(<<>>) =>
                          new[x].peer = "error" \/ ~new[x].error
      BY <2>0, <1>1 DEF Errors
  <2>4. \A x \in Msg : /\ new[x].frag_owner = mg[x].frag_owner /\ new[x].swallow = mg[x].swallow
      BY <1>1
  <2> QED BY <2>1, <1>1, <1>7, <2>3, <2>4, <1>4 DEF Errors
<1>10. \A x \in Msg : /\ new[x].owner = mg[x].owner /\ new[x].done = mg[x].done
                      /\ new[x].frag_id = mg[x].frag_id
                      /\ new[x].fdone = mg[x].fdone /\ new[x].peer = mg[x].peer
    BY <1>1
<1> QED BY <1>7, <1>8, <1>1, <1>10 DEF new

(* The least of an ordered queue is its first.                             *)
LEMMA LeastIsFirst ==
    ASSUME NEW q \in Seq(Msg), Increasing(q), NEW x \in ToSet(q),
           \A y \in ToSet(q) : x <= y
    PROVE  q # <<>> /\ q[1] = x
<1>1. /\ Len(q) \in Nat
      /\ \A y \in ToSet(q) : \E i \in 1..Len(q) : q[i] = y
      /\ \A i \in 1..Len(q) : q[i] \in ToSet(q) /\ q[i] \in Msg
    BY PlaceOf
<1>2. PICK i \in 1..Len(q) : q[i] = x
    BY <1>1
<1>3. 1 \in 1..Len(q) /\ Len(q) # 0
    BY <1>1
<1>5. i # 1 => q[1] < q[i]
    BY <1>1, <1>3 DEF Increasing
<1>6. q[1] = x
    BY <1>2, <1>1, <1>3, <1>5 DEF Msg
<1> QED BY <1>6, <1>3, PlaceOf

(* The i-th of the responses to write comes next.                          *)
Continues(v, full, i) ==
    /\ v \in Seq(Halved) /\ Paired(v)
    /\ Halfway(v) => /\ i <= Len(full) /\ Last(v).req = full[i]
                     /\ Last(v).bad <=> msg[full[i]].peer = "error"
                     /\ Last(v).bad \/ msg[full[i]].cut
    /\ \A j \in i..Len(full) : msg[full[j]].cut => Halfway(v) /\ j = i

(* Which half of the next response may follow.                             *)
LEMMA HalfFollows ==
    ASSUME msg \in [Msg -> MsgRec], NEW full \in Seq(Msg), NEW i \in 1..Len(full),
           NEW v, Continues(v, full, i)
    PROVE  /\ Half(full[i], 1) \in Halved /\ Half(full[i], 1).half = 1
           /\ Half(full[i], 1).req = full[i]
           /\ (Half(full[i], 1).bad <=> msg[full[i]].peer = "error")
           /\ Half(full[i], 2) \in Halved /\ Half(full[i], 2).half = 2
           /\ ~msg[full[i]].cut => Follows(v, Half(full[i], 1))
           /\ msg[full[i]].cut => Follows(v, Half(full[i], 2))
           /\ Half(full[i], 2) = [Half(full[i], 1) EXCEPT !.half = 2]
<1> DEFINE m == full[i]
           b == msg[m].peer = "error"
           x == Half(m, 1)
           y == Half(m, 2)
<1>1. m \in Msg /\ b \in BOOLEAN
    BY PlaceOf
<1>2. /\ x = [req |-> m, half |-> 1, bad |-> b] /\ y = [req |-> m, half |-> 2, bad |-> b]
    BY DEF Half
<1> HIDE DEF x, y
<1>3. /\ x \in Halved /\ y \in Halved
      /\ x.half = 1 /\ x.req = m /\ (x.bad <=> b) /\ y.half = 2
  <2> HIDE DEF b, m
  <2> QED BY <1>1, <1>2 DEF Halved
<1>4. y = [x EXCEPT !.half = 2] /\ x = [y EXCEPT !.half = 1]
  <2> HIDE DEF b, m
  <2> QED BY <1>1, <1>2
<1>5. ASSUME Halfway(v)
      PROVE  Last(v) = x
  <2>2. Last(v).half = 1 /\ Last(v).req = m /\ (Last(v).bad <=> b)
      BY <1>5 DEF Continues, Halfway
  <2> DEFINE z == Last(v)
  <2>3. z \in Halved /\ z.half = 1 /\ z.req = m /\ (z.bad <=> b)
      BY <1>5, PlaceOf, <2>2 DEF Continues, Halfway, Last
  <2> HIDE DEF z, b, m
  <2>4. z = [req |-> z.req, half |-> z.half, bad |-> z.bad] /\ z.bad \in BOOLEAN
      BY <2>3 DEF Halved
  <2>6. z = x
      BY <2>3, <2>4, <1>1, <1>2
  <2> QED BY <2>6 DEF z
<1>6. ~msg[m].cut => Follows(v, x)
  <2> SUFFICES ASSUME ~msg[m].cut, Halfway(v) PROVE Last(v) = x /\ x.bad
      BY <1>3 DEF Follows
  <2> QED BY <1>5 DEF Continues
<1>7. msg[m].cut => Follows(v, y)
  <2> SUFFICES ASSUME msg[m].cut PROVE Follows(v, y)
      OBVIOUS
  <2>2. i \in i..Len(full)
      BY PlaceOf
  <2>3. Halfway(v)
      BY <2>2 DEF Continues
  <2>4. Last(v) = [y EXCEPT !.half = 1]
      BY <2>3, <1>4, <1>5
  <2> HIDE DEF m
  <2> QED BY <2>3, <2>4, <1>3 DEF Follows
<1> QED
    BY <1>3, <1>4, <1>6, <1>7 DEF x, y

(* After the halves of a response comes the next one.                      *)
LEMMA HalvesKeep ==
    ASSUME msg \in [Msg -> MsgRec], NEW full \in Seq(Msg), NEW i \in 1..Len(full),
           NEW v, Continues(v, full, i)
    PROVE  /\ Continues(v \o Halves(full[i]), full, i + 1)
           /\ ~Halfway(v \o Halves(full[i])) /\ Halves(full[i]) \in Seq(Halved)
<1> DEFINE m == full[i]
           x == Half(m, 1)
           y == Half(m, 2)
           u == v \o Halves(m)
<1>1. /\ x \in Halved /\ x.half = 1 /\ y \in Halved /\ y.half = 2
      /\ ~msg[m].cut => Follows(v, x)
      /\ msg[m].cut => Follows(v, y)
      /\ y = [x EXCEPT !.half = 2]
    BY HalfFollows
<1>2. v \in Seq(Halved) /\ Paired(v)
    BY DEF Continues
<1>3. Halves(m) = IF msg[m].cut THEN <<y>> ELSE <<x, y>>
    BY DEF Halves
<1>4. Halves(m) \in Seq(Halved)
  <2> HIDE DEF x, y, m
  <2> QED BY <1>1, <1>3
<1> HIDE DEF x, y
<1>5. u \in Seq(Halved) /\ Paired(u) /\ u # <<>> /\ Last(u) = y
  <2>1. CASE msg[m].cut
    <3>1. u = Append(v, y)
        BY <2>1, <1>1, <1>2, <1>3, ConcatFacts
    <3> QED BY <2>1, <3>1, <1>1, <1>2, PairedAppend
  <2>2. CASE ~msg[m].cut
    <3> DEFINE w == Append(v, x)
    <3>1. u = Append(w, y)
        BY <2>2, <1>1, <1>2, <1>3, ConcatFacts
    <3>2. w \in Seq(Halved) /\ Paired(w) /\ w # <<>> /\ Last(w) = x
        BY <2>2, <1>1, <1>2, PairedAppend
    <3> HIDE DEF w
    <3>4. Follows(w, y)
        BY <3>2, <1>1 DEF Halfway, Follows, Halved
    <3> QED BY <3>1, <3>2, <3>4, <1>1, PairedAppend
  <2> QED BY <2>1, <2>2
<1>6. ~Halfway(u)
    BY <1>1, <1>5 DEF Halfway
<1>7. \A j \in (i + 1)..Len(full) : ~msg[full[j]].cut
  <2> SUFFICES ASSUME NEW j \in (i + 1)..Len(full), msg[full[j]].cut PROVE FALSE
      OBVIOUS
  <2>2. j \in i..Len(full) /\ j # i
      BY PlaceOf
  <2> QED BY <2>2 DEF Continues
<1> HIDE DEF u
<1> QED BY <1>4, <1>6, <1>5, <1>7 DEF u, Continues

(* What the first k of the responses add to the wire.                      *)
LEMMA Grows ==
    ASSUME msg \in [Msg -> MsgRec], NEW full \in Seq(Msg), NEW k \in 0..Len(full),
           NEW w, Continues(w, full, 1)
    PROVE  LET u == w \o FlattenSeq([i \in 1..k |-> Halves(full[i])])
           IN Continues(u, full, k + 1) /\ (k = 0 => u = w) /\ (k # 0 => ~Halfway(u))
<1> DEFINE s == [i \in 1..k |-> Halves(full[i])]
<1>1. /\ \A i \in 1..Len(full) : full[i] \in Msg
      /\ Len(full) \in Nat /\ k \in Nat
    BY PlaceOf
<1>3. \A m \in Msg : Halves(m) \in Seq(Halved)
  <2> SUFFICES ASSUME NEW m \in Msg PROVE Halves(m) \in Seq(Halved)
      OBVIOUS
  <2>1. \A n \in {1, 2} : Half(m, n) \in Halved
      BY DEF Half, Halved
  <2> QED BY <2>1 DEF Halves
<1>4. s \in [1..k -> Seq(Halved)]
    BY <1>1, <1>3
<1>5. \A i \in 1..k : s[i] = Halves(full[i])
    OBVIOUS
<1> HIDE DEF s
<1>6. PICK h \in [0..k -> Seq(Halved)] :
               /\ h[0] = <<>>
               /\ \A i \in 1..k : h[i] = h[i - 1] \o s[i]
               /\ FlattenSeq(s) = h[k]
    BY <1>1, <1>4, FlattenExists
<1> DEFINE Good(j) == /\ Continues(w \o h[j], full, j + 1)
                      /\ j = 0 => w \o h[j] = w
                      /\ j # 0 => ~Halfway(w \o h[j])
           K == {j \in Nat : j <= k => Good(j)}
<1>7. w \in Seq(Halved)
    BY DEF Continues
<1>8. 0 \in K
  <2>2. 0 + 1 = 1
      OBVIOUS
  <2>3. Good(0)
      BY <1>6, <1>7, <2>2
  <2> HIDE DEF Good
  <2> QED BY <2>3
<1>9. ASSUME NEW j \in Nat, j \in K PROVE j + 1 \in K
  <2>0. j + 1 <= k => Good(j + 1)
    <3> SUFFICES ASSUME j + 1 <= k PROVE Good(j + 1)
        OBVIOUS
    <3> DEFINE i == j + 1
    <3>1. i \in 1..k /\ i \in 1..Len(full) /\ i - 1 = j /\ j \in 0..k /\ i # 0 /\ j <= k
        BY <1>1
    <3>2. Good(j)
      <4> HIDE DEF Good
      <4> QED BY <3>1, <1>9
    <3>3. Continues(w \o h[j], full, i)
        BY <3>2
    <3> HIDE DEF i
    <3>5. h[i] = h[j] \o Halves(full[i])
        BY <3>1, <1>5, <1>6
    <3>6. w \o h[i] = (w \o h[j]) \o Halves(full[i])
      <4> DEFINE a == h[j]
                 b == Halves(full[i])
      <4>3. a \in Seq(Halved) /\ b \in Seq(Halved)
          BY <3>1, <1>1, <1>3
      <4> HIDE DEF a, b
      <4>4. w \o (a \o b) = (w \o a) \o b
          BY ONLY <4>3, <1>7
      <4>5. h[i] = a \o b
          BY <3>5 DEF a, b
      <4>6. w \o h[i] = (w \o a) \o b
          BY ONLY <4>4, <4>5
      <4> QED BY ONLY <4>6 DEF a, b
    <3>7. Good(i)
        BY <3>1, <3>3, HalvesKeep, <3>6
    <3> HIDE DEF Good
    <3> QED BY <3>7 DEF i
  <2> HIDE DEF Good
  <2> QED BY <2>0
<1>10. \A j \in Nat : j \in K
  <2> HIDE DEF K
  <2>1. \A j \in Nat : j \in K => j + 1 \in K
      BY <1>9
  <2> QED BY ONLY <1>8, <2>1, SetInduction
<1>11. Good(k)
  <2> HIDE DEF Good
  <2> QED BY <1>1, <1>10
<1> HIDE DEF K
<1> QED
    BY <1>6, <1>11 DEF s

-----------------------------------------------------------------------------
(* What msg_send_chain finds: the responses that are not empty, in order,  *)
(* and the one that is half written is the first of them.                  *)
Chain == Without(send_msgq, {m \in Msg : ~Full(m)})

(* Why: what is gathered is the beginning of out_q, settled, and without   *)
(* an error that is not written.                                           *)
LEMMA ChainIs ==
    ASSUME IInv, pc = "send", send_msgq # <<>>
    PROVE  /\ cur \in Client \ gone /\ frag_msgq = <<>>
           /\ omsg_q[cur] \in Seq(Msg) /\ Increasing(omsg_q[cur])
           /\ Chain \in Seq(Msg) /\ Increasing(Chain)
           /\ ToSet(Chain) = {m \in ToSet(send_msgq) : Full(m)}
           /\ \A m \in ToSet(send_msgq) :
                 /\ m \in Msg /\ m \in ToSet(omsg_q[cur]) /\ Live(msg, m) /\ msg[m].done
                 /\ msg[m].frag_id # None => msg[m].fdone
                 /\ msg[m].peer = "error" \/ ~msg[m].error
                 /\ \A n \in PartsOf(msg, m) : msg[n].fdone /\ ~msg[n].error
           /\ \A x \in ToSet(omsg_q[cur]) :
                 x \notin ToSet(send_msgq) => \A m \in ToSet(send_msgq) : m < x
<1> DEFINE q == omsg_q[cur]
           s == send_msgq
<1>1. /\ frag_msgq = <<>> /\ cur \in Client \ gone
      /\ q \in Seq(Msg) /\ Increasing(q)
      /\ Len(s) \in Nat /\ Len(s) <= Len(q) /\ \A i \in 1..Len(s) : s[i] = q[i]
    BY TurnIs
<1>2. /\ Tree(msg, nlost, nmsg) /\ OutQueues(msg, omsg_q, frag_msgq, cur, gone)
      /\ Sending(msg, omsg_q, s, cur) /\ Errors(msg, s) /\ msg \in [Msg -> MsgRec]
      /\ s \in Seq(Msg)
    BY DEF IInv, TypeOK
<1>3. /\ Len(q) \in Nat
      /\ \A x \in ToSet(q) : \E i \in 1..Len(q) : q[i] = x
      /\ \A i \in 1..Len(q) : q[i] \in ToSet(q) /\ q[i] \in Msg
    BY <1>1, PlaceOf
<1>4. /\ \A x \in ToSet(s) : \E i \in 1..Len(s) : s[i] = x
      /\ \A i \in 1..Len(s) : s[i] \in ToSet(s)
    BY <1>2, PlaceOf
<1>5. \A x \in Msg : x \in Int /\ x # None
    BY FragmentsAssumption DEF Msg, None
<1>6. Increasing(s)
  <2>1. \A i \in 1..Len(s) : i \in 1..Len(q) /\ s[i] = q[i]
      BY <1>1, <1>3
  <2> HIDE DEF s, q
  <2> QED BY <2>1, <1>1 DEF Increasing
<1>7. /\ Chain \in Seq(Msg) /\ ToSet(Chain) = ToSet(s) \ {m \in Msg : ~Full(m)}
    BY <1>2, WithoutFacts DEF Chain
<1>8. Increasing(Chain)
  <2> QED BY <1>5, <1>2, <1>6, WithoutFacts DEF Chain
<1>9. ASSUME NEW m \in ToSet(s)
      PROVE  /\ m \in Msg /\ m \in ToSet(q) /\ Live(msg, m) /\ msg[m].done
             /\ msg[m].frag_id # None => msg[m].fdone
             /\ msg[m].peer = "error" \/ ~msg[m].error
             /\ \A n \in PartsOf(msg, m) : msg[n].fdone /\ ~msg[n].error
  <2>1. PICK i \in 1..Len(s) : s[i] = m
      BY <1>4
  <2>2. i \in 1..Len(q) /\ q[i] = m
    <3>1. /\ Len(s) \in Nat /\ Len(q) \in Nat /\ Len(s) <= Len(q)
          /\ s[i] = q[i]
        BY <1>1, <1>3
    <3> HIDE DEF s, q
    <3> QED BY <2>1, <3>1
  <2>3. m \in ToSet(q) /\ m \in Msg
      BY <2>2, <1>3
  <2>4. Live(msg, m)
      BY <2>3, <1>1, <1>2 DEF OutQueues
  <2>6. msg[m].peer = "error" \/ ~msg[m].error
      BY <2>3, <1>2 DEF Errors
  <2>7. ASSUME NEW n \in PartsOf(msg, m) PROVE msg[n].fdone /\ ~msg[n].error
    <3>1. n \in Msg /\ msg[n].frag_owner = m /\ n # m /\ m # None
        BY <2>3, <1>5 DEF PartsOf
    <3>2. Live(msg, n)
        BY <1>2, <3>1, BlankMessage DEF Tree
    <3> QED BY <3>1, <3>2, <2>4, <1>2, OwnerIs DEF Errors
  <2> QED BY <2>3, <2>4, <1>2, <2>6, <2>7 DEF Sending
<1>10. ASSUME NEW x \in ToSet(q), x \notin ToSet(s), NEW m \in ToSet(s)
       PROVE  m < x
  <2>1. PICK i \in 1..Len(s) : s[i] = m
      BY <1>4
  <2>2. PICK j \in 1..Len(q) : q[j] = x
      BY <1>3
  <2>3. i \in 1..Len(q) /\ q[i] = m
    <3>1. /\ Len(s) \in Nat /\ Len(q) \in Nat /\ Len(s) <= Len(q)
          /\ s[i] = q[i]
        BY <1>1, <1>3
    <3> HIDE DEF s, q
    <3> QED BY <2>1, <3>1
  <2>4. j \notin 1..Len(s)
    <3> SUFFICES ASSUME j \in 1..Len(s) PROVE FALSE
        OBVIOUS
    <3> QED BY <2>2, <1>1, <1>4, <1>10
  <2>5. i < j
      BY <2>1, <2>2, <2>4, <1>1, <1>3
  <2> HIDE DEF q, s
  <2> QED BY <2>2, <2>3, <2>5, <1>1 DEF Increasing
<1> QED BY <1>1, <1>7, <1>8, <1>9, <1>10

(* A client that has half of a response is about to get the rest of that   *)
(* one, or an error again.                                                 *)
LEMMA ChainContinues ==
    ASSUME IInv, pc = "send", send_msgq # <<>>
    PROVE  /\ Continues(wire[cur], Chain, 1)
           /\ Halfway(wire[cur]) => /\ First(msg, omsg_q[cur], Last(wire[cur]))
                                    /\ Chain # <<>> /\ Chain[1] = omsg_q[cur][1]
           /\ \A j \in 1..Len(Chain) : msg[Chain[j]].cut => j = 1
<1> DEFINE q == omsg_q[cur]
           w == wire[cur]
<1>1. /\ cur \in Client \ gone
      /\ q \in Seq(Msg) /\ Increasing(q)
      /\ Chain \in Seq(Msg) /\ Increasing(Chain)
      /\ ToSet(Chain) = {m \in ToSet(send_msgq) : Full(m)}
      /\ \A m \in ToSet(send_msgq) : m \in Msg /\ m \in ToSet(q)
    BY ChainIs
<1>2. OnWire(msg, omsg_q, wire, gone) /\ OutQueues(msg, omsg_q, frag_msgq, cur, gone)
    BY DEF IInv
<1>3. w \in Seq(Halved) /\ Paired(w)
    BY <1>1, <1>2 DEF OnWire, Halved
<1>4. /\ Len(Chain) \in Nat /\ Len(q) \in Nat
      /\ \A x \in ToSet(Chain) : \E i \in 1..Len(Chain) : Chain[i] = x
      /\ \A i \in 1..Len(Chain) : Chain[i] \in ToSet(Chain) /\ Chain[i] \in Msg
      /\ \A x \in ToSet(q) : \E i \in 1..Len(q) : q[i] = x
      /\ \A i \in 1..Len(q) : q[i] \in ToSet(q) /\ q[i] \in Msg
    BY <1>1, PlaceOf
<1>5. ASSUME Halfway(w)
      PROVE  /\ First(msg, q, Last(w)) /\ Chain # <<>> /\ Chain[1] = q[1]
  <2>1. First(msg, q, Last(w))
      BY <1>1, <1>2, <1>5 DEF OnWire
  <2>3. q[1] \in ToSet(send_msgq)
    <3>1. send_msgq \in Seq(Msg) /\ Len(send_msgq) \in Nat /\ send_msgq[1] = q[1] /\ 1 \in 1..Len(send_msgq)
      <4>1. send_msgq \in Seq(Msg)
          BY DEF IInv, TypeOK
      <4>3. 1 \in 1..Len(send_msgq)
          BY <4>1
      <4> QED BY <4>1, TurnIs, <4>3
    <3> QED BY <3>1, PlaceOf
  <2>4. q[1] \in ToSet(Chain)
      BY <2>1, <2>3, <1>1 DEF Full, First
  <2>5. ASSUME NEW y \in ToSet(Chain) PROVE q[1] <= y
    <3>1. y \in ToSet(q)
        BY <1>1
    <3>2. PICK i \in 1..Len(q) : q[i] = y
        BY <3>1, <1>4
    <3>3. 1 \in 1..Len(q) /\ (i = 1 \/ 1 < i)
        BY <1>4
    <3>4. q[1] \in Int
        BY <3>3, <1>4 DEF Msg
    <3> HIDE DEF q
    <3>5. CASE i = 1
        BY <3>2, <3>4, <3>5
    <3>6. CASE 1 < i
        BY <3>2, <3>3, <3>6, <1>1, <1>4, <3>4 DEF Increasing, Msg
    <3> QED BY <3>3, <3>5, <3>6
  <2>6. Chain # <<>> /\ Chain[1] = q[1]
    <3> HIDE DEF q
    <3> QED BY <2>4, <2>5, <1>1, LeastIsFirst
  <2> QED BY <2>1, <2>6
<1>6. ASSUME NEW j \in 1..Len(Chain), msg[Chain[j]].cut
      PROVE  Halfway(w) /\ j = 1
  <2>1. Chain[j] \in ToSet(q) /\ Chain[j] \in Msg
      BY <1>1, <1>4
  <2>3. Halfway(w) /\ Last(w).req = Chain[j]
      BY <2>1, <1>1, <1>2, <1>6 DEF OnWire, OutQueues
  <2>5. 1 \in 1..Len(Chain) /\ Chain[j] = Chain[1]
      BY <2>3, <1>5, <1>4 DEF First
  <2>7. j = 1
      BY <2>5, <1>1, SeqOfInts, OncePlaced
  <2> QED BY <2>3, <2>7
<1>7. Continues(w, Chain, 1)
  <2>1. ASSUME Halfway(w)
        PROVE  /\ 1 <= Len(Chain) /\ Last(w).req = Chain[1]
               /\ Last(w).bad <=> msg[Chain[1]].peer = "error"
               /\ Last(w).bad \/ msg[Chain[1]].cut
      BY <2>1, <1>5, <1>1, <1>4 DEF First
  <2>2. \A j \in 1..Len(Chain) : msg[Chain[j]].cut => Halfway(w) /\ j = 1
      BY <1>6
  <2> HIDE DEF w
  <2> QED BY <2>1, <2>2, <1>3 DEF Continues
<1> QED
    BY <1>5, <1>6, <1>7

-----------------------------------------------------------------------------
(* What msg_send_chain frees when it has written k responses.              *)
LEMMA SentIs ==
    ASSUME IInv, pc = "send", send_msgq # <<>>, NEW k \in Nat, k <= Len(Chain)
    PROVE  LET S == SentWhole(Chain, k)
               r == Without(omsg_q[cur], S)
           IN /\ S \subseteq ToSet(send_msgq) /\ S \subseteq Msg
              /\ \A x \in S : Full(x) => \E j \in 1..k : Chain[j] = x
              /\ \A j \in 1..k : Chain[j] \in S
              /\ r \in Seq(Msg) /\ Increasing(r) /\ ToSet(r) = ToSet(omsg_q[cur]) \ S
              /\ k < Len(Chain) => /\ Chain[k + 1] \in ToSet(send_msgq)
                                   /\ Chain[k + 1] \notin S /\ Full(Chain[k + 1])
                                   /\ r # <<>> /\ r[1] = Chain[k + 1]
<1> DEFINE S == SentWhole(Chain, k)
           q == omsg_q[cur]
           r == Without(q, S)
           s == send_msgq
<1>1. /\ q \in Seq(Msg) /\ Increasing(q)
      /\ Chain \in Seq(Msg) /\ Increasing(Chain)
      /\ ToSet(Chain) = {m \in ToSet(s) : Full(m)}
      /\ \A m \in ToSet(s) : m \in Msg /\ m \in ToSet(q)
      /\ \A x \in ToSet(q) : x \notin ToSet(s) => \A m \in ToSet(s) : m < x
    BY ChainIs
<1>2. /\ Len(Chain) \in Nat
      /\ \A x \in ToSet(Chain) : \E i \in 1..Len(Chain) : Chain[i] = x
      /\ \A i \in 1..Len(Chain) : Chain[i] \in ToSet(Chain) /\ Chain[i] \in Msg
    BY <1>1, PlaceOf
<1>3. ToSet(SubSeq(Chain, 1, k)) = {Chain[j] : j \in 1..k}
  <2>1. /\ DOMAIN SubSeq(Chain, 1, k) = 1..k
        /\ \A j \in 1..k : SubSeq(Chain, 1, k)[j] = Chain[j]
      BY <1>1, <1>2
  <2> QED BY <2>1 DEF ToSet
<1>4. S = {Chain[j] : j \in 1..k} \cup {m \in ToSet(s) : ~Full(m)}
    BY <1>3 DEF SentWhole
<1>5. \A j \in 1..k : j \in 1..Len(Chain) /\ Chain[j] \in ToSet(s) /\ Full(Chain[j])
    BY <1>1, <1>2
<1> HIDE DEF S
<1>6. S \subseteq ToSet(s) /\ S \subseteq Msg
    BY <1>1, <1>4, <1>5
<1>7. /\ \A x \in S : Full(x) => \E j \in 1..k : Chain[j] = x
      /\ \A j \in 1..k : Chain[j] \in S
    BY <1>4
<1>8. r \in Seq(Msg) /\ ToSet(r) = ToSet(q) \ S /\ Increasing(r)
  <2>1. Msg \subseteq Int
      BY DEF Msg
  <2> QED BY <2>1, <1>1, WithoutFacts
<1> HIDE DEF r, s, q
<1>9. ASSUME k < Len(Chain)
      PROVE  /\ Chain[k + 1] \in ToSet(s) /\ Chain[k + 1] \notin S /\ Full(Chain[k + 1])
             /\ r # <<>> /\ r[1] = Chain[k + 1]
  <2> DEFINE x == Chain[k + 1]
  <2>1. k + 1 \in 1..Len(Chain)
      BY <1>2, <1>9
  <2>2. x \in ToSet(s) /\ Full(x) /\ x \in Msg
      BY <2>1, <1>1, <1>2
  <2>3. Chain \in Seq(Int)
      BY <1>1, SeqOfInts
  <2>4. \A j \in 1..k : Chain[j] # x
    <3> SUFFICES ASSUME NEW j \in 1..k, Chain[j] = x PROVE FALSE
        OBVIOUS
    <3> QED BY <2>1, <2>3, <1>1, <1>5, OncePlaced
  <2>5. x \notin S
      BY <2>2, <2>4, <1>7
  <2>6. x \in ToSet(r)
      BY <2>2, <2>5, <1>1, <1>8
  <2>7. ASSUME NEW y \in ToSet(r) PROVE x <= y
    <3>1. y \in ToSet(q) /\ y \notin S
        BY <1>8
    <3>2. CASE y \notin ToSet(s)
      <4>2. x \in Int /\ y \in Int
        <5>1. y \in Msg
            BY <3>1, <1>1, PlaceOf
        <5> QED BY <5>1, <2>2 DEF Msg
      <4> QED BY <3>1, <3>2, <2>2, <1>1, <4>2
    <3>3. CASE y \in ToSet(s)
      <4>1. Full(y)
          BY <3>1, <3>3, <1>4
      <4>2. PICK j \in 1..Len(Chain) : Chain[j] = y
          BY <4>1, <3>3, <1>1, <1>2
      <4>4. j = k + 1 \/ k + 1 < j
          BY <4>2, <3>1, <1>4, <1>2
      <4>6. Chain[k + 1] \in Int
          BY <2>2 DEF Msg
      <4>7. Chain[j] \in Int
          BY <1>2 DEF Msg
      <4>8. Chain[k + 1] <= Chain[j]
          BY <4>4, <4>2, <2>1, <1>1, <4>6, <4>7 DEF Increasing
      <4> QED BY <4>2, <4>8
    <3> QED BY <3>2, <3>3
  <2> HIDE DEF x
  <2> QED BY <2>2, <2>5, <2>6, <2>7, <1>8, LeastIsFirst DEF x
<1> QED
    BY <1>6, <1>7, <1>8, <1>9 DEF S, r, s, q

(* Freeing what was written keeps the invariant.                           *)
LEMMA FreeKeeps ==
    ASSUME IInv, pc = "send", send_msgq # <<>>, NEW k \in Nat, k <= Len(Chain)
    PROVE  LET S == SentWhole(Chain, k)
               oqn == [omsg_q EXCEPT ![cur] = Without(@, S)]
               new == Removed(msg, S, {})
           IN /\ Drained(omsg_q, oqn, S, gone)
              /\ Tree(new, nlost, nmsg) /\ OutQueues(new, oqn, <<>>, cur, gone)
              /\ Waits(new, queue, <<>>) /\ Errors(new, <<>>)
<1> DEFINE S == SentWhole(Chain, k)
           oqn == [omsg_q EXCEPT ![cur] = Without(@, S)]
           W == {}
<1>1. /\ Flow(msg, nlost, nmsg, omsg_q, queue, frag_msgq, send_msgq, cur, gone, wire)
      /\ cur \in Client \ gone /\ frag_msgq = <<>>
    BY IInvIs, ChainIs
<1>2. /\ Tree(msg, nlost, nmsg) /\ OutQueues(msg, omsg_q, <<>>, cur, gone)
      /\ Waits(msg, queue, <<>>) /\ Errors(msg, send_msgq)
    BY <1>1 DEF Flow
<1>3. \A m \in ToSet(send_msgq) :
                 /\ m \in Msg /\ m \in ToSet(omsg_q[cur]) /\ Live(msg, m) /\ msg[m].done
                 /\ msg[m].frag_id # None => msg[m].fdone
                 /\ \A n \in PartsOf(msg, m) : msg[n].fdone /\ ~msg[n].error
    BY ChainIs
<1>4. /\ S \subseteq ToSet(send_msgq) /\ S \subseteq Msg
      /\ Without(omsg_q[cur], S) \in Seq(Msg) /\ Increasing(Without(omsg_q[cur], S))
      /\ ToSet(Without(omsg_q[cur], S)) = ToSet(omsg_q[cur]) \ S
    BY SentIs
<1>5. ToSet(<<>>) = {}
    BY DEF ToSet
<1> HIDE DEF S
<1>6. /\ omsg_q \in [Client -> Seq(Msg)]
      /\ \A d \in Client : /\ Increasing(omsg_q[d]) /\ (d \in gone => omsg_q[d] = <<>>)
                           /\ \A m \in ToSet(omsg_q[d]) : msg[m].owner = d
    BY <1>2 DEF OutQueues
<1>7. Drained(omsg_q, oqn, S, gone)
  <2>1. /\ oqn \in [Client -> Seq(Msg)] /\ oqn[cur] = Without(omsg_q[cur], S)
        /\ \A d \in Client \ {cur} : oqn[d] = omsg_q[d]
      BY <1>1, <1>4, <1>6
  <2> HIDE DEF oqn
  <2>2. ASSUME NEW d \in Client
        PROVE  /\ Increasing(oqn[d]) /\ ToSet(oqn[d]) = ToSet(omsg_q[d]) \ S
               /\ d \in gone => oqn[d] = <<>>
      BY <2>1, <1>1, <1>4, <1>3, <1>6
  <2> QED BY <2>1, <2>2 DEF Drained
<1>8. Answered(queue, queue, S)
    BY <1>2, <1>3, <1>4 DEF Waits, Answered
<1> HIDE DEF oqn, W
<1>9. Removable(msg, <<>>, S, W)
  <2>1. \A x \in S : LET o == msg[x].frag_owner IN
               o # None /\ o # x /\ o \notin S /\ Live(msg, o) => msg[o].fdone
    <3> SUFFICES ASSUME NEW x \in S, msg[x].frag_owner # None, Live(msg, msg[x].frag_owner)
                 PROVE  msg[msg[x].frag_owner].fdone
        OBVIOUS
    <3>1. x \in Msg /\ Live(msg, x) /\ (msg[x].frag_id # None => msg[x].fdone)
        BY <1>3, <1>4
    <3>3. msg[x].fdone
        BY <3>1, <1>2 DEF Tree, Groups
    <3> QED BY <3>3, <3>1, <1>2, OwnerIs
  <2>2. \A x \in Msg : LET o == msg[x].frag_owner IN
               x \notin S \cup W /\ Live(msg, x) /\ o \in S /\ o # x
                  => msg[x].fdone /\ ~msg[x].error
    <3> SUFFICES ASSUME NEW x \in Msg, msg[x].frag_owner \in S, msg[x].frag_owner # x
                 PROVE  msg[x].fdone /\ ~msg[x].error
        OBVIOUS
    <3> QED BY <1>3, <1>4 DEF PartsOf
  <2>4. \A x \in S : Live(msg, x)
      BY <1>3, <1>4
  <2> QED BY <2>1, <2>2, <2>4, <1>4, <1>5 DEF Removable, W
<1>10. Drained(omsg_q, oqn, S \cup W, gone)
    BY <1>7 DEF W
<1>12. /\ Tree(Removed(msg, S, W), nlost, nmsg)
       /\ OutQueues(Removed(msg, S, W), oqn, <<>>, cur, gone)
       /\ Waits(Removed(msg, S, W), queue, <<>>) /\ Errors(Removed(msg, S, W), <<>>)
    BY <1>2, <1>8, <1>9, <1>10, <1>5, RemoveKeeps
<1> QED
    BY <1>7, <1>12 DEF S, oqn, W

-----------------------------------------------------------------------------
(* What a client has been sent after k responses, and half of the next.    *)
Written(k, half) ==
    wire[cur] \o FlattenSeq([i \in 1..k |-> Halves(Chain[i])])
              \o IF half THEN <<Half(Chain[k + 1], 1)>> ELSE <<>>

(* No response is written twice or broken off by another.                  *)
LEMMA WrittenIs ==
    ASSUME IInv, pc = "send", send_msgq # <<>>, NEW k \in Nat, k <= Len(Chain),
           NEW half \in BOOLEAN, half => k < Len(Chain) /\ ~msg[Chain[k + 1]].cut
    PROVE  LET v == Written(k, half)
           IN /\ v \in Seq(Halved) /\ Paired(v)
              /\ half => v # <<>> /\ Last(v) = Half(Chain[k + 1], 1)
              /\ ~half => (k = 0 => v = wire[cur]) /\ (k # 0 => ~Halfway(v))
<1> DEFINE u == wire[cur] \o FlattenSeq([i \in 1..k |-> Halves(Chain[i])])
           v == Written(k, half)
           x == Half(Chain[k + 1], 1)
<1>1. Chain \in Seq(Msg) /\ msg \in [Msg -> MsgRec]
    BY ChainIs, IInvIs
<1>3. Len(Chain) \in Nat /\ k \in 0..Len(Chain)
    BY <1>1
<1>4. Continues(u, Chain, k + 1) /\ (k = 0 => u = wire[cur]) /\ (k # 0 => ~Halfway(u))
    BY <1>1, ChainContinues, <1>3, Grows
<1>5. v = u \o IF half THEN <<x>> ELSE <<>>
    BY DEF Written
<1> HIDE DEF u, v, x
<1>6. u \in Seq(Halved) /\ Paired(u)
    BY <1>4 DEF Continues
<1>7. CASE half
  <2>1. k + 1 \in 1..Len(Chain)
      BY <1>3, <1>7
  <2>2. x \in Halved /\ Follows(u, x)
      BY <2>1, <1>1, <1>4, <1>7, HalfFollows DEF x
  <2>3. v = Append(u, x)
    <3> QED BY <1>5, <1>7, <2>2, <1>6, ConcatFacts
  <2> QED BY <2>2, <2>3, <1>6, PairedAppend, <1>7 DEF v, x
<1>8. CASE ~half
    BY <1>5, <1>8, <1>6, <1>4 DEF v
<1> QED
    BY <1>7, <1>8

(* What is half written is the first response that is not sent whole.      *)
LEMMA WrittenKeeps ==
    ASSUME IInv, pc = "send", send_msgq # <<>>, NEW k \in Nat, k <= Len(Chain),
           NEW half \in BOOLEAN, half => k < Len(Chain) /\ ~msg[Chain[k + 1]].cut,
           NEW S, S = SentWhole(Chain, k),
           NEW oqn, oqn = [omsg_q EXCEPT ![cur] = Without(@, S)],
           NEW win, win = [wire EXCEPT ![cur] = Written(k, half)],
           NEW mgn,
           \A x \in Msg : x \in S => ~mgn[x].cut,
           \A x \in Msg : x \notin S /\ ~(half /\ x = Chain[k + 1]) => mgn[x] = msg[x],
           half => LET y == Chain[k + 1]
                   IN /\ mgn[y].cut /\ mgn[y].owner = msg[y].owner /\ mgn[y].done = msg[y].done
                      /\ mgn[y].frag_id = msg[y].frag_id /\ mgn[y].fdone = msg[y].fdone
                      /\ mgn[y].peer = msg[y].peer
    PROVE  OnWire(mgn, oqn, win, gone)
<1> DEFINE q == omsg_q[cur]
           w == wire[cur]
           v == Written(k, half)
           y == Chain[k + 1]
<1>1. /\ cur \in Client \ gone
      /\ \A m \in ToSet(send_msgq) :
            /\ m \in Msg /\ m \in ToSet(q) /\ msg[m].done
            /\ msg[m].frag_id # None => msg[m].fdone
    BY ChainIs
<1>2. OnWire(msg, omsg_q, wire, gone) /\ OutQueues(msg, omsg_q, frag_msgq, cur, gone)
    BY DEF IInv
<1>3. /\ omsg_q \in [Client -> Seq(Msg)] /\ wire \in [Client -> Seq(Halved)]
      /\ \A c \in Client : Paired(wire[c])
      /\ \A c \in Client \ gone : Halfway(wire[c]) => First(msg, omsg_q[c], Last(wire[c]))
      /\ \A x \in Msg : msg[x].cut => Halfway(wire[msg[x].owner]) /\ Last(wire[msg[x].owner]).req = x
      /\ \A c \in Client : \A m \in ToSet(omsg_q[c]) : msg[m].owner = c
    BY <1>2 DEF OnWire, OutQueues, Halved
<1>4. /\ S \subseteq ToSet(send_msgq) /\ S \subseteq Msg
      /\ \A x \in S : Full(x) => \E j \in 1..k : Chain[j] = x
      /\ \A j \in 1..k : Chain[j] \in S
      /\ Without(q, S) \in Seq(Msg)
      /\ k < Len(Chain) => /\ y \in ToSet(send_msgq) /\ y \notin S /\ Full(y)
                           /\ Without(q, S) # <<>> /\ Without(q, S)[1] = y
    BY SentIs
<1>5. /\ v \in Seq(Halved) /\ Paired(v)
      /\ half => v # <<>> /\ Last(v) = Half(y, 1)
      /\ ~half => (k = 0 => v = w) /\ (k # 0 => ~Halfway(v))
    BY WrittenIs
<1>6. Halfway(w) => First(msg, q, Last(w)) /\ Chain # <<>> /\ Chain[1] = q[1]
    BY ChainContinues
<1>7. /\ oqn[cur] = Without(q, S) /\ \A c \in Client \ {cur} : oqn[c] = omsg_q[c]
      /\ win[cur] = v /\ \A c \in Client \ {cur} : win[c] = wire[c]
      /\ win \in [Client -> Seq(Halved)]
  <2> HIDE DEF v
  <2> QED BY <1>1, <1>3, <1>4, <1>5 DEF v
<1>8. half => k < Len(Chain) /\ ~msg[y].cut
    OBVIOUS
<1>9. /\ \A x \in Msg : x \in S => ~mgn[x].cut
      /\ \A x \in Msg : x \notin S /\ ~(half /\ x = y) => mgn[x] = msg[x]
      /\ half => /\ mgn[y].cut /\ mgn[y].owner = msg[y].owner /\ mgn[y].done = msg[y].done
                 /\ mgn[y].frag_id = msg[y].frag_id /\ mgn[y].fdone = msg[y].fdone
                 /\ mgn[y].peer = msg[y].peer
    OBVIOUS
<1>10. half => y \in Msg /\ msg[y].owner = cur
    BY <1>1, <1>3, <1>4, <1>8
<1>11. Chain \in Seq(Msg) /\ Len(Chain) \in Nat
    BY ChainIs
<1>12. Half(y, 1).half = 1 /\ Half(y, 1).req = y /\ (Half(y, 1).bad <=> msg[y].peer = "error")
    BY DEF Half
<1> HIDE DEF v, w, q, y
<1>13. ASSUME NEW c \in Client \ gone, Halfway(win[c])
       PROVE  First(mgn, oqn[c], Last(win[c]))
  <2>1. CASE c # cur
    <3> DEFINE h == Last(wire[c])
    <3>1. win[c] = wire[c] /\ oqn[c] = omsg_q[c]
        BY <2>1, <1>7
    <3>2. First(msg, omsg_q[c], h)
        BY <3>1, <1>3, <1>13
    <3>3. h.req \in ToSet(omsg_q[c]) /\ h.req \in Msg
        BY <3>1, <1>2, <1>13, HalfIsQueued
    <3>4. msg[h.req].owner = c
        BY <3>3, <1>3
    <3>6. mgn[h.req] = msg[h.req]
        BY <3>3, <3>4, <1>1, <1>3, <1>4, <2>1, <1>9, <1>10 DEF q
    <3> HIDE DEF h
    <3> QED BY <3>1, <3>2, <3>6 DEF h, First
  <2>2. CASE c = cur /\ half
    <3>1. Last(win[c]) = Half(y, 1) /\ oqn[c] = Without(q, S)
        BY <2>2, <1>5, <1>7
    <3>2. oqn[c] # <<>> /\ oqn[c][1] = y /\ y \in ToSet(send_msgq) /\ Full(y)
        BY <3>1, <2>2, <1>4, <1>8
    <3>3. mgn[y].done /\ (mgn[y].frag_id # None => mgn[y].fdone)
        BY <3>2, <2>2, <1>1, <1>9
    <3>4. mgn[y].peer # "empty" /\ mgn[y].peer = msg[y].peer /\ mgn[y].cut
        BY <3>2, <2>2, <1>9 DEF Full
    <3> DEFINE h == Half(y, 1)
    <3>5. h.req = y /\ (h.bad <=> mgn[y].peer = "error")
        BY <3>4, <1>12
    <3> HIDE DEF h
    <3> QED BY <3>1, <3>2, <3>3, <3>4, <3>5 DEF h, First
  <2>3. CASE c = cur /\ ~half
    <3>1. k = 0 /\ win[c] = w
        BY <2>3, <1>5, <1>7, <1>13
    <3>2. First(msg, q, Last(w)) /\ Chain # <<>> /\ Chain[1] = q[1]
        BY <3>1, <1>6, <1>13
    <3>3. k < Len(Chain) /\ k + 1 = 1
        BY <3>1, <3>2, <1>11
    <3>5. oqn[c] # <<>> /\ oqn[c][1] = y /\ y \notin S /\ y \in Msg
        BY <3>3, <2>3, <1>1, <1>4, <1>7
    <3> DEFINE h == Last(w)
    <3>6. h.req = y
        BY <3>2, <3>3 DEF First, y
    <3>7. mgn[y] = msg[y]
        BY <3>5, <2>3, <1>9
    <3>8. First(msg, q, h)
        BY <3>2
    <3> HIDE DEF h
    <3> QED BY <3>1, <3>5, <3>6, <3>7, <3>8 DEF h, First
  <2> QED BY <2>1, <2>2, <2>3
<1>14. ASSUME NEW x \in Msg, mgn[x].cut
       PROVE  Halfway(win[mgn[x].owner]) /\ Last(win[mgn[x].owner]).req = x
  <2>1. CASE half /\ x = y
    <3>1. mgn[x].owner = cur
        BY <2>1, <1>9, <1>10
    <3>3. Halfway(v) /\ Last(v).req = y
        BY <2>1, <1>5, <1>12 DEF Halfway
    <3> QED BY <3>1, <3>3, <2>1, <1>7
  <2>2. CASE ~(half /\ x = y)
    <3>1. x \notin S
        BY <1>9, <1>14
    <3>2. mgn[x] = msg[x]
        BY <3>1, <2>2, <1>9
    <3>3. Halfway(wire[msg[x].owner]) /\ Last(wire[msg[x].owner]).req = x
        BY <3>2, <1>3, <1>14
    <3>4. CASE msg[x].owner # cur
      <4>2. win[msg[x].owner] = wire[msg[x].owner]
          BY <3>4, IInvIs, BlankMessage, <3>2, <1>14, <1>7 DEF IInv, Tree,
            Flags
      <4> QED BY <4>2, <3>2, <3>3
    <3>5. CASE msg[x].owner = cur
      <4>1. Halfway(w) /\ Last(w).req = x
          BY <3>3, <3>5 DEF w
      <4>2. x = Chain[1] /\ Chain # <<>>
          BY <4>1, <1>6 DEF First
      <4>3. k = 0
        <5> SUFFICES ASSUME k # 0 PROVE FALSE
            OBVIOUS
        <5> QED BY <4>2, <3>1, <1>4
      <4>4. y = x
        <5> QED BY <4>3, <4>2 DEF y
      <4> QED BY <4>1, <4>3, <4>4, <2>2, <1>5, <3>2, <3>5, <1>7
    <3> QED BY <3>4, <3>5
  <2> QED BY <2>1, <2>2
<1> QED BY <1>7, <1>13, <1>14, <1>3, <1>5 DEF OnWire, Halved

-----------------------------------------------------------------------------
(* One write: responses are freed, and one may be left half written.       *)
LEMMA ChainKeeps ==
    ASSUME IInv, pc = "send", send_msgq # <<>>, NEW k \in Nat, k <= Len(Chain),
           NEW half \in BOOLEAN, half => k < Len(Chain) /\ ~msg[Chain[k + 1]].cut
    PROVE  LET S == SentWhole(Chain, k)
               new == Removed(msg, S, {})
           IN Flow(IF half THEN CutOff(new, Chain[k + 1]) ELSE new, nlost, nmsg,
                   [omsg_q EXCEPT ![cur] = Without(@, S)], queue, <<>>, <<>>, cur, gone,
                   [wire EXCEPT ![cur] = Written(k, half)])
<1> DEFINE S == SentWhole(Chain, k)
           oqn == [omsg_q EXCEPT ![cur] = Without(@, S)]
           new == Removed(msg, S, {})
           win == [wire EXCEPT ![cur] = Written(k, half)]
           y == Chain[k + 1]
           mgn == IF half THEN CutOff(new, y) ELSE new
<1>1. /\ Tree(new, nlost, nmsg) /\ OutQueues(new, oqn, <<>>, cur, gone)
      /\ Waits(new, queue, <<>>) /\ Errors(new, <<>>)
    BY FreeKeeps
<1>2. /\ \A x \in Msg : x \in S => new[x].frag_owner = None /\ ~new[x].cut
      /\ \A x \in Msg : x \notin S => new[x] = msg[x]
  <2> DEFINE W == {}
  <2>1. \A x \in Msg : x \notin W
      OBVIOUS
  <2>2. msg \in [Msg -> MsgRec]
      BY IInvIs
  <2> HIDE DEF S, W
  <2> DEFINE f == Removed(msg, S, W)
  <2>3. \A x \in Msg : x \in S =>
           /\ ~Live(f, x) /\ f[x] = [NoMsg EXCEPT !.st = f[x].st]
           /\ f[x].frag_owner = None /\ ~f[x].done /\ ~f[x].ferror
           /\ ~f[x].cut /\ f[x].st = "freed"
      BY <2>2, RemovedFields
  <2>4. \A x \in Msg : x \notin S => Removed(msg, S, W)[x] = msg[x]
      BY <2>1, <2>2, RemovedFields
  <2> QED BY <2>3, <2>4 DEF W
<1>3. /\ S \subseteq ToSet(send_msgq)
      /\ k < Len(Chain) => y \in ToSet(send_msgq) /\ y \notin S
    BY SentIs
<1>4. \A m \in ToSet(send_msgq) :
         /\ m \in Msg /\ m \in ToSet(omsg_q[cur]) /\ Live(msg, m) /\ msg[m].done
         /\ msg[m].frag_id # None => msg[m].fdone
         /\ msg[m].peer = "error" \/ ~msg[m].error
         /\ \A n \in PartsOf(msg, m) : msg[n].fdone /\ ~msg[n].error
    BY ChainIs
<1>5. half => k < Len(Chain)
    OBVIOUS
<1> HIDE DEF S, new, y, oqn
<1>6. half =>
          /\ Tree(mgn, nlost, nmsg) /\ OutQueues(mgn, oqn, <<>>, cur, gone)
          /\ Waits(mgn, queue, <<>>) /\ Errors(mgn, <<>>)
          /\ mgn[y].cut /\ \A x \in Msg : x # y => mgn[x] = new[x]
          /\ mgn[y].owner = new[y].owner /\ mgn[y].done = new[y].done
          /\ mgn[y].frag_id = new[y].frag_id
          /\ mgn[y].fdone = new[y].fdone /\ mgn[y].peer = new[y].peer
  <2> SUFFICES ASSUME half
               PROVE  /\ Tree(mgn, nlost, nmsg) /\ OutQueues(mgn, oqn, <<>>, cur, gone)
                      /\ Waits(mgn, queue, <<>>) /\ Errors(mgn, <<>>)
                      /\ mgn[y].cut /\ \A x \in Msg : x # y => mgn[x] = new[x]
                      /\ mgn[y].owner = new[y].owner /\ mgn[y].done = new[y].done
                      /\ mgn[y].frag_id = new[y].frag_id
                      /\ mgn[y].fdone = new[y].fdone /\ mgn[y].peer = new[y].peer
      OBVIOUS
  <2>1. y \in ToSet(send_msgq) /\ y \in Msg /\ y \notin S
      BY <1>3, <1>4, <1>5
  <2>2. new[y] = msg[y]
      BY <2>1, <1>2
  <2>3. /\ Live(msg, y) /\ msg[y].done
        /\ msg[y].frag_id # None => msg[y].fdone
        /\ msg[y].peer = "error" \/ ~msg[y].error
      BY <2>1, <1>4
  <2>5. \A n \in PartsOf(new, y) : new[n].fdone /\ ~new[n].error
    <3> SUFFICES ASSUME NEW n \in PartsOf(new, y) PROVE new[n].fdone /\ ~new[n].error
        OBVIOUS
    <3>1. n \in Msg /\ new[n].frag_owner = y /\ n # y
        BY DEF PartsOf
    <3>3. n \notin S
        BY <3>1, <2>1, <1>2 DEF Msg, None
    <3>4. new[n] = msg[n]
        BY <3>1, <3>3, <1>2
    <3>6. msg[n].fdone /\ ~msg[n].error
        BY <3>1, <3>4, <2>1, <1>4 DEF PartsOf
    <3> QED BY <3>4, <3>6
  <2>6. /\ new[y].done /\ (new[y].frag_id # None => new[y].fdone)
        /\ new[y].peer = "error" \/ ~new[y].error
      BY <2>2, <2>3
  <2> DEFINE c == CutOff(new, y)
  <2>7. /\ Tree(c, nlost, nmsg) /\ OutQueues(c, oqn, <<>>, cur, gone)
        /\ Waits(c, queue, <<>>) /\ Errors(c, <<>>)
        /\ c[y].cut /\ \A x \in Msg : x # y => c[x] = new[x]
        /\ \A x \in Msg : /\ c[x].owner = new[x].owner /\ c[x].done = new[x].done
                          /\ c[x].frag_id = new[x].frag_id
                          /\ c[x].fdone = new[x].fdone /\ c[x].peer = new[x].peer
      BY <2>1, <2>2, <2>3, <2>5, <2>6, <1>1, CutKeeps DEF Live
  <2>8. mgn = c
      OBVIOUS
  <2> HIDE DEF c, mgn
  <2> QED BY <2>1, <2>7, <2>8
<1>7. ~half => mgn = new
    OBVIOUS
<1> HIDE DEF mgn
<1>9. \A x \in Msg : x \in S => ~mgn[x].cut
  <2> QED BY <1>3, <1>5, <1>2, <1>6, <1>7
<1>10. \A x \in Msg : x \notin S /\ ~(half /\ x = y) => mgn[x] = msg[x]
    BY <1>2, <1>6, <1>7
<1>11. half => /\ mgn[y].cut /\ mgn[y].owner = msg[y].owner /\ mgn[y].done = msg[y].done
               /\ mgn[y].frag_id = msg[y].frag_id /\ mgn[y].fdone = msg[y].fdone
               /\ mgn[y].peer = msg[y].peer
  <2> QED BY <1>2, <1>3, <1>4, <1>5, <1>6
<1>12. OnWire(mgn, oqn, win, gone)
  <2>1. S = SentWhole(Chain, k) /\ oqn = [omsg_q EXCEPT ![cur] = Without(@, S)]
      BY DEF S, oqn
  <2>2. y = Chain[k + 1]
      BY DEF y
  <2> HIDE DEF win
  <2>4. \A x \in Msg : x \notin S /\ ~(half /\ x = Chain[k + 1]) => mgn[x] = msg[x]
      BY <2>2, <1>10
  <2>5. half => LET z == Chain[k + 1]
                IN /\ mgn[z].cut /\ mgn[z].owner = msg[z].owner /\ mgn[z].done = msg[z].done
                   /\ mgn[z].frag_id = msg[z].frag_id /\ mgn[z].fdone = msg[z].fdone
                   /\ mgn[z].peer = msg[z].peer
      BY <2>2, <1>11
  <2>6. half => k < Len(Chain) /\ ~msg[Chain[k + 1]].cut
      OBVIOUS
  <2> QED BY <2>1, <2>4, <2>5, <2>6, <1>9, WrittenKeeps DEF win
<1>13. Sending(mgn, oqn, <<>>, cur)
    BY DEF ToSet, Sending
<1>14. Flow(mgn, nlost, nmsg, oqn, queue, <<>>, <<>>, cur, gone, win)
    BY <1>1, <1>6, <1>7, <1>12, <1>13 DEF Flow
<1> QED
    BY <1>14 DEF mgn, new, oqn, S, y

(* What one write leaves: k responses are sent, and maybe half of one more. *)
LEMMA SendChainIs ==
    ASSUME IInv, NEW k \in 0..MaxMsg, NEW half \in BOOLEAN, SendChain(k, half)
    PROVE  LET S == SentWhole(Chain, k)
               new == Removed(msg, S, {})
               y == Chain[k + 1]
           IN /\ pc = "send" /\ send_msgq # <<>> /\ k \in Nat /\ k <= Len(Chain)
              /\ IF k = Len(Chain) THEN UNCHANGED nfault ELSE Faulty
              /\ half => k < Len(Chain) /\ ~msg[y].cut
              /\ msg' = IF half THEN CutOff(new, y) ELSE new
              /\ omsg_q' = [omsg_q EXCEPT ![cur] = Without(@, S)]
              /\ wire' = [wire EXCEPT ![cur] = Written(k, half)]
              /\ pc' = IF k < Len(Chain) THEN "loop" ELSE "send"
              /\ cur' = IF k < Len(Chain) THEN None ELSE cur
              /\ send_msgq' = <<>>
              /\ UNCHANGED <<queue, frag_msgq, gone, nmsg, nlost>>
<1> DEFINE S == SentWhole(Chain, k)
           new == Removed(msg, S, {})
           y == Chain[k + 1]
           mgn == IF half THEN CutOff(new, y) ELSE new
<1>1. pc = "send" /\ send_msgq # <<>>
    BY DEF SendChain
<1>2. /\ k <= Len(Chain)
      /\ IF k = Len(Chain) THEN UNCHANGED nfault ELSE Faulty
      /\ half => k < Len(Chain) /\ ~msg[y].cut
      /\ msg' = [m \in Msg |-> IF m \in S THEN put(msg[m])
                               ELSE IF half /\ m = y THEN [msg[m] EXCEPT !.cut = TRUE]
                               ELSE msg[m]]
      /\ omsg_q' = [omsg_q EXCEPT ![cur] = Without(@, S)]
      /\ wire' = [wire EXCEPT ![cur] = Written(k, half)]
      /\ pc' = IF k < Len(Chain) THEN "loop" ELSE "send"
      /\ cur' = IF k < Len(Chain) THEN None ELSE cur
      /\ send_msgq' = <<>>
      /\ UNCHANGED <<queue, frag_msgq, gone, nmsg, nlost>>
    BY DEF SendChain, Chain, Written
<1>3. k \in Nat
    BY FragmentsAssumption
<1>5. msg' = mgn
  <2>1. half => y \notin S
      BY <1>1, <1>2, <1>3, SentIs
  <2> HIDE DEF S, y
  <2>2. CASE half
    <3>1. mgn = [x \in Msg |-> IF x = y THEN [new[x] EXCEPT !.cut = TRUE] ELSE new[x]]
        BY <2>2 DEF CutOff
    <3>2. \A x \in Msg : new[x] = IF x \in S THEN put(msg[x]) ELSE msg[x]
        BY DEF Removed
    <3> HIDE DEF new, mgn
    <3> QED BY <3>1, <3>2, <2>1, <2>2, <1>2
  <2>3. CASE ~half
    <3>1. mgn = new
        BY <2>3
    <3>2. new = [x \in Msg |-> IF x \in S THEN put(msg[x]) ELSE msg[x]]
        BY DEF Removed
    <3> HIDE DEF new, mgn
    <3> QED BY <3>1, <3>2, <2>3, <1>2
  <2> QED BY <2>2, <2>3
<1> HIDE DEF mgn, S, y
<1> QED
    BY <1>1, <1>2, <1>3, <1>5 DEF mgn, S, y

(* The responses gathered are written (SendChain).                         *)
LEMMA SendChainKeeps ==
    ASSUME IInv, NEW k \in 0..MaxMsg, NEW half \in BOOLEAN, SendChain(k, half)
    PROVE  IInv'
<1> DEFINE S == SentWhole(Chain, k)
           new == Removed(msg, S, {})
           y == Chain[k + 1]
           mgn == IF half THEN CutOff(new, y) ELSE new
<1>2. /\ pc = "send" /\ send_msgq # <<>> /\ k \in Nat /\ k <= Len(Chain)
      /\ IF k = Len(Chain) THEN UNCHANGED nfault ELSE Faulty
      /\ half => k < Len(Chain) /\ ~msg[y].cut
      /\ msg' = mgn
      /\ omsg_q' = [omsg_q EXCEPT ![cur] = Without(@, S)]
      /\ wire' = [wire EXCEPT ![cur] = Written(k, half)]
      /\ pc' = IF k < Len(Chain) THEN "loop" ELSE "send"
      /\ cur' = IF k < Len(Chain) THEN None ELSE cur
      /\ send_msgq' = <<>>
      /\ UNCHANGED <<queue, frag_msgq, gone, nmsg, nlost>>
    BY SendChainIs
<1>4. Flow(mgn, nlost, nmsg, omsg_q', queue, <<>>, <<>>, cur, gone, wire')
    BY <1>2, ChainKeeps
<1> HIDE DEF mgn
<1>6. /\ frag_msgq = <<>> /\ cur \in Client \ gone
      /\ gone \subseteq Client /\ nmsg \in 0..MaxMsg /\ nfault \in 0..MaxFault
    BY <1>2, ChainIs, IInvIs
<1>8. Flow(msg', nlost', nmsg', omsg_q', queue', <<>>, <<>>, cur, gone', wire')
    BY <1>2, <1>4
<1>9. Flow(msg', nlost', nmsg', omsg_q', queue', <<>>, <<>>, cur', gone', wire')
    BY <1>2, <1>6, <1>8, AnyTurn
<1>11. Places(frag_msgq', send_msgq', pc', cur', gone')
    BY <1>2, <1>6 DEF Places
<1>12. nfault' \in 0..MaxFault
    BY <1>2, <1>6, FaultyIs
<1> QED BY <1>2, <1>6, <1>9, <1>11, <1>12, IInvNext

-----------------------------------------------------------------------------
(* The invariant holds at the start.                                       *)
LEMMA InitInv == Init => IInv
<1> SUFFICES ASSUME Init PROVE IInv
    OBVIOUS
<1>1. /\ msg = [m \in Msg |-> NoMsg]
      /\ omsg_q = [c \in Client |-> <<>>]
      /\ queue = [s \in Server |-> <<>>]
      /\ frag_msgq = <<>> /\ send_msgq = <<>>
      /\ pc = "loop" /\ cur = None /\ gone = {} /\ nmsg = 0 /\ nfault = 0
      /\ nlost = [m \in Msg |-> 0]
      /\ wire = [c \in Client |-> <<>>]
    BY DEF Init
<1>2. /\ NoMsg \in MsgRec /\ NoMsg.st = "unread" /\ NoMsg.cut = FALSE
      /\ NoMsg.ferror = FALSE /\ NoMsg = [NoMsg EXCEPT !.st = "unread"]
  <2>1. NoMsg \in MsgRec
      BY FragmentsAssumption DEF NoMsg, MsgRec
  <2>2. NoMsg.st = "unread" /\ NoMsg.cut = FALSE /\ NoMsg.ferror = FALSE
      BY DEF NoMsg
  <2> QED BY <2>1, <2>2 DEF MsgRec
<1>3. \A m \in Msg : /\ msg[m] = NoMsg /\ ~Live(msg, m) /\ msg[m].st = "unread"
                     /\ ~msg[m].cut /\ ~msg[m].ferror /\ nlost[m] = 0
    BY <1>1, <1>2 DEF Live
<1>4. MaxMsg \in Nat /\ MaxParts \in Nat /\ MaxFault \in Nat
    BY FragmentsAssumption
<1>5. /\ ToSet(<<>>) = {} /\ Increasing(<<>>) /\ IsInjective(<<>>)
      /\ <<>> \in Seq(Msg) /\ <<>> \in Seq(Halved) /\ Paired(<<>>) /\ ~Halfway(<<>>)
    BY DEF ToSet, IsInjective, Increasing, Paired, Halfway
<1>6. msg \in [Msg -> MsgRec] /\ nlost \in [Msg -> 0..MaxParts]
    BY <1>1, <1>2, <1>4
<1>7. Tree(msg, nlost, nmsg)
    BY <1>2, <1>3, <1>6 DEF Blank, Flags, Groups, Owners, Counts, Tree
<1>8. OutQueues(msg, omsg_q, frag_msgq, cur, gone)
    BY <1>1, <1>5, <1>3 DEF OutQueues
<1>9. Waits(msg, queue, frag_msgq)
    BY <1>1, <1>5 DEF Waits
<1>10. Sending(msg, omsg_q, send_msgq, cur)
    BY <1>1, <1>5 DEF Sending
<1>11. Errors(msg, send_msgq)
    BY <1>1, <1>3, <1>5 DEF Errors
<1>12. OnWire(msg, omsg_q, wire, gone)
    BY <1>1, <1>5, <1>3 DEF OnWire, Halved
<1>13. Places(frag_msgq, send_msgq, pc, cur, gone)
    BY <1>1 DEF Places
<1>14. TypeOK
    BY <1>8, <1>9, <1>10, <1>12, <1>1, <1>4, <1>6 DEF OutQueues, Waits,
      Sending, OnWire, TypeOK
<1> QED
    BY <1>7, <1>8, <1>9, <1>10, <1>11, <1>12, <1>13, <1>14 DEF IInv

(* The process dies with nothing outstanding (rsp_send_next_empty).        *)
LEMMA EmptyKeeps ==
    ASSUME IInv, rsp_send_next_empty
    PROVE  IInv'
<1>1. /\ pc = "send" /\ omsg_q[cur] = <<>> /\ pc' = "crash" /\ cur' = None
      /\ UNCHANGED <<msg, omsg_q, queue, frag_msgq, send_msgq, gone, nmsg, nfault, nlost,
                     wire>>
    BY DEF rsp_send_next_empty, Crash
<1>3. Len(omsg_q[cur]) = 0 /\ send_msgq \in Seq(Msg)
    BY <1>1, IInvIs
<1>4. send_msgq = <<>>
    BY <1>1, TurnIs, <1>3
<1> QED
    BY <1>1, <1>4, StopKeeps

(* The invariant is kept by every step.                                    *)
LEMMA NextKeeps == IInv /\ [Next]_vars => IInv'
<1> SUFFICES ASSUME IInv, [Next]_vars PROVE IInv'
    OBVIOUS
<1>1. ASSUME NEW c \in Client, ReceivePlain(c) PROVE IInv'
    BY <1>1, PlainKeeps
<1>2. ASSUME NEW c \in Client, NEW p \in 1..MaxParts, ReceiveSplit(c, p) PROVE IInv'
    BY <1>2, SplitKeeps
<1>3. ASSUME NEW c \in Client, client_close(c) PROVE IInv'
    BY <1>3, ClientCloseKeeps
<1>4. ASSUME NEW c \in Client, core_send(c) PROVE IInv'
    BY <1>4, CoreSendKeeps
<1>5. ASSUME NEW s \in Server, req_forward(s) PROVE IInv'
    BY <1>5, ForwardKeeps
<1>6. ASSUME NEW s \in Server, rsp_filter_swallow(s) PROVE IInv'
    BY <1>6, SwallowKeeps
<1>7. ASSUME NEW s \in Server, server_close(s) PROVE IInv'
    BY <1>7, ServerCloseKeeps
<1>8. ASSUME NEW s \in Server, ServerReplies(s) PROVE IInv'
    BY <1>8, IInvIs, ResponseKeeps DEF ServerReplies
<1>9. ASSUME NEW s \in Server, ServerRepliesError(s) PROVE IInv'
    BY <1>9, FaultyIs, ResponseKeeps DEF ServerRepliesError
<1>10. CASE ForwardNowhere
    BY <1>10, NowhereKeeps
<1>11. CASE ForwardUnwritable
    BY <1>11, UnwritableKeeps
<1>12. CASE rsp_send_next
    BY <1>12, SendNextKeeps
<1>13. CASE rsp_send_next_empty
    BY <1>13, EmptyKeeps
<1>14. CASE rsp_send_next_wait
    BY <1>14, StopKeeps DEF rsp_send_next_wait
<1>15. ASSUME NEW k \in 0..MaxMsg, NEW half \in BOOLEAN, SendChain(k, half) PROVE IInv'
    BY <1>15, SendChainKeeps
<1>16. CASE UNCHANGED vars
    BY <1>16, IInvIs, IInvNext DEF vars, IInv, TypeOK
<1> QED
    BY <1>1, <1>2, <1>3, <1>4, <1>5, <1>6, <1>7, <1>8, <1>9, <1>10, <1>11, <1>12, <1>13, <1>14,
       <1>15, <1>16 DEF Next

-----------------------------------------------------------------------------
(* The invariant holds in every state.                                     *)
THEOREM FragmentsInvariant == Spec => []IInv
<1> QED
    BY InitInv, NextKeeps, PTL DEF Spec

(* req_done, req_error and rsp_make_error meet every fragment and its own  *)
(* only, and no walk meets a message that was freed: FragmentTree holds    *)
(* for any clients, servers and bounds.                                    *)
THEOREM FragmentTreeHolds == Spec => []FragmentTree
<1> QED BY Properties, FragmentsInvariant, PTL

(* nfrag_done counts the fragments that are done, but for those lost where *)
(* nothing counts them (pre_coalesce, req_forward): CountsAgree holds for  *)
(* any clients, servers and bounds.                                        *)
THEOREM CountsAgreeHolds == Spec => []CountsAgree
<1> QED BY Properties, FragmentsInvariant, PTL

(* No client sees half of a response twice or others in the middle of one, *)
(* whatever a short write leaves behind (msg_send_chain): ResponsesWhole   *)
(* holds for any clients, servers and bounds.                              *)
THEOREM ResponsesWholeHolds == Spec => []ResponsesWhole
<1> QED BY Properties, FragmentsInvariant, PTL

-----------------------------------------------------------------------------
(***************************************************************************)
(* Proof that Fragments implements Gather, for any clients, servers and    *)
(* bounds.  What a state is to Gather is an operator of values: Entry, of  *)
(* an open request, Heard, of what was written to a client.  The lemmas    *)
(* say what each part of a handler (a fragment is settled, the head of an  *)
(* out_q coalesced, a response cut or made an error, what was sent freed)  *)
(* does to the entries, then what each action is to Gather: Ask, Settle,   *)
(* Lose, Answer, Leave or nothing.  A response is an error if and only if  *)
(* its request failed because of Peers, an invariant next to IInv: which   *)
(* response each message has, empty, a reply or an error.                  *)
(***************************************************************************)

(* Fragments implements Gather.  What a state of Fragments is to Gather,   *)
(* of values: the requests of a queue in order, and what is open of each.  *)
PartsLeft(mg, m) ==
    IF mg[m].frag_owner = None THEN (IF mg[m].done THEN 0 ELSE 1)
    ELSE IF mg[m].fdone THEN 0 ELSE mg[m].nfrag - mg[m].nfrag_done
Failing(mg, m) == \/ mg[m].error \/ mg[m].ferror
               \/ \E n \in PartsOf(mg, m) : mg[n].error
Entry(mg, m) == [req |-> m, left |-> PartsLeft(mg, m), bad |-> Failing(mg, m)]
Entries(mg, r) == [i \in DOMAIN r |-> Entry(mg, r[i])]
Line(oq, fm, cu, c) == oq[c] \o IF cu = c THEN fm ELSE <<>>
Asked(mg, q) == Without(q, {m \in Msg : mg[m].frag_owner \notin {None, m}})
Heads(mg, oq, fm, cu, c) ==
    {m \in ToSet(oq[c]) \cup (IF cu = c THEN ToSet(fm) ELSE {}) :
        mg[m].frag_owner \in {None, m}}

(* The refinement mapping is this, of the variables.                       *)
LEMMA TodoIs ==
    ASSUME NEW c
    PROVE  /\ LET r == Asked(msg, Line(omsg_q, frag_msgq, cur, c))
              IN r \in Seq(Msg) => Todo(c) = Entries(msg, r)
           /\ LET r == Asked(msg', Line(omsg_q', frag_msgq', cur', c))
              IN r \in Seq(Msg) => Todo(c)' = Entries(msg', r)
<1> DEFINE r == Asked(msg, Line(omsg_q, frag_msgq, cur, c))
           s == Asked(msg', Line(omsg_q', frag_msgq', cur', c))
           v == LET q == omsg_q[c] \o IF cur = c THEN frag_msgq ELSE <<>>
                IN Without(q, {m \in Msg : ~IsRequest(m)})
           open == [m \in Msg |-> [req |-> m, left |-> Left(m), bad |-> Bad(m)]]
<1>5. \A m : Bad(m) = Failing(msg, m) /\ Bad(m)' = Failing(msg', m)
    BY DEF Bad, Failing, Parts, PartsOf
<1>6. \A m \in Msg : open[m] = Entry(msg, m) /\ open'[m] = Entry(msg', m)
    BY <1>5 DEF Entry, Left, PartsLeft
<1>7. Todo(c) = [i \in DOMAIN v |-> open[v[i]]] /\ v = r
    BY DEF Todo, Asked, Line, IsRequest
<1>8. Todo(c)' = [i \in DOMAIN v' |-> open'[v'[i]]] /\ v' = s
    BY DEF Todo, Asked, Line, IsRequest
<1> HIDE DEF r, s, v, open
<1>9. ASSUME r \in Seq(Msg) PROVE Todo(c) = Entries(msg, r)
    BY <1>9, <1>6, <1>7 DEF Entries
<1>10. ASSUME s \in Seq(Msg) PROVE Todo(c)' = Entries(msg', s)
    BY <1>10, <1>6, <1>8 DEF Entries
<1> QED BY <1>9, <1>10 DEF r, s

(* Two queues in order of arrival, the first before the second.            *)
LEMMA IncreasingConcat ==
    ASSUME NEW q \in Seq(Msg), NEW r \in Seq(Msg), Increasing(q), Increasing(r),
           \A x \in ToSet(q), y \in ToSet(r) : x < y
    PROVE  /\ q \o r \in Seq(Msg) /\ Increasing(q \o r)
           /\ ToSet(q \o r) = ToSet(q) \cup ToSet(r)
<1>1. /\ Len(q) \in Nat /\ Len(r) \in Nat
      /\ \A i \in 1..Len(q) : q[i] \in ToSet(q)
      /\ \A i \in 1..Len(r) : r[i] \in ToSet(r)
      /\ \A x \in ToSet(q) : \E i \in 1..Len(q) : q[i] = x
      /\ \A x \in ToSet(r) : \E i \in 1..Len(r) : r[i] = x
    BY PlaceOf
<1>2. q \o r \in Seq(Msg) /\ Len(q \o r) = Len(q) + Len(r)
    BY ConcatProperties
<1>3. \A i \in 1..(Len(q) + Len(r)) :
          (q \o r)[i] = IF i <= Len(q) THEN q[i] ELSE r[i - Len(q)]
    BY ConcatProperties
<1> DEFINE w == q \o r
<1> HIDE DEF w
<1>4. Increasing(w)
  <2> SUFFICES ASSUME NEW i \in 1..(Len(q) + Len(r)), NEW j \in 1..(Len(q) + Len(r)), i < j
               PROVE  w[i] < w[j]
      BY <1>2 DEF Increasing, w
  <2>1. /\ w[i] = IF i <= Len(q) THEN q[i] ELSE r[i - Len(q)]
        /\ w[j] = IF j <= Len(q) THEN q[j] ELSE r[j - Len(q)]
      BY <1>3 DEF w
  <2>2. CASE j <= Len(q)
      BY <2>2, <1>1, <2>1 DEF Increasing
  <2>3. CASE i > Len(q)
      BY <2>3, <1>1, <2>1 DEF Increasing
  <2>4. CASE i <= Len(q) /\ j > Len(q)
      BY <2>4, <1>1, <2>1
  <2> QED BY <2>2, <2>3, <2>4, <1>1
<1>5. ToSet(w) = ToSet(q) \cup ToSet(r)
  <2>1. /\ \A x \in ToSet(w) : \E i \in 1..Len(w) : w[i] = x
        /\ \A i \in 1..Len(w) : w[i] \in ToSet(w)
      BY <1>2, PlaceOf DEF w
  <2>2. ASSUME NEW x \in ToSet(w) PROVE x \in ToSet(q) \cup ToSet(r)
    <3>1. PICK i \in 1..(Len(q) + Len(r)) : w[i] = x
        BY <2>1, <1>2 DEF w
    <3>3. ~(i <= Len(q)) => i - Len(q) \in 1..Len(r)
        BY <1>1
    <3> QED BY <3>1, <1>1, <3>3, <1>3 DEF w
  <2>3. ASSUME NEW x \in ToSet(q) PROVE x \in ToSet(w)
    <3>1. PICK i \in 1..Len(q) : q[i] = x
        BY <1>1
    <3> QED BY <3>1, <1>1, <2>1, <1>2, <1>3 DEF w
  <2>4. ASSUME NEW x \in ToSet(r) PROVE x \in ToSet(w)
    <3>1. PICK i \in 1..Len(r) : r[i] = x
        BY <1>1
    <3>2. Len(q) + i \in 1..(Len(q) + Len(r)) /\ ~(Len(q) + i <= Len(q)) /\ (Len(q) + i) - Len(q) = i
        BY <1>1
    <3> QED BY <3>1, <3>2, <1>3, <2>1, <1>2 DEF w
  <2> QED BY <2>2, <2>3, <2>4
<1> QED BY <1>2, <1>4, <1>5 DEF w

(* The open requests of a client are in order of arrival.                  *)
LEMMA AskedIs ==
    ASSUME NEW mg, NEW oq, NEW fm, NEW cu, NEW go, OutQueues(mg, oq, fm, cu, go),
           NEW c \in Client
    PROVE  LET r == Asked(mg, Line(oq, fm, cu, c))
           IN /\ r \in Seq(Msg) /\ Increasing(r)
              /\ ToSet(r) = Heads(mg, oq, fm, cu, c)
              /\ \A m \in Heads(mg, oq, fm, cu, c) :
                    /\ m \in Msg /\ Live(mg, m) /\ mg[m].owner = c /\ ~mg[m].swallow
                    /\ mg[m].frag_owner \in {None, m}
<1> DEFINE g == IF cu = c THEN fm ELSE <<>>
           q == Line(oq, fm, cu, c)
           S == {m \in Msg : mg[m].frag_owner \notin {None, m}}
<1>1. /\ oq[c] \in Seq(Msg) /\ fm \in Seq(Msg) /\ Increasing(oq[c]) /\ Increasing(fm)
      /\ \A m \in ToSet(oq[c]) : Live(mg, m) /\ mg[m].owner = c /\ ~mg[m].swallow
      /\ \A m \in ToSet(fm) : /\ Live(mg, m) /\ mg[m].owner = cu /\ ~mg[m].swallow
                              /\ \A n \in ToSet(oq[cu]) : n < m
    BY DEF OutQueues
<1>2. /\ g \in Seq(Msg) /\ Increasing(g) /\ ToSet(g) = IF cu = c THEN ToSet(fm) ELSE {}
      /\ \A x \in ToSet(oq[c]), y \in ToSet(g) : x < y
  <2>1. CASE cu = c
      BY <2>1, <1>1
  <2>2. CASE cu # c
      BY <2>2 DEF Increasing, ToSet
  <2> QED BY <2>1, <2>2
<1>3. q = oq[c] \o g
    BY DEF Line
<1> HIDE DEF g, q
<1>4. q \in Seq(Msg) /\ Increasing(q) /\ ToSet(q) = ToSet(oq[c]) \cup ToSet(g)
    BY <1>1, <1>2, <1>3, IncreasingConcat
<1>5. ToSet(q) \subseteq Msg
    BY <1>4, PlaceOf
<1>6. Msg \subseteq Int
    BY FragmentsAssumption DEF Msg
<1>7. /\ Without(q, S) \in Seq(Msg) /\ ToSet(Without(q, S)) = ToSet(q) \ S
      /\ Increasing(Without(q, S))
  <2> HIDE DEF S
  <2> QED BY <1>4, <1>6, WithoutFacts
<1>8. ToSet(q) \ S = Heads(mg, oq, fm, cu, c)
    BY <1>2, <1>4, <1>5 DEF Heads
<1>10. ASSUME NEW m \in Heads(mg, oq, fm, cu, c)
       PROVE  /\ m \in Msg /\ Live(mg, m) /\ mg[m].owner = c /\ ~mg[m].swallow
              /\ mg[m].frag_owner \in {None, m}
  <2> QED BY <1>8, <1>1, <1>2, <1>4, <1>5 DEF Heads
<1> QED BY <1>7, <1>8, <1>10 DEF q, Asked

(* Two states, and the open requests of one client in both.                *)
AskedBefore(c) == Asked(msg, Line(omsg_q, frag_msgq, cur, c))
AskedAfter(c) == Asked(msg', Line(omsg_q', frag_msgq', cur', c))
HeadsOf(c) == Heads(msg, omsg_q, frag_msgq, cur, c)
HeadsNext(c) == Heads(msg', omsg_q', frag_msgq', cur', c)

(* What is known of the open requests of a client before and after a step. *)
LEMMA BothAsked ==
    ASSUME IInv, IInv', NEW c \in Client
    PROVE  /\ Todo(c) = Entries(msg, AskedBefore(c)) /\ Todo(c)' = Entries(msg', AskedAfter(c))
           /\ AskedBefore(c) \in Seq(Msg) /\ Increasing(AskedBefore(c)) /\ ToSet(AskedBefore(c)) = HeadsOf(c)
           /\ AskedAfter(c) \in Seq(Msg) /\ Increasing(AskedAfter(c)) /\ ToSet(AskedAfter(c)) = HeadsNext(c)
           /\ \A m \in HeadsOf(c) :
                    /\ m \in Msg /\ Live(msg, m) /\ msg[m].owner = c /\ ~msg[m].swallow
                    /\ msg[m].frag_owner \in {None, m}
           /\ \A m \in HeadsNext(c) :
                    /\ m \in Msg /\ Live(msg', m) /\ msg'[m].owner = c /\ ~msg'[m].swallow
                    /\ msg'[m].frag_owner \in {None, m}
<1>3. LET r == AskedBefore(c)
           IN /\ r \in Seq(Msg) /\ Increasing(r)
              /\ ToSet(r) = HeadsOf(c)
              /\ \A m \in HeadsOf(c) :
                    /\ m \in Msg /\ Live(msg, m) /\ msg[m].owner = c /\ ~msg[m].swallow
                    /\ msg[m].frag_owner \in {None, m}
    BY AskedIs DEF AskedBefore, HeadsOf, IInv
<1>4. LET r == AskedAfter(c)
           IN /\ r \in Seq(Msg) /\ Increasing(r)
              /\ ToSet(r) = HeadsNext(c)
              /\ \A m \in HeadsNext(c) :
                    /\ m \in Msg /\ Live(msg', m) /\ msg'[m].owner = c /\ ~msg'[m].swallow
                    /\ msg'[m].frag_owner \in {None, m}
    BY AskedIs DEF AskedAfter, HeadsNext, IInv
<1> QED BY <1>3, <1>4, TodoIs DEF AskedBefore, AskedAfter

(* The same requests, and nothing new about them.                          *)
LEMMA TodoSame ==
    ASSUME IInv, IInv', NEW c \in Client, HeadsNext(c) = HeadsOf(c),
           \A m \in HeadsOf(c) : Entry(msg', m) = Entry(msg, m)
    PROVE  Todo(c)' = Todo(c)
<1> DEFINE r == AskedBefore(c)
           rn == AskedAfter(c)
<1>1. /\ Todo(c) = Entries(msg, r) /\ Todo(c)' = Entries(msg', rn)
      /\ r \in Seq(Msg) /\ Increasing(r) /\ ToSet(r) = HeadsOf(c)
      /\ rn \in Seq(Msg) /\ Increasing(rn) /\ ToSet(rn) = HeadsNext(c)
    BY BothAsked
<1> HIDE DEF r, rn
<1>4. Entries(msg', r) = Entries(msg, r)
    BY <1>1, PlaceOf DEF Entries
<1> QED BY <1>1, SeqOfInts, IncreasingUnique, <1>4

(* One more request, behind the others.                                    *)
LEMMA TodoAsked ==
    ASSUME IInv, IInv', NEW c \in Client, NEW x \in Msg,
           HeadsNext(c) = HeadsOf(c) \cup {x},
           \A m \in HeadsOf(c) : m < x /\ Entry(msg', m) = Entry(msg, m)
    PROVE  Todo(c)' = Append(Todo(c), Entry(msg', x))
<1> DEFINE r == AskedBefore(c)
           rn == AskedAfter(c)
<1>1. /\ Todo(c) = Entries(msg, r) /\ Todo(c)' = Entries(msg', rn)
      /\ r \in Seq(Msg) /\ Increasing(r) /\ ToSet(r) = HeadsOf(c)
      /\ rn \in Seq(Msg) /\ Increasing(rn) /\ ToSet(rn) = HeadsNext(c)
    BY BothAsked
<1> HIDE DEF r, rn
<1>2. r \in Seq(Int) /\ rn \in Seq(Int) /\ x \in Int
    BY <1>1, SeqOfInts, FragmentsAssumption DEF Msg
<1>3. /\ Append(r, x) \in Seq(Int) /\ Increasing(Append(r, x))
      /\ ToSet(Append(r, x)) = ToSet(r) \cup {x}
      /\ Len(Append(r, x)) = Len(r) + 1
    BY <1>1, <1>2, IncreasingAppend, AppendFacts
<1>4. rn = Append(r, x)
    BY <1>1, <1>2, <1>3, IncreasingUnique
<1>6. /\ Len(r) \in Nat /\ DOMAIN r = 1..Len(r) /\ DOMAIN rn = 1..(Len(r) + 1)
      /\ \A i \in 1..Len(r) : rn[i] = r[i]
      /\ rn[Len(r) + 1] = x
    BY <1>1, <1>4, PlaceOf
<1> DEFINE a == Entries(msg, r)
           b == Entries(msg', rn)
           n == Len(r)
           e == Entry(msg', x)
<1>7. /\ a = [i \in 1..n |-> Entry(msg, r[i])]
      /\ b = [i \in 1..(n + 1) |-> Entry(msg', rn[i])] /\ n \in Nat
    BY <1>6 DEF Entries
<1>8. \A i \in 1..n : Entry(msg', rn[i]) = Entry(msg, r[i])
    BY <1>1, PlaceOf, <1>6
<1>9. Entry(msg', rn[n + 1]) = e
    BY <1>6
<1>10. b = Append(a, e)
  <2> DEFINE f == [i \in 1..n |-> Entry(msg, r[i])]
             g == [i \in 1..(n + 1) |-> Entry(msg', rn[i])]
  <2>1. \A i \in 1..n : f[i] = Entry(msg, r[i])
      OBVIOUS
  <2>2. \A i \in 1..(n + 1) : g[i] = IF i = n + 1 THEN e ELSE f[i]
      BY <1>7, <1>8, <1>9
  <2>3. f \in [1..n -> {Entry(msg, r[i]) : i \in 1..n} \cup {e}]
      OBVIOUS
  <2>4. f = a /\ g = b /\ DOMAIN g = 1..(n + 1) /\ g = [i \in 1..(n + 1) |-> g[i]]
      BY <1>7
  <2> HIDE DEF f, g, a, b, n, e
  <2> DEFINE T == {Entry(msg, r[i]) : i \in 1..n} \cup {e}
  <2>5. f \in [1..n -> T] /\ e \in T
      BY <2>3
  <2> HIDE DEF T
  <2>7. /\ Append(f, e) \in Seq(T) /\ Len(Append(f, e)) = n + 1
        /\ \A i \in 1..n : Append(f, e)[i] = f[i]
        /\ Append(f, e)[n + 1] = e
      BY <2>5, <1>7, AppendProperties
  <2>8. g \in [1..(n + 1) -> T]
    <3>1. \A i \in 1..(n + 1) : g[i] \in T
        BY <1>7, <2>2, <2>5
    <3> QED BY <3>1, <2>4
  <2>10. \A i \in 1..(n + 1) : g[i] = Append(f, e)[i]
      BY <1>7, <2>2, <2>7
  <2>11. g = Append(f, e)
      BY <2>7, <2>8, <1>7, <2>10, SeqEqual
  <2> QED BY <2>4, <2>11
<1> QED BY <1>1, <1>10

(* The same requests, and something new about one.                         *)
LEMMA TodoChanged ==
    ASSUME IInv, IInv', NEW c \in Client, HeadsNext(c) = HeadsOf(c),
           NEW t \in HeadsOf(c),
           \A m \in HeadsOf(c) : m # t => Entry(msg', m) = Entry(msg, m)
    PROVE  \E i \in DOMAIN Todo(c) :
               /\ Todo(c)[i] = Entry(msg, t)
               /\ Todo(c)' = [Todo(c) EXCEPT ![i] = Entry(msg', t)]
<1> DEFINE r == AskedBefore(c)
           rn == AskedAfter(c)
<1>1. /\ Todo(c) = Entries(msg, r) /\ Todo(c)' = Entries(msg', rn)
      /\ r \in Seq(Msg) /\ Increasing(r) /\ ToSet(r) = HeadsOf(c)
      /\ rn \in Seq(Msg) /\ Increasing(rn) /\ ToSet(rn) = HeadsNext(c)
    BY BothAsked
<1> HIDE DEF r, rn
<1>2. rn = r /\ r \in Seq(Int)
    BY <1>1, SeqOfInts, IncreasingUnique
<1>3. \A i \in 1..Len(r) : r[i] \in HeadsOf(c)
    BY <1>1, PlaceOf
<1>4. PICK i \in 1..Len(r) : r[i] = t
    BY <1>1, PlaceOf
<1> DEFINE a == Entries(msg, r)
           b == Entries(msg', r)
<1>7. /\ a = [j \in 1..Len(r) |-> Entry(msg, r[j])]
      /\ b = [j \in 1..Len(r) |-> Entry(msg', r[j])]
    BY <1>1 DEF Entries
<1>8. b = [a EXCEPT ![i] = Entry(msg', t)]
    BY <1>3, <1>4, <1>1, <1>2, OncePlaced, <1>7
<1> QED BY <1>1, <1>2, <1>8, <1>4, <1>7

-----------------------------------------------------------------------------
(* Fragments of a request are still open: it is not all counted.           *)
LEMMA StillOpen ==
    ASSUME NEW mg, NEW nl, NEW k, Tree(mg, nl, k),
           NEW o \in Msg, Live(mg, o), mg[o].frag_owner = o, ~mg[o].fdone,
           NEW m \in PartsOf(mg, o), ~mg[m].done
    PROVE  /\ mg[o].nfrag \in Nat /\ mg[o].nfrag_done \in Nat
           /\ mg[o].nfrag - mg[o].nfrag_done > 0
<1> DEFINE D == {n \in PartsOf(mg, o) : mg[n].done}
<1>1. Cardinality(D) = mg[o].nfrag_done + nl[o]
    BY DEF Tree, Counts
<1>2. mg[o].nfrag_done \in Nat /\ nl[o] \in Nat /\ mg[o].nfrag \in Nat
    BY MessageTypes, FragmentsAssumption DEF Tree
<1>3. D \in SUBSET PartsOf(mg, o) /\ m \in PartsOf(mg, o) \ D
    OBVIOUS
<1>4. Cardinality(D) + 1 <= mg[o].nfrag
  <2> HIDE DEF D
  <2> QED BY <1>3, PartsBound
<1> HIDE DEF D
<1> QED
    BY <1>1, <1>2, <1>4

(* A message that is settled settles, or loses, a part of one request.     *)
LEMMA SettledEntries ==
    ASSUME NEW mg, NEW nl, NEW k, Tree(mg, nl, k),
           NEW m \in Msg, Live(mg, m), ~mg[m].done, ~mg[m].swallow,
           NEW e \in BOOLEAN, NEW p \in {"none", "reply", "empty", "error"},
           NEW counted \in BOOLEAN, NEW t,
           t = IF mg[m].frag_owner = None THEN m ELSE mg[m].frag_owner
    PROVE  LET new == Settled(mg, m, e, p, counted)
           IN /\ t \in Msg /\ Live(mg, t) /\ ~mg[t].swallow /\ mg[t].owner = mg[m].owner
              /\ mg[t].frag_owner \in {None, t} /\ (t # m => mg[t].done)
              /\ PartsLeft(mg, t) > 0
              /\ PartsLeft(new, t) = IF counted \/ t = m THEN PartsLeft(mg, t) - 1 ELSE PartsLeft(mg, t)
              /\ (Failing(new, t) <=> Failing(mg, t) \/ e)
              /\ \A x \in Msg : x # t /\ mg[x].frag_owner \in {None, x} =>
                    Entry(new, x) = Entry(mg, x)
<1> DEFINE o == mg[m].frag_owner
           new == Settled(mg, m, e, p, counted)
<1>1. mg \in [Msg -> MsgRec]
    BY DEF Tree
<1>2. \A x \in Msg :
               /\ new[x].st = mg[x].st /\ new[x].owner = mg[x].owner
               /\ new[x].frag_id = mg[x].frag_id /\ new[x].frag_owner = mg[x].frag_owner
               /\ new[x].nfrag = mg[x].nfrag /\ new[x].fdone = mg[x].fdone
               /\ new[x].ferror = mg[x].ferror /\ new[x].swallow = mg[x].swallow
               /\ new[x].cut = mg[x].cut
               /\ (new[x].done <=> mg[x].done \/ x = m)
               /\ new[x].error = IF x = m THEN e ELSE mg[x].error
               /\ new[x].nfrag_done = IF x # m /\ x = mg[m].frag_owner /\ counted
                                      THEN mg[x].nfrag_done + 1 ELSE mg[x].nfrag_done
    BY <1>1, SettledFields
<1>3. /\ o # m /\ o \in Msg \cup {None} /\ ~mg[m].error /\ m # None
      /\ (mg[m].fdone => mg[m].done)
    BY <1>1, NotOwner, MessageTypes DEF Tree, Flags
<1>4. o # None => /\ o \in Msg /\ Live(mg, o) /\ mg[o].frag_owner = o
                  /\ mg[o].done /\ ~mg[o].swallow
                  /\ mg[o].owner = mg[m].owner /\ ~mg[o].fdone /\ m \in PartsOf(mg, o)
  <2> SUFFICES ASSUME o # None
               PROVE  /\ o \in Msg /\ Live(mg, o) /\ mg[o].frag_owner = o
                      /\ mg[o].done /\ ~mg[o].swallow
                      /\ mg[o].owner = mg[m].owner /\ ~mg[o].fdone /\ m \in PartsOf(mg, o)
      OBVIOUS
  <2> QED BY <1>3, OwnerIs DEF Tree, Owners
<1>5. \A x \in Msg : PartsOf(new, x) = PartsOf(mg, x)
    BY <1>2 DEF PartsOf
<1> HIDE DEF new
<1>6. ASSUME NEW x \in Msg, x # t, mg[x].frag_owner \in {None, x}
      PROVE  Entry(new, x) = Entry(mg, x)
    BY <1>3, <1>6, MessageTypes, <1>1, <1>2, <1>5 DEF o, PartsOf, PartsLeft,
      Failing, Entry
<1>7. CASE o = None
  <2>1. t = m
      BY <1>7
  <2>3. Failing(new, m) <=> Failing(mg, m) \/ e
      BY <1>2, <1>3, <1>5 DEF PartsOf, Failing
  <2>4. PartsLeft(mg, t) > 0 /\ PartsLeft(new, t) = PartsLeft(mg, t) - 1
      BY <2>1, <1>2, <1>7 DEF PartsLeft
  <2> HIDE DEF o
  <2> QED BY <2>1, <2>3, <2>4, <1>6, <1>7 DEF new, o
<1>8. CASE o # None
  <2>1. t = o /\ o \in Msg /\ o # m
      BY <1>4, <1>8
  <2>2. /\ mg[o].nfrag \in Nat /\ mg[o].nfrag_done \in Nat
        /\ mg[o].nfrag - mg[o].nfrag_done > 0
      BY <1>4, <1>8, StillOpen
  <2>3. /\ PartsLeft(mg, o) = mg[o].nfrag - mg[o].nfrag_done
        /\ PartsLeft(new, o) = mg[o].nfrag - (IF counted THEN mg[o].nfrag_done + 1 ELSE mg[o].nfrag_done)
      BY <1>4, <1>8, <2>1, <1>2 DEF PartsLeft
  <2>4. /\ PartsLeft(mg, o) > 0
        /\ PartsLeft(new, o) = IF counted THEN PartsLeft(mg, o) - 1 ELSE PartsLeft(mg, o)
    <3> DEFINE a == mg[o].nfrag
               b == mg[o].nfrag_done
    <3> HIDE DEF a, b
    <3>1. a \in Nat /\ b \in Nat /\ a - b > 0 /\ PartsLeft(mg, o) = a - b
          /\ PartsLeft(new, o) = a - (IF counted THEN b + 1 ELSE b)
        BY <2>2, <2>3 DEF a, b
    <3> QED BY ONLY <3>1
  <2>5. Failing(new, o) <=> Failing(mg, o) \/ e
    <3>2. m \in PartsOf(mg, o)
        BY <1>4, <1>8
    <3>3. \A n \in PartsOf(mg, o) : new[n].error = IF n = m THEN e ELSE mg[n].error
        BY <1>2 DEF PartsOf
    <3>4. new[o].error = mg[o].error /\ new[o].ferror = mg[o].ferror
        BY <2>1, <1>2
    <3>5. PartsOf(new, o) = PartsOf(mg, o)
        BY <2>1, <1>5
    <3> HIDE DEF o
    <3> QED BY <3>2, <3>3, <3>4, <3>5, <1>3 DEF Failing
  <2> HIDE DEF o
  <2> QED BY <2>1, <2>4, <2>5, <1>4, <1>6, <1>8 DEF new
<1> QED
    BY <1>7, <1>8 DEF o

(* Marking the fragments of a request that are all counted changes nothing *)
(* of it.                                                                  *)
LEMMA MarkedEntries ==
    ASSUME NEW mg, NEW nl, NEW k, Tree(mg, nl, k),
           NEW o \in Msg, mg[o].nfrag_done = mg[o].nfrag, NEW e \in BOOLEAN,
           NEW x \in Msg, mg[x].frag_owner \in {None, x}
    PROVE  Entry(Marked(mg, o, e), x) = Entry(mg, x)
<1> DEFINE new == Marked(mg, o, e)
<1>1. mg \in [Msg -> MsgRec]
    BY DEF Tree
<1>2. \A y \in Msg :
                   /\ new[y].st = mg[y].st /\ new[y].owner = mg[y].owner
                   /\ new[y].frag_id = mg[y].frag_id /\ new[y].frag_owner = mg[y].frag_owner
                   /\ new[y].nfrag = mg[y].nfrag /\ new[y].nfrag_done = mg[y].nfrag_done
                   /\ new[y].ferror = mg[y].ferror /\ new[y].done = mg[y].done
                   /\ new[y].error = mg[y].error
                   /\ (new[y].fdone <=> mg[y].fdone \/ mg[y].frag_owner = o)
    BY <1>1, MarkedFields
<1>3. PartsOf(new, x) = PartsOf(mg, x)
    BY <1>2 DEF PartsOf
<1> HIDE DEF new
<1>4. PartsLeft(new, x) = PartsLeft(mg, x)
  <2>1. CASE mg[x].frag_owner = None
      BY <2>1, <1>2 DEF PartsLeft
  <2>2. CASE mg[x].frag_owner # None /\ x # o
      BY <2>2, <1>2 DEF PartsLeft
  <2>3. CASE mg[x].frag_owner # None /\ x = o
      BY <1>1, MessageTypes, <2>3, <1>2 DEF PartsLeft
  <2> QED BY <2>1, <2>2, <2>3
<1>6. Failing(new, x) \in BOOLEAN /\ Failing(mg, x) \in BOOLEAN
    BY DEF Failing
<1> QED BY <1>4, <1>2, <1>3, <1>6 DEF Entry, new, PartsOf, Failing

(* Freeing others changes nothing of a request that still knows of its     *)
(* errors.                                                                 *)
LEMMA RemovedEntries ==
    ASSUME NEW mg, mg \in [Msg -> MsgRec], NEW S, NEW W,
           NEW x \in Msg, x \notin S,
           mg[x].error \/ mg[x].ferror \/ \A n \in PartsOf(mg, x) : n \in S => ~mg[n].error
    PROVE  Entry(Removed(mg, S, W), x) = Entry(mg, x)
<1> DEFINE new == Removed(mg, S, W)
<1>1. /\ \A y \in Msg : y \in S =>
                    /\ ~Live(new, y) /\ new[y] = [NoMsg EXCEPT !.st = new[y].st]
                    /\ new[y].frag_owner = None /\ ~new[y].done /\ ~new[y].ferror
                    /\ ~new[y].cut /\ new[y].st = "freed"
      /\ \A y \in Msg : y \notin S =>
                    /\ new[y].st = mg[y].st /\ new[y].owner = mg[y].owner
                    /\ new[y].frag_id = mg[y].frag_id /\ new[y].frag_owner = mg[y].frag_owner
                    /\ new[y].nfrag = mg[y].nfrag /\ new[y].nfrag_done = mg[y].nfrag_done
                    /\ new[y].done = mg[y].done /\ new[y].error = mg[y].error
                    /\ new[y].fdone = mg[y].fdone /\ new[y].ferror = mg[y].ferror
                    /\ (new[y].swallow <=> mg[y].swallow \/ y \in W)
                    /\ new[y].peer = mg[y].peer /\ new[y].cut = mg[y].cut
    BY RemovedFields
<1>2. x # None
    BY MessageTypes
<1>3. PartsOf(new, x) = PartsOf(mg, x) \ S
    BY <1>1, <1>2 DEF PartsOf
<1> HIDE DEF new
<1>5. Failing(new, x) <=> Failing(mg, x)
    BY <1>1, <1>3 DEF PartsOf, Failing
<1>6. Failing(new, x) \in BOOLEAN /\ Failing(mg, x) \in BOOLEAN
    BY DEF Failing
<1> QED BY <1>1, <1>5, <1>6 DEF Entry, new, PartsLeft

(* A response that is cut, and one that is made an error.                  *)
LEMMA CutEntries ==
    ASSUME NEW mg, mg \in [Msg -> MsgRec], NEW m \in Msg, NEW x \in Msg
    PROVE  Entry(CutOff(mg, m), x) = Entry(mg, x)
<1> DEFINE new == CutOff(mg, m)
<1>1. \A y \in Msg : /\ new[y].frag_owner = mg[y].frag_owner
                     /\ new[y].nfrag = mg[y].nfrag /\ new[y].nfrag_done = mg[y].nfrag_done
                     /\ new[y].done = mg[y].done /\ new[y].error = mg[y].error
                     /\ new[y].fdone = mg[y].fdone /\ new[y].ferror = mg[y].ferror
  <2> SUFFICES ASSUME NEW y \in Msg
               PROVE  /\ new[y].frag_owner = mg[y].frag_owner
                     /\ new[y].nfrag = mg[y].nfrag /\ new[y].nfrag_done = mg[y].nfrag_done
                     /\ new[y].done = mg[y].done /\ new[y].error = mg[y].error
                     /\ new[y].fdone = mg[y].fdone /\ new[y].ferror = mg[y].ferror
      OBVIOUS
  <2>2. new[y] = IF y = m THEN [mg[y] EXCEPT !.cut = TRUE] ELSE mg[y]
      BY DEF CutOff
  <2> QED BY <2>2 DEF MsgRec
<1> HIDE DEF new
<1>4. Failing(new, x) = Failing(mg, x)
    BY <1>1 DEF Failing, PartsOf
<1> QED BY <1>1, <1>4 DEF Entry, new, PartsLeft

(* A call of req_done shows a client nothing new of its requests: when it  *)
(* marks a request, all of its fragments are counted.                      *)
LEMMA CoalescedEntries ==
    ASSUME NEW mg, NEW nl, NEW k, Tree(mg, nl, k),
           NEW oq, NEW fm, NEW cu, NEW go, OutQueues(mg, oq, fm, cu, go),
           NEW c \in Client, NEW i \in DOMAIN oq[c], i = 1 \/ fm = <<>>,
           \A j \in 1..(i - 1) : mg[oq[c][j]].frag_id # None => mg[oq[c][j]].fdone
    PROVE  \A x \in Msg : mg[x].frag_owner \in {None, x} =>
               Entry(Coalesced(mg, oq[c], i), x) = Entry(mg, x)
<1> DEFINE q == oq[c]
           m == q[i]
           o == mg[m].frag_owner
           new == Coalesced(mg, q, i)
           A == /\ new = mg
                /\ req_done(mg, q, i) => mg[m].done /\ (mg[m].frag_id # None => mg[m].fdone)
           B == /\ o \in Msg /\ Live(mg, o) /\ mg[o].frag_owner = o /\ ~mg[o].fdone
                /\ mg[o].frag_id = o
                /\ mg[m].done /\ m \in Msg
                /\ \A n \in PartsOf(mg, o) : mg[n].done
                /\ \E e \in BOOLEAN : /\ new = Marked(mg, o, e)
                                      /\ e <=> \A n \in PartsOf(mg, o) : ~mg[n].error
<1>2. CASE A
    BY <1>2
<1>3. CASE B
  <2>0. B
      BY <1>3
  <2>1. /\ o \in Msg /\ Live(mg, o) /\ mg[o].frag_owner = o /\ ~mg[o].fdone
        /\ m \in Msg
    <3> HIDE DEF o, m, q, new
    <3> QED BY <2>0
  <2>2. PICK e \in BOOLEAN : new = Marked(mg, o, e)
    <3> HIDE DEF o, m, q, new
    <3> QED BY <2>0
  <2> HIDE DEF A, B
  <2>3. mg \in [Msg -> MsgRec] /\ \A y \in Msg : y \in Int /\ y # None
      BY FragmentsAssumption DEF Tree, Msg, None
  <2>4. q \in Seq(Msg) /\ Increasing(q) /\ i \in 1..Len(q) /\ Len(q) \in Nat
        /\ m \in ToSet(q) /\ \A y \in ToSet(q) : \E j \in 1..Len(q) : q[j] = y
      BY PlaceOf DEF OutQueues
  <2>5. Live(mg, m) /\ mg[m].owner = c
      BY <2>4 DEF OutQueues
  <2>6. o <= m /\ o \in ToSet(q)
    <3>2. o <= m /\ mg[o].owner = c /\ mg[o].done /\ ~mg[o].swallow
        BY <2>1, <2>5, <2>3, OwnerIs
    <3>3. o \in ToSet(oq[mg[o].owner])
      <4> HIDE DEF o, m, q, new
      <4> QED BY <2>1, <3>2, WhereItIs
    <3> QED BY <3>2, <3>3
  <2> HIDE DEF q, new
  <2>7. o = m
    <3> SUFFICES ASSUME o # m PROVE FALSE
        OBVIOUS
    <3>1. PICK j \in 1..Len(q) : q[j] = o
      <4> HIDE DEF o
      <4> QED BY <2>4, <2>6
    <3>2. ~(i < j) /\ i # j
      <4> HIDE DEF o
      <4> QED BY <3>1, <2>1, <2>3, <2>4, <2>6 DEF Increasing
    <3>4. mg[o].frag_id = o
        BY <2>0 DEF B
    <3>5. mg[q[j]].frag_id # None => mg[q[j]].fdone
        BY <3>2, <2>4 DEF q
    <3> HIDE DEF o, m
    <3> QED BY <3>1, <3>4, <3>5, <2>1, <2>3
  <2>8. mg[m].nfrag_done >= mg[m].nfrag
    <3>1. new # mg
      <4>1. new[o].fdone
        <5>1. Marked(mg, o, e)[o].fdone <=> mg[o].fdone \/ mg[o].frag_owner = o
          <6> HIDE DEF o
          <6> QED BY <2>1, <2>3, MarkedFields
        <5> QED BY <5>1, <2>1, <2>2
      <4> QED BY <4>1, <2>1
    <3> QED BY <3>1, <2>1, <2>7 DEF req_done, Coalesced, new
  <2>9. mg[o].nfrag_done = mg[o].nfrag
    <3> HIDE DEF o, m
    <3> DEFINE D == {n \in PartsOf(mg, o) : mg[n].done}
    <3>1. Cardinality(D) = mg[o].nfrag_done + nl[o]
        BY <2>1 DEF Tree, Counts
    <3>2. mg[o].nfrag_done \in Nat /\ nl[o] \in Nat /\ mg[o].nfrag \in Nat
        BY <2>1, MessageTypes, FragmentsAssumption DEF Tree
    <3>3. D \in SUBSET PartsOf(mg, o)
        OBVIOUS
    <3> HIDE DEF D
    <3> QED BY <3>1, <3>2, <2>1, <3>3, PartsBound, <2>7, <2>8
  <2>10. \A x \in Msg : mg[x].frag_owner \in {None, x} => Entry(new, x) = Entry(mg, x)
    <3> HIDE DEF o
    <3> QED BY <2>1, <2>2, <2>9, MarkedEntries
  <2> QED BY <2>10 DEF new, q
<1> QED BY CoalescedIs, <1>2, <1>3

-----------------------------------------------------------------------------
(* What peer tells: a request has an error only when it or a fragment of   *)
(* it failed, and a fragment has given its response to its request, if     *)
(* there was no error.                                                     *)
Peer(mg, m) ==
    LET r == mg[m]
        o == mg[m].frag_owner
    IN IF o \in {None, m}
       THEN r.peer # "empty" /\ (r.peer = "error" => r.error \/ r.ferror)
       ELSE /\ r.done /\ ~r.error /\ ~r.fdone => r.peer = "reply"
            /\ r.fdone => \/ r.peer = "empty"
                          \/ Live(mg, o) /\ \E n \in PartsOf(mg, o) : mg[n].error
Peers(mg) == \A m \in Msg : Live(mg, m) => Peer(mg, m)

(* Settling a message keeps that.                                          *)
LEMMA SettledPeers ==
    ASSUME NEW mg, NEW nl, NEW k, Tree(mg, nl, k), Peers(mg),
           NEW m \in Msg, Live(mg, m), ~mg[m].done,
           NEW e \in BOOLEAN, NEW p, p \in {"reply", mg[m].peer}, e \/ p = "reply",
           NEW counted \in BOOLEAN
    PROVE  Peers(Settled(mg, m, e, p, counted))
<1> DEFINE new == Settled(mg, m, e, p, counted)
<1>1. mg \in [Msg -> MsgRec] /\ p \in {"none", "reply", "empty", "error"}
  <2> QED BY MessageTypes DEF Tree
<1>2. \A x \in Msg :
               /\ new[x].st = mg[x].st
               /\ new[x].frag_owner = mg[x].frag_owner
               /\ new[x].fdone = mg[x].fdone /\ new[x].ferror = mg[x].ferror
               /\ (new[x].done <=> mg[x].done \/ x = m)
               /\ new[x].error = IF x = m THEN e ELSE mg[x].error
               /\ new[x].peer = IF x = m THEN p ELSE mg[x].peer
    BY <1>1, SettledFields
<1>3. \A x : PartsOf(new, x) = PartsOf(mg, x)
    BY <1>2 DEF PartsOf
<1>4. \A x \in Msg : Live(new, x) <=> Live(mg, x)
    BY <1>2 DEF Live
<1>5. ~mg[m].error /\ ~mg[m].fdone /\ ~mg[m].ferror
    BY DEF Tree, Flags
<1> HIDE DEF new
<1>6. ASSUME NEW x \in Msg, Live(new, x) PROVE Peer(new, x)
  <2> DEFINE o == mg[x].frag_owner
  <2>1. Peer(mg, x)
      BY <1>4, <1>6 DEF Peers
  <2>2. CASE o \in {None, x}
      BY <2>1, <2>2, <1>5, <1>2 DEF Peer
  <2>3. CASE o \notin {None, x}
    <3>1. /\ mg[x].done /\ ~mg[x].error /\ ~mg[x].fdone => mg[x].peer = "reply"
          /\ mg[x].fdone => \/ mg[x].peer = "empty"
                            \/ Live(mg, o) /\ \E n \in PartsOf(mg, o) : mg[n].error
        BY <2>1, <2>3 DEF Peer
    <3>2. new[x].done /\ ~new[x].error /\ ~new[x].fdone => new[x].peer = "reply"
        BY <3>1, <1>2
    <3>3. ASSUME new[x].fdone
          PROVE  \/ new[x].peer = "empty"
                 \/ Live(new, o) /\ \E n \in PartsOf(new, o) : new[n].error
      <4>1. mg[x].fdone /\ x # m
          BY <3>3, <1>2, <1>5
      <4>2. CASE mg[x].peer = "empty"
          BY <4>1, <4>2, <1>2
      <4>3. CASE Live(mg, o) /\ \E n \in PartsOf(mg, o) : mg[n].error
        <5>1. PICK n \in PartsOf(mg, o) : mg[n].error
            BY <4>3
        <5>4. n \in PartsOf(new, o) /\ new[n].error
            BY <5>1, <1>5, <1>2, <1>3 DEF PartsOf
        <5>5. Live(new, o)
            BY <4>3, <1>1, <2>3, MessageTypes, <1>4
        <5> QED BY <5>4, <5>5
      <4> QED BY <4>1, <4>2, <4>3, <3>1
    <3>4. new[x].frag_owner = o
        BY <1>2
    <3> HIDE DEF o
    <3> QED BY <2>3, <3>2, <3>3, <3>4 DEF Peer
  <2> QED BY <2>2, <2>3
<1> QED
    BY <1>6 DEF Peers, new

(* So does marking a request.                                              *)
LEMMA MarkedPeers ==
    ASSUME NEW mg, NEW nl, NEW k, Tree(mg, nl, k), Peers(mg),
           NEW o \in Msg, Live(mg, o), mg[o].frag_owner = o, ~mg[o].fdone,
           \A n \in PartsOf(mg, o) : mg[n].done,
           NEW e \in BOOLEAN, e <=> \A n \in PartsOf(mg, o) : ~mg[n].error
    PROVE  Peers(Marked(mg, o, e))
<1> DEFINE new == Marked(mg, o, e)
<1>1. mg \in [Msg -> MsgRec]
    BY DEF Tree
<1>2. \A x \in Msg :
         /\ new[x].st = mg[x].st /\ new[x].frag_owner = mg[x].frag_owner
         /\ new[x].ferror = mg[x].ferror /\ new[x].done = mg[x].done
         /\ new[x].error = mg[x].error
         /\ (new[x].fdone <=> mg[x].fdone \/ mg[x].frag_owner = o)
         /\ new[x].peer = IF mg[x].frag_owner = o /\ e /\ x # o /\ mg[x].peer = "reply"
                          THEN "empty" ELSE mg[x].peer
    BY <1>1, MarkedFields
<1>3. \A x : PartsOf(new, x) = PartsOf(mg, x)
    BY <1>2 DEF PartsOf
<1>4. \A x \in Msg : Live(new, x) <=> Live(mg, x)
    BY <1>2 DEF Live
<1>5. \A y \in Msg : y # None
    BY FragmentsAssumption DEF Msg, None
<1> HIDE DEF new
<1>6. ASSUME NEW x \in Msg, Live(new, x) PROVE Peer(new, x)
  <2> DEFINE w == mg[x].frag_owner
  <2>1. Peer(mg, x) /\ Live(mg, x)
      BY <1>4, <1>6 DEF Peers
  <2>2. CASE w \in {None, x}
      BY <2>1, <2>2, <1>2, <1>5 DEF Peer
  <2>3. CASE w \notin {None, x}
    <3>0. w \in Msg /\ new[x].frag_owner = w
        BY <1>1, <1>2, <2>3, MessageTypes
    <3>1. /\ mg[x].done /\ ~mg[x].error /\ ~mg[x].fdone => mg[x].peer = "reply"
          /\ mg[x].fdone => \/ mg[x].peer = "empty"
                            \/ Live(mg, w) /\ \E n \in PartsOf(mg, w) : mg[n].error
        BY <2>1, <2>3 DEF Peer
    <3>2. CASE w # o
      <4>1. new[x].peer = mg[x].peer /\ (new[x].fdone <=> mg[x].fdone)
          BY <3>2, <1>2
      <4>2. Live(new, w) <=> Live(mg, w)
          BY <3>0, <1>4
      <4>3. (\E n \in PartsOf(mg, w) : mg[n].error) => \E n \in PartsOf(new, w) : new[n].error
          BY <1>2, <1>3 DEF PartsOf
      <4> HIDE DEF w
      <4> QED BY <2>3, <3>0, <3>1, <4>1, <4>2, <4>3, <1>2 DEF Peer
    <3>3. CASE w = o
      <4>1. x \in PartsOf(mg, o) /\ new[x].fdone
          BY <2>3, <3>3, <1>2 DEF PartsOf
      <4>2. mg[x].done /\ ~mg[x].fdone
          BY <4>1, PartsAre
      <4>3. CASE e
        <5>2. new[x].peer = "empty"
            BY <2>3, <3>1, <3>3, <4>2, <4>3, <4>1, <1>2
        <5> HIDE DEF w
        <5> QED BY <2>3, <3>0, <4>1, <5>2 DEF Peer
      <4>4. CASE ~e
        <5>1. PICK n \in PartsOf(mg, o) : mg[n].error
            BY <4>4
        <5>2. n \in PartsOf(new, o) /\ new[n].error /\ Live(new, o)
            BY <5>1, <1>2, <1>3, <1>4 DEF PartsOf
        <5> HIDE DEF w
        <5> QED BY <2>3, <3>0, <3>3, <4>1, <5>2 DEF Peer
      <4> QED BY <4>3, <4>4
    <3> QED BY <3>2, <3>3
  <2> QED BY <2>2, <2>3
<1> QED
    BY <1>6 DEF Peers, new

(* So does a call of req_done on the i-th message of an out_q.             *)
LEMMA CoalescedPeers ==
    ASSUME NEW mg, NEW nl, NEW k, Tree(mg, nl, k), Peers(mg),
           NEW oq, NEW fm, NEW cu, NEW go, OutQueues(mg, oq, fm, cu, go),
           NEW c \in Client, NEW i \in DOMAIN oq[c], i = 1 \/ fm = <<>>
    PROVE  Peers(Coalesced(mg, oq[c], i))
<1> DEFINE q == oq[c]
           m == q[i]
           o == mg[m].frag_owner
           new == Coalesced(mg, q, i)
           A == /\ new = mg
                /\ req_done(mg, q, i) => mg[m].done /\ (mg[m].frag_id # None => mg[m].fdone)
           B == /\ o \in Msg /\ Live(mg, o) /\ mg[o].frag_owner = o /\ ~mg[o].fdone
                /\ mg[o].frag_id = o
                /\ mg[m].done /\ m \in Msg
                /\ \A n \in PartsOf(mg, o) : mg[n].done
                /\ \E e \in BOOLEAN : /\ new = Marked(mg, o, e)
                                      /\ e <=> \A n \in PartsOf(mg, o) : ~mg[n].error
<1>2. CASE A
    BY <1>2
<1>3. CASE B
  <2>0. B
      BY <1>3
  <2> HIDE DEF o, m, q, new
  <2>2. PICK e \in BOOLEAN : /\ new = Marked(mg, o, e)
                             /\ e <=> \A n \in PartsOf(mg, o) : ~mg[n].error
      BY <2>0
  <2>3. Peers(Marked(mg, o, e))
      BY <2>0, <2>2, MarkedPeers
  <2> QED BY <2>2, <2>3 DEF new, q
<1> QED BY CoalescedIs, <1>2, <1>3

(* Freeing messages keeps it, as long as the fragments left behind have    *)
(* given their responses.                                                  *)
LEMMA RemovedPeers ==
    ASSUME NEW mg, mg \in [Msg -> MsgRec], Peers(mg), NEW S, NEW W,
           \A x \in Msg : LET o == mg[x].frag_owner IN
               /\ x \notin S /\ Live(mg, x) /\ mg[x].fdone /\ o \notin {None, x}
               /\ o \in S \/ \E n \in PartsOf(mg, o) : n \in S /\ mg[n].error
               => mg[x].peer = "empty"
    PROVE  Peers(Removed(mg, S, W))
<1> DEFINE new == Removed(mg, S, W)
<1>1. /\ \A y \in Msg : y \in S =>
                    /\ ~Live(new, y) /\ new[y] = [NoMsg EXCEPT !.st = new[y].st]
                    /\ new[y].frag_owner = None /\ ~new[y].done /\ ~new[y].ferror
                    /\ ~new[y].cut /\ new[y].st = "freed"
      /\ \A y \in Msg : y \notin S =>
                    /\ new[y].st = mg[y].st /\ new[y].owner = mg[y].owner
                    /\ new[y].frag_id = mg[y].frag_id /\ new[y].frag_owner = mg[y].frag_owner
                    /\ new[y].nfrag = mg[y].nfrag /\ new[y].nfrag_done = mg[y].nfrag_done
                    /\ new[y].done = mg[y].done /\ new[y].error = mg[y].error
                    /\ new[y].fdone = mg[y].fdone /\ new[y].ferror = mg[y].ferror
                    /\ (new[y].swallow <=> mg[y].swallow \/ y \in W)
                    /\ new[y].peer = mg[y].peer /\ new[y].cut = mg[y].cut
    BY RemovedFields
<1> HIDE DEF new
<1>2. ASSUME NEW x \in Msg, Live(new, x) PROVE Peer(new, x)
  <2> DEFINE o == mg[x].frag_owner
  <2>1. /\ x \notin S /\ Live(mg, x) /\ Peer(mg, x) /\ new[x].frag_owner = o
        /\ new[x].done = mg[x].done /\ new[x].error = mg[x].error
        /\ new[x].fdone = mg[x].fdone /\ new[x].ferror = mg[x].ferror
        /\ new[x].peer = mg[x].peer
    <3>1. x \notin S
        BY <1>1, <1>2
    <3>2. /\ new[x].st = mg[x].st /\ new[x].frag_owner = o
          /\ new[x].done = mg[x].done /\ new[x].error = mg[x].error
          /\ new[x].fdone = mg[x].fdone /\ new[x].ferror = mg[x].ferror
          /\ new[x].peer = mg[x].peer
        BY <3>1, <1>1
    <3>3. Live(mg, x)
        BY <3>2, <1>2 DEF Live
    <3> QED BY <3>1, <3>2, <3>3 DEF Peers
  <2>2. CASE o \in {None, x}
      BY <2>1, <2>2 DEF Peer
  <2>3. CASE o \notin {None, x}
    <3>1. /\ mg[x].done /\ ~mg[x].error /\ ~mg[x].fdone => mg[x].peer = "reply"
          /\ mg[x].fdone => \/ mg[x].peer = "empty"
                            \/ Live(mg, o) /\ \E n \in PartsOf(mg, o) : mg[n].error
        BY <2>1, <2>3 DEF Peer
    <3>2. o \in Msg
        BY <2>3, MessageTypes
    <3>3. ASSUME mg[x].fdone, mg[x].peer # "empty"
          PROVE  Live(new, o) /\ \E n \in PartsOf(new, o) : new[n].error
      <4>1. o \notin S /\ \A n \in PartsOf(mg, o) : n \in S => ~mg[n].error
          BY <2>1, <2>3, <3>3
      <4>2. PICK n \in PartsOf(mg, o) : mg[n].error
          BY <3>1, <3>3
      <4>4. Live(new, o)
          BY <3>1, <3>2, <3>3, <4>1, <1>1 DEF Live
      <4> QED BY <4>1, <4>2, <1>1, <4>4 DEF PartsOf
    <3> HIDE DEF o
    <3> QED BY <2>1, <2>3, <3>1, <3>3 DEF Peer
  <2> QED BY <2>2, <2>3
<1> QED
    BY <1>2 DEF Peers, new

(* So does making a response an error, of a request that failed.           *)
LEMMA ErroredPeers ==
    ASSUME NEW mg, mg \in [Msg -> MsgRec], Peers(mg), NEW m \in Msg,
           mg[m].frag_owner \in {None, m}, mg[m].frag_id = None => mg[m].error
    PROVE  Peers(Errored(mg, m))
<1> DEFINE new == Errored(mg, m)
<1>1. \A y \in Msg : /\ new[y].st = mg[y].st
                     /\ new[y].frag_owner = mg[y].frag_owner
                     /\ new[y].done = mg[y].done /\ new[y].error = mg[y].error
                     /\ new[y].fdone = mg[y].fdone
                     /\ (new[y].ferror <=> mg[y].ferror \/ (y = m /\ mg[y].frag_id # None))
                     /\ new[y].peer = IF y = m THEN "error" ELSE mg[y].peer
    BY ErroredFields
<1>2. \A x : PartsOf(new, x) = PartsOf(mg, x)
    BY <1>1 DEF PartsOf
<1>3. \A x \in Msg : Live(new, x) <=> Live(mg, x)
    BY <1>1 DEF Live
<1> HIDE DEF new
<1>4. ASSUME NEW x \in Msg, Live(new, x) PROVE Peer(new, x)
  <2> DEFINE o == mg[x].frag_owner
  <2>1. Peer(mg, x)
      BY <1>3, <1>4 DEF Peers
  <2>2. CASE x = m
      BY <2>2, <1>1 DEF Peer
  <2>3. CASE x # m /\ o \in {None, x}
      BY <2>1, <2>3, <1>1 DEF Peer
  <2>4. CASE x # m /\ o \notin {None, x}
    <3>3. Live(new, o) <=> Live(mg, o)
        BY <2>4, MessageTypes, <1>3
    <3>4. new[x].frag_owner = o
        BY <1>1
    <3>5. /\ mg[x].done /\ ~mg[x].error /\ ~mg[x].fdone => mg[x].peer = "reply"
          /\ mg[x].fdone => \/ mg[x].peer = "empty"
                            \/ Live(mg, o) /\ \E n \in PartsOf(mg, o) : mg[n].error
        BY <2>1, <2>4 DEF Peer
    <3>6. (\E n \in PartsOf(mg, o) : mg[n].error) => \E n \in PartsOf(new, o) : new[n].error
        BY <1>1, <1>2 DEF PartsOf
    <3> HIDE DEF o
    <3> QED BY <2>4, <3>3, <3>4, <3>5, <3>6, <1>1 DEF Peer
  <2> QED BY <2>2, <2>3, <2>4
<1> QED
    BY <1>4 DEF Peers, new

(* So does cutting one.                                                    *)
LEMMA CutPeers ==
    ASSUME NEW mg, mg \in [Msg -> MsgRec], Peers(mg), NEW m \in Msg
    PROVE  Peers(CutOff(mg, m))
<1> DEFINE new == CutOff(mg, m)
<1>1. ASSUME NEW y \in Msg
      PROVE  /\ new[y].st = mg[y].st
             /\ new[y].frag_owner = mg[y].frag_owner
             /\ new[y].done = mg[y].done /\ new[y].error = mg[y].error
             /\ new[y].fdone = mg[y].fdone /\ new[y].ferror = mg[y].ferror
             /\ new[y].peer = mg[y].peer
    BY DEF CutOff, MsgRec
<1> HIDE DEF new
<1>2. \A x : PartsOf(new, x) = PartsOf(mg, x)
    BY <1>1 DEF PartsOf
<1>3. \A x \in Msg : Live(new, x) <=> Live(mg, x)
    BY <1>1 DEF Live
<1>4. ASSUME NEW x \in Msg, Live(new, x) PROVE Peer(new, x)
  <2> DEFINE o == mg[x].frag_owner
  <2>1. Peer(mg, x)
      BY <1>3, <1>4 DEF Peers
  <2>3. CASE o \in {None, x}
      BY <2>1, <2>3, <1>1 DEF Peer
  <2>4. CASE o \notin {None, x}
    <3>3. Live(new, o) <=> Live(mg, o)
        BY <2>4, MessageTypes, <1>3
    <3>4. new[x].frag_owner = o
        BY <1>1
    <3>5. /\ mg[x].done /\ ~mg[x].error /\ ~mg[x].fdone => mg[x].peer = "reply"
          /\ mg[x].fdone => \/ mg[x].peer = "empty"
                            \/ Live(mg, o) /\ \E n \in PartsOf(mg, o) : mg[n].error
        BY <2>1, <2>4 DEF Peer
    <3>6. (\E n \in PartsOf(mg, o) : mg[n].error) => \E n \in PartsOf(new, o) : new[n].error
        BY <1>1, <1>2 DEF PartsOf
    <3> HIDE DEF o
    <3> QED BY <2>4, <3>3, <3>4, <3>5, <3>6, <1>1 DEF Peer
  <2> QED BY <2>3, <2>4
<1> QED
    BY <1>4 DEF Peers, new

(* What arrives is one request more, and nothing about the others.         *)
LEMMA ArrivedEntries ==
    ASSUME NEW mg, NEW nl, NEW k \in Nat, Tree(mg, nl, k), Peers(mg),
           NEW new, NEW p \in Nat, NEW split \in BOOLEAN, NEW c,
           Arrived(mg, new, k, p, split, c), split \/ p = 0, k + 1 + p <= MaxMsg,
           \A x \in (k + 1)..(k + 1 + p) : new[x].peer \in {"none", "reply"}
    PROVE  /\ Peers(new)
           /\ \A x \in Msg : Live(mg, x) => Entry(new, x) = Entry(mg, x) /\ x < k + 1
           /\ Entry(new, k + 1) = [req |-> k + 1, left |-> IF split THEN p ELSE 1, bad |-> FALSE]
<1> DEFINE A == (k + 1)..(k + 1 + p)
           t == k + 1
<1>1. /\ new \in [Msg -> MsgRec] /\ mg \in [Msg -> MsgRec]
      /\ \A x \in Msg : x \notin A => new[x] = mg[x]
      /\ \A x \in Msg : x \in A =>
          /\ new[x].st = "live" /\ new[x].owner = c
          /\ new[x].frag_owner = (IF split THEN t ELSE None)
          /\ x = t /\ split => new[x].nfrag = p
          /\ new[x].nfrag_done = 0
          /\ (new[x].done <=> split /\ x = t)
          /\ ~new[x].error /\ ~new[x].fdone /\ ~new[x].ferror
    BY DEF Arrived, Tree
<1>2. /\ t \in Msg /\ t \in A /\ t # None
      /\ \A x \in Msg : x \in Int /\ x # None
      /\ \A x \in A : x \in Msg /\ x >= t
      /\ \A x \in Msg : x <= k => x \notin A /\ x < t
    BY FragmentsAssumption DEF Msg, None
<1>3. \A x \in Msg : Live(mg, x) => x <= k /\ x \notin A /\ x < t
  <2>1. \A x \in Msg : Live(mg, x) => ~(x > k)
      BY DEF Tree, Blank, Live
  <2> HIDE DEF A, t
  <2> QED BY <2>1, <1>2
<1>4. \A x \in Msg : mg[x].frag_owner # None =>
          /\ Live(mg, x) /\ mg[x].frag_owner <= x /\ mg[x].frag_owner \in Msg
  <2> SUFFICES ASSUME NEW x \in Msg, mg[x].frag_owner # None
               PROVE  Live(mg, x) /\ mg[x].frag_owner <= x /\ mg[x].frag_owner \in Msg
      OBVIOUS
  <2> QED BY BlankMessage, <1>1, MessageTypes DEF Tree, Groups
<1>5. \A x \in Msg : x <= k => PartsOf(new, x) = PartsOf(mg, x)
  <2> SUFFICES ASSUME NEW x \in Msg, x <= k PROVE PartsOf(new, x) = PartsOf(mg, x)
      OBVIOUS
  <2>1. x # t /\ x # None
      BY <1>2
  <2>2. ASSUME NEW n \in Msg PROVE new[n].frag_owner = x <=> mg[n].frag_owner = x
      BY <2>1, <1>1, <1>3, <1>4
  <2> QED BY <2>2 DEF PartsOf
<1> HIDE DEF A, t
<1>6. ASSUME NEW x \in Msg, Live(mg, x) PROVE Entry(new, x) = Entry(mg, x)
  <2>1. x <= k /\ new[x] = mg[x]
      BY <1>1, <1>3, <1>6
  <2>3. \A n \in PartsOf(mg, x) : new[n] = mg[n]
    <3> SUFFICES ASSUME NEW n \in PartsOf(mg, x) PROVE new[n] = mg[n]
        OBVIOUS
    <3> QED BY <1>2, <1>1, <1>3, <1>4 DEF PartsOf
  <2>4. Failing(new, x) <=> Failing(mg, x)
      BY <2>1, <1>5, <2>3 DEF Failing
  <2>6. PartsLeft(new, x) = PartsLeft(mg, x)
      BY <2>1 DEF PartsLeft
  <2> QED BY <2>4, <2>6 DEF Entry, Failing
<1>7. Entry(new, t) = [req |-> t, left |-> IF split THEN p ELSE 1, bad |-> FALSE]
  <2>1. ASSUME NEW n \in PartsOf(new, t) PROVE ~new[n].error
    <3>1. n \in Msg /\ new[n].frag_owner = t
        BY DEF PartsOf
    <3>2. n \in A
      <4> SUFFICES ASSUME n \notin A PROVE FALSE
          OBVIOUS
      <4>2. t <= n /\ n < t
          BY <3>1, <1>1, <1>2, <1>3, <1>4
      <4> QED BY <4>2, <3>1, <1>2
    <3> QED BY <3>1, <3>2, <1>1
  <2>3. Failing(new, t) = FALSE
      BY <2>1, <1>1, <1>2 DEF Failing
  <2>4. PartsLeft(new, t) = IF split THEN p ELSE 1
      BY <1>1, <1>2 DEF PartsLeft
  <2> QED BY <2>3, <2>4 DEF Entry
<1>8. ASSUME NEW x \in Msg, Live(new, x) PROVE Peer(new, x)
  <2>1. CASE x \in A
      BY <2>1, <1>1 DEF A, Peer
  <2>2. CASE x \notin A
    <3> DEFINE o == mg[x].frag_owner
    <3>1. new[x] = mg[x]
        BY <2>2, <1>1
    <3>2. Live(mg, x) /\ Peer(mg, x)
        BY <3>1, <1>8 DEF Live, Peers
    <3>3. CASE o \in {None, x}
        BY <3>1, <3>2, <3>3 DEF Peer
    <3>4. CASE o \notin {None, x}
      <4>1. o \in Msg /\ o <= k
          BY <3>2, <3>4, <1>3, <1>4, <1>2
      <4>2. new[o] = mg[o] /\ PartsOf(new, o) = PartsOf(mg, o)
        <5> HIDE DEF o
        <5> QED BY <4>1, <1>1, <1>2, <1>5
      <4>3. \A n \in PartsOf(mg, o) : new[n] = mg[n]
        <5> SUFFICES ASSUME NEW n \in PartsOf(mg, o) PROVE new[n] = mg[n]
            OBVIOUS
        <5> QED BY <4>1, <1>2, <1>1, <1>3, <1>4 DEF PartsOf
      <4>4. Live(new, o) <=> Live(mg, o)
          BY <4>2 DEF Live
      <4>5. new[x].frag_owner = o
          BY <3>1
      <4>6. /\ mg[x].done /\ ~mg[x].error /\ ~mg[x].fdone => mg[x].peer = "reply"
            /\ mg[x].fdone => \/ mg[x].peer = "empty"
                              \/ Live(mg, o) /\ \E n \in PartsOf(mg, o) : mg[n].error
          BY <3>2, <3>4 DEF Peer
      <4> HIDE DEF o
      <4> QED BY <3>1, <3>4, <4>2, <4>3, <4>4, <4>5, <4>6 DEF Peer
    <3> QED BY <3>3, <3>4
  <2> QED BY <2>1, <2>2
<1> QED
    BY <1>3, <1>6, <1>7, <1>8 DEF Peers, t

-----------------------------------------------------------------------------
(* Nothing is new of what is open of the clients that are not in C, and    *)
(* nothing is told to any.                                                 *)
Same(C) == \A c \in Client : c \notin C => Todo(c)' = Todo(c)
TellNone == \A c \in Client : Told(c)' = Told(c)

(* Nothing is new of any client.                                           *)
LEMMA StutterStep ==
    ASSUME Same({}), TellNone
    PROVE  UNCHANGED Gathered!vars
BY DEF Same, TellNone, Gathered!vars

(* A request is read, in n parts.                                          *)
LEMMA AskStep ==
    ASSUME NEW c \in Client, NEW r \in Msg, NEW n \in 1..MaxParts,
           Todo(c)' = Append(Todo(c), [req |-> r, left |-> n, bad |-> FALSE]),
           Same({c}), TellNone
    PROVE  Gathered!Next
<1> QED BY DEF Gathered!Next, Same, TellNone, Gathered!Ask

(* A part of an open request is settled.                                   *)
LEMMA SettleStep ==
    ASSUME NEW c \in Client, NEW i \in DOMAIN Todo(c), NEW failed \in BOOLEAN,
           Todo(c)[i].left > 0,
           Todo(c)' = [Todo(c) EXCEPT ![i].left = @ - 1, ![i].bad = @ \/ failed],
           Same({c}), TellNone
    PROVE  Gathered!Next
<1>1. Gathered!Settle(c, i, failed)
    BY DEF Same, TellNone, Gathered!Settle
<1> QED BY <1>1 DEF Gathered!Next

(* A part fails and is not settled.                                        *)
LEMMA LoseStep ==
    ASSUME NEW c \in Client, NEW i \in DOMAIN Todo(c),
           Todo(c)[i].left > 0,
           Todo(c)' = [Todo(c) EXCEPT ![i].bad = TRUE],
           Same({c}), TellNone
    PROVE  Gathered!Next
<1>1. Gathered!Lose(c, i)
    BY DEF Same, TellNone, Gathered!Lose
<1> QED BY <1>1 DEF Gathered!Next

(* A write completes the first k responses of a client.                    *)
LEMMA AnswerStep ==
    ASSUME NEW c \in Client, NEW k \in DOMAIN Todo(c),
           \A i \in 1..k : Todo(c)[i].left = 0,
           Todo(c)' = SubSeq(Todo(c), k + 1, Len(Todo(c))),
           Told(c)' = Told(c) \o [i \in 1..k |-> <<Todo(c)[i].req, Todo(c)[i].bad>>],
           Same({c}), \A x \in Client : x # c => Told(x)' = Told(x)
    PROVE  Gathered!Next
<1>2. k \in DOMAIN [x \in Client |-> Todo(x)][c]
    OBVIOUS
<1> QED BY <1>2 DEF Gathered!Next, Same, Gathered!Answer

(* A client leaves, and nothing is open of it any more.                    *)
LEMMA LeaveStep ==
    ASSUME NEW c \in Client, Todo(c)' = <<>>, Same({c}), TellNone
    PROVE  Gathered!Next
<1> QED BY DEF Gathered!Next, Same, TellNone, Gathered!Leave

-----------------------------------------------------------------------------
(* A request that is open is one of the requests of its client.            *)
LEMMA HeadIs ==
    ASSUME IInv, NEW t \in Msg, Live(msg, t), ~msg[t].swallow, msg[t].frag_owner \in {None, t}
    PROVE  msg[t].owner \in Client /\ t \in HeadsOf(msg[t].owner)
<1>1. Tree(msg, nlost, nmsg) /\ OutQueues(msg, omsg_q, frag_msgq, cur, gone)
    BY DEF IInv
<1>3. t \in ToSet(omsg_q[msg[t].owner]) \cup ToSet(frag_msgq)
    BY <1>1 DEF OutQueues
<1>4. t \in ToSet(frag_msgq) => cur = msg[t].owner
    BY <1>1 DEF OutQueues
<1> QED BY <1>1, <1>3, <1>4 DEF HeadsOf, Heads, Tree, Flags

(* The requests of a client, and of that client only.                      *)
LEMMA HeadsAre ==
    ASSUME IInv, NEW c \in Client, NEW m \in HeadsOf(c)
    PROVE  /\ m \in Msg /\ Live(msg, m) /\ msg[m].owner = c /\ ~msg[m].swallow
           /\ msg[m].frag_owner \in {None, m}
<1> QED BY AskedIs DEF HeadsOf, IInv

(* The same requests, and nothing new about any.                           *)
LEMMA NothingShown ==
    ASSUME IInv, IInv', \A c \in Client : HeadsNext(c) = HeadsOf(c),
           \A c \in Client : \A m \in HeadsOf(c) : Entry(msg', m) = Entry(msg, m),
           wire' = wire
    PROVE  UNCHANGED Gathered!vars
<1>2. TellNone
    BY DEF TellNone, Told
<1> QED BY TodoSame, <1>2, StutterStep DEF Same

(* A part of one request is settled, or lost.                              *)
LEMMA SettleShown ==
    ASSUME IInv, IInv', \A c \in Client : HeadsNext(c) = HeadsOf(c), wire' = wire,
           NEW c \in Client, NEW t \in HeadsOf(c),
           \A d \in Client : \A m \in HeadsOf(d) : m # t => Entry(msg', m) = Entry(msg, m),
           NEW counted \in BOOLEAN, NEW e \in BOOLEAN, counted \/ e,
           PartsLeft(msg, t) > 0,
           PartsLeft(msg', t) = IF counted THEN PartsLeft(msg, t) - 1 ELSE PartsLeft(msg, t),
           Failing(msg', t) <=> Failing(msg, t) \/ e
    PROVE  Gathered!Next
<1>1. PICK i \in DOMAIN Todo(c) :
               /\ Todo(c)[i] = Entry(msg, t)
               /\ Todo(c)' = [Todo(c) EXCEPT ![i] = Entry(msg', t)]
    BY TodoChanged
<1>2. Same({c})
  <2> SUFFICES ASSUME NEW d \in Client, d # c PROVE Todo(d)' = Todo(d)
      BY DEF Same
  <2> QED BY HeadsAre, TodoSame
<1>3. TellNone
    BY DEF TellNone, Told
<1> DEFINE q == Todo(c)
           l == PartsLeft(msg, t)
           b == Failing(msg, t)
           ln == PartsLeft(msg', t)
           bn == Failing(msg', t)
<1>4. /\ q[i] = [req |-> t, left |-> l, bad |-> b] /\ i \in DOMAIN q
      /\ Todo(c)' = [q EXCEPT ![i] = [req |-> t, left |-> ln, bad |-> bn]]
    BY <1>1 DEF Entry
<1>5. bn = (b \/ e)
  <2> QED BY DEF Failing
<1>6. q = [j \in DOMAIN q |-> q[j]]
  <2> DEFINE r == AskedBefore(c)
  <2>2. q = [j \in DOMAIN r |-> Entry(msg, r[j])]
      BY BothAsked DEF Entries
  <2> HIDE DEF q, r
  <2> QED BY <2>2
<1> DEFINE D == DOMAIN q
<1>7. /\ q[i].left = l /\ q = [j \in D |-> q[j]] /\ i \in D
      /\ [q EXCEPT ![i].left = @ - 1, ![i].bad = @ \/ e]
             = [q EXCEPT ![i] = [req |-> t, left |-> l - 1, bad |-> b \/ e]]
      /\ [q EXCEPT ![i].bad = TRUE] = [q EXCEPT ![i] = [req |-> t, left |-> l, bad |-> TRUE]]
  <2>1. q = [j \in D |-> q[j]] /\ i \in D /\ q[i] = [req |-> t, left |-> l, bad |-> b]
      BY <1>4, <1>6
  <2> HIDE DEF q, l, b, D
  <2>2. /\ [q EXCEPT ![i].left = @ - 1, ![i].bad = @ \/ e]
             = [q EXCEPT ![i] = [req |-> t, left |-> l - 1, bad |-> b \/ e]]
        /\ [q EXCEPT ![i].bad = TRUE] = [q EXCEPT ![i] = [req |-> t, left |-> l, bad |-> TRUE]]
    <3>1. PICK q1 : q1 = q OBVIOUS
    <3>2. PICK b1 : b1 = b OBVIOUS
    <3>3. PICK l1 : l1 = l OBVIOUS
    <3>4. PICK D1 : D1 = D OBVIOUS
    <3>5. q1 = [j \in D1 |-> q1[j]] /\ i \in D1 /\ q1[i] = [req |-> t, left |-> l1, bad |-> b1]
        BY <2>1, <3>1, <3>2, <3>3, <3>4
    <3>6. /\ [q1 EXCEPT ![i].left = @ - 1, ![i].bad = @ \/ e]
             = [q1 EXCEPT ![i] = [req |-> t, left |-> l1 - 1, bad |-> b1 \/ e]]
          /\ [q1 EXCEPT ![i].bad = TRUE] = [q1 EXCEPT ![i] = [req |-> t, left |-> l1, bad |-> TRUE]]
      <4> DEFINE w == b1 \/ e
                 y == TRUE
                 v == l1 - 1
      <4>1. q1[i].left = l1 /\ q1[i].bad = b1
          BY <3>5
      <4>2. [q1 EXCEPT ![i].left = @ - 1, ![i].bad = @ \/ e]
               = [q1 EXCEPT ![i].left = v, ![i].bad = w]
          BY ONLY <4>1
      <4> HIDE DEF w, v
      <4> DEFINE R == [req |-> t, left |-> l1, bad |-> b1]
      <4>3. ASSUME NEW z PROVE [R EXCEPT !.bad = z] = [req |-> t, left |-> l1, bad |-> z]
          OBVIOUS
      <4>4. ASSUME NEW z, NEW x PROVE [R EXCEPT !.left = x, !.bad = z] = [req |-> t, left |-> x, bad |-> z]
        <5>1. [R EXCEPT !.left = x] = [req |-> t, left |-> x, bad |-> b1]
            OBVIOUS
        <5>2. [[req |-> t, left |-> x, bad |-> b1] EXCEPT !.bad = z] = [req |-> t, left |-> x, bad |-> z]
            OBVIOUS
        <5>3. [R EXCEPT !.left = x, !.bad = z] = [[R EXCEPT !.left = x] EXCEPT !.bad = z]
          <6> HIDE DEF R
          <6> QED OBVIOUS
        <5> QED BY <5>1, <5>2, <5>3
      <4>5. q1 = [j \in D1 |-> q1[j]] /\ i \in D1 /\ q1[i] = R
          BY <3>5
      <4> HIDE DEF R
      <4>7. [q1 EXCEPT ![i].left = v, ![i].bad = w] = [q1 EXCEPT ![i] = [req |-> t, left |-> v, bad |-> w]]
          BY <4>4, <4>5
      <4>8. [q1 EXCEPT ![i].bad = TRUE] = [q1 EXCEPT ![i].bad = y]
          OBVIOUS
      <4> HIDE DEF y
      <4>10. [q1 EXCEPT ![i].bad = y] = [q1 EXCEPT ![i] = [req |-> t, left |-> l1, bad |-> y]]
          BY <4>3, <4>5
      <4> QED BY <4>2, <4>7, <4>8, <4>10 DEF w, y, v
    <3> QED BY <3>1, <3>2, <3>3, <3>6
  <2> QED BY <2>1, <2>2
<1>8. CASE counted
  <2>1. Todo(c)' = [q EXCEPT ![i].left = @ - 1, ![i].bad = @ \/ e]
    <3>1. ln = l - 1
        BY <1>8
    <3> HIDE DEF q, l, b, ln, bn
    <3> QED BY <3>1, <1>4, <1>5, <1>7
  <2>2. Todo(c)[i].left > 0
      BY <1>7
  <2>3. Todo(c)' = [Todo(c) EXCEPT ![i].left = @ - 1, ![i].bad = @ \/ e]
      BY <2>1 DEF q
  <2> HIDE DEF q
  <2> QED BY <2>2, <2>3, <1>1, <1>2, <1>3, SettleStep
<1>9. CASE ~counted
  <2>1. Todo(c)' = [q EXCEPT ![i].bad = TRUE]
    <3>1. ln = l /\ bn = TRUE
        BY <1>5, <1>9
    <3> HIDE DEF q, l, b, ln, bn
    <3> QED BY <3>1, <1>4, <1>7
  <2>2. Todo(c)[i].left > 0
      BY <1>7
  <2>3. Todo(c)' = [Todo(c) EXCEPT ![i].bad = TRUE]
      BY <2>1 DEF q
  <2> HIDE DEF q
  <2> QED BY <2>2, <2>3, <1>1, <1>2, <1>3, LoseStep
<1> QED
    BY <1>8, <1>9

(* What forwarding the first message leaves of the requests of a client:   *)
(* all, in the same order.                                                 *)
LEMMA ForwardHeads ==
    ASSUME IInv, pc = "forward", NextForward,
           \A m \in Msg : msg'[m].frag_owner = msg[m].frag_owner
    PROVE  \A c \in Client : HeadsNext(c) = HeadsOf(c)
<1> DEFINE h == Head(frag_msgq)
<1>1. frag_msgq \in Seq(Msg) /\ frag_msgq # <<>> /\ cur \in Client /\ omsg_q \in [Client -> Seq(Msg)]
    BY ForwardStart, IInvIs
<1>2. /\ h \in Msg /\ ToSet(frag_msgq) = {h} \cup ToSet(Tail(frag_msgq))
      /\ Tail(frag_msgq) \in Seq(Msg)
    BY <1>1, HeadFacts
<1>3. /\ omsg_q' = [omsg_q EXCEPT ![cur] = Append(@, h)] /\ frag_msgq' = Tail(frag_msgq)
      /\ cur' = IF Tail(frag_msgq) = <<>> THEN None ELSE cur
    BY DEF NextForward
<1>4. \A c \in Client : c # None
    BY FragmentsAssumption
<1> HIDE DEF h
<1>5. \A c \in Client : ToSet(omsg_q'[c]) = ToSet(omsg_q[c]) \cup (IF c = cur THEN {h} ELSE {})
  <2> SUFFICES ASSUME NEW c \in Client
               PROVE  ToSet(omsg_q'[c]) = ToSet(omsg_q[c]) \cup (IF c = cur THEN {h} ELSE {})
      OBVIOUS
  <2>2. ToSet(Append(omsg_q[c], h)) = ToSet(omsg_q[c]) \cup {h}
      BY <1>1, <1>2, AppendFacts
  <2> QED BY <2>2, <1>1, <1>3
<1>6. ToSet(<<>>) = {}
    BY DEF ToSet
<1> SUFFICES ASSUME NEW c \in Client PROVE HeadsNext(c) = HeadsOf(c)
    OBVIOUS
<1> DEFINE all == ToSet(omsg_q[c]) \cup (IF cur = c THEN ToSet(frag_msgq) ELSE {})
           alln == ToSet(omsg_q'[c]) \cup (IF cur' = c THEN ToSet(frag_msgq') ELSE {})
<1>7. alln = all
    BY <1>3, <1>4, <1>5, <1>6, <1>2
<1>8. all \subseteq Msg
  <2> QED BY <1>1, PlaceOf
<1>9. /\ HeadsOf(c) = {m \in all : msg[m].frag_owner \in {None, m}}
      /\ HeadsNext(c) = {m \in alln : msg'[m].frag_owner \in {None, m}}
    BY DEF HeadsOf, HeadsNext, Heads
<1> HIDE DEF all, alln
<1> QED BY <1>7, <1>8, <1>9

(* A handler that settles a message, and then perhaps asks req_done of the *)
(* head of an out_q, settles or loses a part of one request.               *)
LEMMA CheckedShown ==
    ASSUME IInv, IInv', Peers(msg), wire' = wire,
           \A c \in Client : HeadsNext(c) = HeadsOf(c),
           NEW m \in Msg, Live(msg, m), ~msg[m].done, ~msg[m].swallow,
           NEW e \in BOOLEAN, NEW p, p \in {"reply", msg[m].peer}, e \/ p = "reply",
           NEW counted \in BOOLEAN, counted \/ e,
           NEW nl, NEW oq, NEW qu, NEW fm, NEW cu,
           Flow(Settled(msg, m, e, p, counted), nl, nmsg, oq, qu, fm, <<>>, cu, gone, wire),
           \/ msg' = Settled(msg, m, e, p, counted)
           \/ \E d \in Client : /\ oq[d] # <<>>
                                /\ msg' = Coalesced(Settled(msg, m, e, p, counted), oq[d], 1)
    PROVE  Gathered!Next /\ Peers(msg')
<1> DEFINE mid == Settled(msg, m, e, p, counted)
           t == IF msg[m].frag_owner = None THEN m ELSE msg[m].frag_owner
<1>1. Tree(msg, nlost, nmsg) /\ msg \in [Msg -> MsgRec]
    BY IInvIs DEF Flow
<1>2. p \in {"none", "reply", "empty", "error"}
    BY <1>1, MessageTypes
<1>3. /\ t \in Msg /\ Live(msg, t) /\ ~msg[t].swallow
      /\ msg[t].frag_owner \in {None, t}
      /\ PartsLeft(msg, t) > 0
      /\ PartsLeft(mid, t) = IF counted \/ t = m THEN PartsLeft(msg, t) - 1 ELSE PartsLeft(msg, t)
      /\ (Failing(mid, t) <=> Failing(msg, t) \/ e)
      /\ \A x \in Msg : x # t /\ msg[x].frag_owner \in {None, x} => Entry(mid, x) = Entry(msg, x)
    BY <1>1, <1>2, SettledEntries
<1>4. Peers(mid)
    BY <1>1, SettledPeers
<1>5. \A x \in Msg : mid[x].frag_owner = msg[x].frag_owner
    BY <1>1, <1>2, SettledFields
<1>6. Tree(mid, nl, nmsg) /\ OutQueues(mid, oq, fm, cu, gone)
    BY DEF Flow
<1> HIDE DEF mid
<1>7. Peers(msg') /\ \A x \in Msg : msg[x].frag_owner \in {None, x} => Entry(msg', x) = Entry(mid, x)
  <2>1. CASE msg' = mid
      BY <2>1, <1>4
  <2>2. ASSUME NEW d \in Client, oq[d] # <<>>, msg' = Coalesced(mid, oq[d], 1)
        PROVE  Peers(msg') /\ \A x \in Msg : msg[x].frag_owner \in {None, x} => Entry(msg', x) = Entry(mid, x)
    <3>1. 1 \in DOMAIN oq[d]
      <4> QED BY <1>6, <2>2 DEF OutQueues
    <3> DEFINE one == 1
    <3>2. /\ one \in DOMAIN oq[d] /\ msg' = Coalesced(mid, oq[d], one)
          /\ one = 1 /\ \A j \in 1..(one - 1) : mid[oq[d][j]].frag_id # None => mid[oq[d][j]].fdone
        BY <3>1, <2>2
    <3> HIDE DEF one
    <3>3. one = 1 \/ fm = <<>>
        BY <3>2
    <3>4. \A x \in Msg : mid[x].frag_owner \in {None, x} =>
               Entry(Coalesced(mid, oq[d], one), x) = Entry(mid, x)
        BY ONLY <1>6, <3>2, <3>3, <2>2, CoalescedEntries
    <3>5. Peers(Coalesced(mid, oq[d], one))
        BY ONLY <1>4, <1>6, <3>2, <3>3, <2>2, CoalescedPeers
    <3> QED BY <3>2, <3>4, <3>5, <1>5
  <2> QED BY <2>1, <2>2 DEF mid
<1> DEFINE c == msg[t].owner
           settles == counted \/ t = m
<1> HIDE DEF t
<1>8. c \in Client /\ t \in HeadsOf(c)
    BY <1>3, HeadIs
<1>9. ASSUME NEW d \in Client, NEW x \in HeadsOf(d), x # t
      PROVE  Entry(msg', x) = Entry(msg, x)
    BY <1>9, HeadsAre, <1>3, <1>7
<1>10. /\ PartsLeft(msg', t) = IF settles THEN PartsLeft(msg, t) - 1 ELSE PartsLeft(msg, t)
       /\ (Failing(msg', t) <=> Failing(msg, t) \/ e)
  <2> DEFINE l1 == PartsLeft(msg', t)
             l2 == PartsLeft(mid, t)
             b1 == Failing(msg', t)
             b2 == Failing(mid, t)
  <2>2. [req |-> t, left |-> l1, bad |-> b1] = [req |-> t, left |-> l2, bad |-> b2]
      BY <1>3, <1>7 DEF Entry
  <2>3. b1 \in BOOLEAN /\ b2 \in BOOLEAN
      BY DEF Failing
  <2>4. l1 = l2 /\ (b1 <=> b2)
    <3> HIDE DEF l1, l2, b1, b2
    <3> QED BY <2>2, <2>3
  <2> QED BY <2>4, <1>3
<1>11. settles \in BOOLEAN /\ (settles \/ e)
    OBVIOUS
<1> HIDE DEF c, settles
<1> QED BY <1>7, <1>3, <1>8, <1>9, <1>10, <1>11, SettleShown

(* What is to be shown of a step: it is one of Gather, or none.            *)
Shown == Gathered!Next \/ UNCHANGED Gathered!vars

(* The message that fails is in out_q and settled, before req_done is      *)
(* asked of the head.                                                      *)
LEMMA FailSettles ==
    ASSUME IInv, pc = "forward", NEW counted \in BOOLEAN
    PROVE  LET m == Head(frag_msgq)
               failed == Settled(msg, m, TRUE, msg[m].peer, counted)
               oq == Pushed(omsg_q, cur, frag_msgq)
           IN /\ Flow(failed, LostOf(nlost, msg, m, counted), nmsg, oq,
                      queue, Tail(frag_msgq), <<>>, cur, gone, wire)
              /\ oq[cur] = Append(omsg_q[cur], m) /\ 1 \in DOMAIN oq[cur] /\ oq[cur] # <<>>
<1> DEFINE m == Head(frag_msgq)
           failed == Settled(msg, m, TRUE, msg[m].peer, counted)
           nl == LostOf(nlost, msg, m, counted)
           oq == Pushed(omsg_q, cur, frag_msgq)
           fm == Tail(frag_msgq)
<1>1. /\ Flow(msg, nlost, nmsg, omsg_q, queue, frag_msgq, <<>>, cur, gone, wire)
      /\ frag_msgq # <<>> /\ cur \in Client \ gone
      /\ msg \in [Msg -> MsgRec]
    BY ForwardStart
<1>2. /\ Flow(msg, nlost, nmsg, oq, queue, fm, <<>>, cur, gone, wire)
      /\ m \in Msg /\ Live(msg, m) /\ ~msg[m].done
      /\ ~msg[m].swallow /\ m \notin ToSet(fm)
      /\ \A s \in Server : m \notin ToSet(queue[s])
    BY <1>1, MoveKeeps
<1>3. msg[m].peer \in {"none", "reply", "empty", "error"}
    BY <1>1, <1>2, MessageTypes
<1>4. Flow(failed, nl, nmsg, oq, queue, fm, <<>>, cur, gone, wire)
  <2> HIDE DEF oq, fm, m
  <2> QED BY <1>2, <1>3, SettleKeeps
<1>5. oq[cur] = Append(omsg_q[cur], m) /\ 1 \in DOMAIN oq[cur] /\ oq[cur] # <<>>
  <2>1. omsg_q \in [Client -> Seq(Msg)]
      BY IInvIs
  <2>2. oq[cur] = Append(omsg_q[cur], m)
      BY <1>1, <2>1 DEF Pushed
  <2>3. omsg_q[cur] \in Seq(Msg)
      BY <1>1, <2>1
  <2> HIDE DEF oq, m
  <2> QED BY <2>2, <2>3, <1>2
<1> HIDE DEF failed, nl, oq, fm, m
<1> QED BY <1>4, <1>5 DEF failed, nl, oq, fm, m

(* A forwarded message that fails (ForwardNowhere, ForwardUnwritable).     *)
LEMMA FailShown ==
    ASSUME IInv, IInv', Peers(msg), NEW counted \in BOOLEAN, pc = "forward", NextForward,
           LET m == Head(frag_msgq)
           IN /\ m \in Msg /\ Live(msg, m) /\ ~msg[m].done /\ ~msg[m].swallow
              /\ msg' = Coalesced(Settled(msg, m, TRUE, msg[m].peer, counted),
                                  Append(omsg_q[cur], m), 1)
    PROVE  Gathered!Next /\ Peers(msg')
<1> DEFINE m == Head(frag_msgq)
           e == TRUE
           p == msg[m].peer
           nl == LostOf(nlost, msg, m, counted)
           oq == Pushed(omsg_q, cur, frag_msgq)
           fm == Tail(frag_msgq)
<1>1. /\ m \in Msg /\ Live(msg, m) /\ ~msg[m].done /\ ~msg[m].swallow
      /\ msg' = Coalesced(Settled(msg, m, e, p, counted), Append(omsg_q[cur], m), 1)
    OBVIOUS
<1>2. /\ Flow(Settled(msg, m, e, p, counted), nl, nmsg, oq, queue, fm, <<>>, cur, gone, wire)
      /\ oq[cur] = Append(omsg_q[cur], m) /\ oq[cur] # <<>>
    BY FailSettles
<1>3. cur \in Client /\ Tree(msg, nlost, nmsg) /\ msg \in [Msg -> MsgRec]
    BY ForwardStart DEF Flow
<1>4. e \in BOOLEAN /\ e /\ p \in {"reply", msg[m].peer}
    OBVIOUS
<1> HIDE DEF m, e, p, nl, oq, fm
<1>5. \A x \in Msg : msg'[x].frag_owner = msg[x].frag_owner
  <2>1. p \in {"none", "reply", "empty", "error"}
      BY <1>1, <1>3, MessageTypes DEF p
  <2>2. \A x \in Msg : Settled(msg, m, e, p, counted)[x].frag_owner = msg[x].frag_owner
      BY <1>3 DEF Settled, MsgRec
  <2> DEFINE mid == Settled(msg, m, e, p, counted)
             q == Append(omsg_q[cur], m)
  <2>3. \A x \in Msg : Coalesced(mid, q, 1)[x].frag_owner = mid[x].frag_owner
    <3>1. mid \in [Msg -> MsgRec]
        BY <1>2 DEF Flow, Tree
    <3> HIDE DEF mid, q
    <3> QED BY <3>1 DEF Coalesced, post_coalesce, MsgRec
  <2> QED BY <2>2, <2>3, <1>1
<1>7. wire' = wire
    BY DEF NextForward
<1>8. \E d \in Client : oq[d] # <<>> /\ msg' = Coalesced(Settled(msg, m, e, p, counted), oq[d], 1)
    BY <1>1, <1>2, <1>3
<1> QED BY <1>1, <1>2, <1>4, <1>5, ForwardHeads, <1>7, <1>8, CheckedShown

(* What a handler of the loop that leaves the out_qs alone leaves of the   *)
(* requests.                                                               *)
LEMMA LoopHeads ==
    ASSUME IInv, UNCHANGED <<omsg_q, frag_msgq, cur>>,
           \A c \in Client : \A m \in ToSet(omsg_q[c]) \cup ToSet(frag_msgq) :
               msg'[m].frag_owner = msg[m].frag_owner
    PROVE  \A c \in Client : HeadsNext(c) = HeadsOf(c)
BY DEF HeadsNext, HeadsOf, Heads

(* A response (ServerReplies, ServerRepliesError).                         *)
LEMMA ResponseShown ==
    ASSUME IInv, IInv', Peers(msg), NEW s \in Server, NEW failed \in BOOLEAN, rsp_forward(s, failed)
    PROVE  Gathered!Next /\ Peers(msg')
<1> DEFINE m == Head(queue[s])
           c == msg[m].owner
           e == msg[m].frag_owner # None /\ failed
           p == "reply"
           counted == TRUE
           mid == Settled(msg, m, e, p, counted)
           qn == [queue EXCEPT ![s] = Tail(@)]
<1>1. /\ pc = "loop" /\ queue[s] # <<>> /\ c \in Client
      /\ m \in Msg /\ Live(msg, m) /\ ~msg[m].done /\ ~msg[m].swallow
      /\ msg' = HeadChecked(mid, c)
      /\ UNCHANGED <<omsg_q, frag_msgq, cur, wire>>
    BY ResponseIs
<1>2. /\ Flow(msg, nlost, nmsg, omsg_q, queue, <<>>, <<>>, None, gone, wire)
      /\ msg \in [Msg -> MsgRec]
    BY <1>1, LoopStart
<1>3. Tree(msg, nlost, nmsg) /\ Waits(msg, queue, <<>>)
    BY <1>2 DEF Flow
<1>4. /\ qn \in [Server -> Seq(Msg)]
      /\ \A t \in Server : IsInjective(qn[t]) /\ ToSet(qn[t]) \subseteq ToSet(queue[t])
      /\ \A t \in Server : m \notin ToSet(qn[t])
      /\ m \notin ToSet(<<>>)
    BY <1>1, <1>3, HeadLeaves
<1>5. Waits(msg, qn, <<>>)
  <2> HIDE DEF qn
  <2> QED BY <1>3, <1>4, FewerWait
<1>6. e \in BOOLEAN /\ counted \in BOOLEAN /\ counted /\ p \in {"none", "reply", "empty", "error"} /\ p = "reply"
    OBVIOUS
<1> HIDE DEF qn, m, e, p, counted
<1>8. Flow(mid, LostOf(nlost, msg, m, counted), nmsg, omsg_q, qn, <<>>, <<>>, None, gone, wire)
    BY <1>1, <1>4, <1>6, <1>2, <1>5, SettleKeeps DEF Flow
<1>9. \A x \in Msg : mid[x].frag_owner = msg[x].frag_owner
    BY <1>2 DEF Settled, MsgRec
<1>10. mid \in [Msg -> MsgRec]
    BY <1>8 DEF Flow, Tree
<1>11. \/ msg' = mid
       \/ \E d \in Client : omsg_q[d] # <<>> /\ msg' = Coalesced(mid, omsg_q[d], 1)
  <2> HIDE DEF mid, c
  <2> QED BY <1>1 DEF HeadChecked
<1>12. \A x \in Msg : msg'[x].frag_owner = mid[x].frag_owner
  <2> HIDE DEF mid
  <2>1. ASSUME NEW q PROVE \A x \in Msg : Coalesced(mid, q, 1)[x].frag_owner = mid[x].frag_owner
      BY <1>10 DEF Coalesced, post_coalesce, MsgRec
  <2> QED BY <2>1, <1>11
<1>13. \A d \in Client : HeadsNext(d) = HeadsOf(d)
  <2>1. \A d \in Client : \A x \in ToSet(omsg_q[d]) \cup ToSet(frag_msgq) : x \in Msg
      BY IInvIs, PlaceOf
  <2> HIDE DEF mid
  <2> QED BY <2>1, <1>1, <1>9, <1>12, LoopHeads
<1> QED BY <1>1, <1>6, <1>8, <1>11, <1>13, CheckedShown

(* The message in place (req_forward): nothing is new.                     *)
LEMMA ForwardShown ==
    ASSUME IInv, IInv', Peers(msg), NEW s \in Server, req_forward(s)
    PROVE  UNCHANGED Gathered!vars /\ Peers(msg')
<1>1. pc = "forward" /\ NextForward /\ msg' = msg /\ wire' = wire
    BY DEF req_forward, NextForward
<1> QED BY <1>1, ForwardHeads, NothingShown

(* Nothing is new while nothing of this changes (server_close, core_send,  *)
(* rsp_send_next).                                                         *)
LEMMA IdleShown ==
    ASSUME IInv, IInv', Peers(msg), UNCHANGED <<msg, omsg_q, wire>>,
           frag_msgq' = <<>>, frag_msgq = <<>>
    PROVE  UNCHANGED Gathered!vars /\ Peers(msg')
<1>2. \A c \in Client : HeadsNext(c) = HeadsOf(c)
    BY DEF HeadsNext, HeadsOf, Heads, ToSet
<1> QED BY <1>2, NothingShown

(* Freeing messages that are not of a client shows it nothing.             *)
LEMMA RemovedShown ==
    ASSUME IInv, IInv', NEW S, NEW W, msg' = Removed(msg, S, W),
           NEW d \in Client, HeadsNext(d) = HeadsOf(d),
           \A x \in HeadsOf(d) :
               x \notin S /\ \A n \in PartsOf(msg, x) : n \in S => ~msg[n].error
    PROVE  Todo(d)' = Todo(d)
<1>1. msg \in [Msg -> MsgRec]
    BY IInvIs
<1>2. ASSUME NEW x \in HeadsOf(d) PROVE Entry(msg', x) = Entry(msg, x)
  <2> QED BY HeadsAre, <1>1, RemovedEntries
<1> QED BY <1>2, TodoSame

(* A swallowed response (rsp_filter_swallow).                              *)
LEMMA SwallowShown ==
    ASSUME IInv, IInv', Peers(msg), NEW s \in Server, rsp_filter_swallow(s)
    PROVE  UNCHANGED Gathered!vars /\ Peers(msg')
<1> DEFINE m == Head(queue[s])
           none == {}
           S == {m}
<1>1. /\ pc = "loop" /\ queue[s] # <<>> /\ msg[m].swallow
      /\ msg' = req_put(msg, {m})
      /\ UNCHANGED <<omsg_q, frag_msgq, cur, wire>>
    BY DEF rsp_filter_swallow
<1>2. /\ Flow(msg, nlost, nmsg, omsg_q, queue, <<>>, <<>>, None, gone, wire)
      /\ msg \in [Msg -> MsgRec] /\ frag_msgq = <<>>
    BY <1>1, LoopStart
<1>3. /\ Tree(msg, nlost, nmsg) /\ OutQueues(msg, omsg_q, <<>>, None, gone)
      /\ Waits(msg, queue, <<>>)
    BY <1>2 DEF Flow
<1>4. m \in Msg /\ Live(msg, m) /\ ~msg[m].done
    BY <1>1, <1>3, HeadLeaves
<1> HIDE DEF m
<1>5. msg' = Removed(msg, S, none)
    BY <1>1 DEF req_put, Removed
<1>6. \A x \in Msg : Live(msg, x) /\ x # m => msg[x].frag_owner # m
  <2> SUFFICES ASSUME NEW x \in Msg, Live(msg, x), x # m, msg[x].frag_owner = m PROVE FALSE
      OBVIOUS
  <2>2. msg[m].done
      BY <1>4, FragmentsAssumption, <1>3, OwnerIs DEF Msg, None
  <2> QED BY <2>2, <1>4
<1>7. ~msg[m].error
    BY <1>3, <1>4 DEF Tree, Flags
<1> HIDE DEF none
<1>8. Peers(msg')
  <2>1. \A x \in Msg : LET o == msg[x].frag_owner IN
               /\ x \notin S /\ Live(msg, x) /\ msg[x].fdone /\ o \notin {None, x}
               /\ o \in S \/ \E n \in PartsOf(msg, o) : n \in S /\ msg[n].error
               => msg[x].peer = "empty"
      BY <1>6, <1>7
  <2> HIDE DEF S
  <2> QED BY <2>1, <1>2, <1>5, RemovedPeers
<1>9. ASSUME NEW d \in Client
      PROVE  HeadsNext(d) = HeadsOf(d) /\ \A x \in HeadsOf(d) : x # m
    BY <1>3, <1>1, PlaceOf, <1>2 DEF OutQueues, req_put, MsgRec, ToSet,
      HeadsNext, Heads, HeadsOf
<1>10. Same({})
  <2> SUFFICES ASSUME NEW d \in Client PROVE Todo(d)' = Todo(d)
      BY DEF Same
  <2>1. HeadsNext(d) = HeadsOf(d)
        /\ \A x \in HeadsOf(d) : x \notin S /\ \A n \in PartsOf(msg, x) : n \in S => ~msg[n].error
      BY <1>7, <1>9
  <2> HIDE DEF S
  <2> QED BY <2>1, <1>5, RemovedShown
<1> QED BY <1>8, <1>10, <1>1, StutterStep DEF TellNone, Told

(* A client that leaves (client_close).                                    *)
LEMMA ClientCloseShown ==
    ASSUME IInv, IInv', Peers(msg), NEW c \in Client, client_close(c)
    PROVE  Gathered!Next /\ Peers(msg')
<1> DEFINE Q == ToSet(omsg_q[c])
           S == {m \in Q : msg[m].done}
           W == {m \in Q : ~msg[m].done}
<1>1. /\ pc = "loop" /\ msg' = Abandon(c) /\ omsg_q' = [omsg_q EXCEPT ![c] = <<>>]
      /\ UNCHANGED <<frag_msgq, cur, wire>>
    BY DEF client_close
<1>2. /\ Flow(msg, nlost, nmsg, omsg_q, queue, <<>>, <<>>, None, gone, wire)
      /\ msg \in [Msg -> MsgRec] /\ frag_msgq = <<>> /\ cur = None
    BY <1>1, LoopStart
<1>3. /\ Tree(msg, nlost, nmsg) /\ OutQueues(msg, omsg_q, <<>>, None, gone)
      /\ Errors(msg, <<>>)
    BY <1>2 DEF Flow
<1>4. msg' = Removed(msg, S, W)
    BY <1>1 DEF Abandon, Removed
<1>5. /\ omsg_q \in [Client -> Seq(Msg)]
      /\ \A d \in Client : /\ ToSet(omsg_q[d]) \subseteq Msg
                           /\ \A m \in ToSet(omsg_q[d]) : /\ Live(msg, m) /\ msg[m].owner = d
                                                          /\ ~msg[m].swallow
  <2>1. omsg_q \in [Client -> Seq(Msg)]
      BY <1>3 DEF OutQueues
  <2>2. ASSUME NEW d \in Client PROVE ToSet(omsg_q[d]) \subseteq Msg
    <3> QED BY <2>1, PlaceOf
  <2> QED BY <2>1, <2>2, <1>3 DEF OutQueues
<1>6. ToSet(<<>>) = {}
    BY DEF ToSet
<1>7. ASSUME NEW x \in Msg, Live(msg, x), msg[x].owner = c, ~msg[x].swallow
      PROVE  x \in Q
    BY <1>3, <1>6, <1>7, WhereItIs
<1>8. S \subseteq Q /\ W \subseteq Q /\ \A x \in Q : x \in Msg /\ (msg[x].done => x \in S)
    BY <1>5
<1>9. \A x \in Q : x \in Msg /\ Live(msg, x) /\ msg[x].owner = c /\ ~msg[x].swallow
    BY <1>5
<1> HIDE DEF S, W, Q
<1>10. ASSUME NEW x \in Msg, x \notin S, Live(msg, x), msg[x].fdone, msg[x].frag_owner # None,
              msg[x].frag_owner # x,
              \/ msg[x].frag_owner \in S
              \/ \E n \in PartsOf(msg, msg[x].frag_owner) : n \in S /\ msg[n].error
       PROVE  FALSE
  <2> DEFINE o == msg[x].frag_owner
  <2>1. o \in Msg
      BY <1>2, <1>10, MessageTypes
  <2>2. msg[x].done
      BY <1>3, <1>10 DEF Tree, Flags
  <2>3. CASE Live(msg, o)
      BY <2>3, <1>3, <1>10, OwnerIs, <1>8, <1>9, <2>1, PartsAre, <1>7, <2>2
  <2>4. CASE ~Live(msg, o)
    <3>1. o \notin S
        BY <2>4, <1>8, <1>9
    <3>2. PICK n \in PartsOf(msg, o) : n \in S /\ msg[n].error
        BY <3>1, <1>10
    <3>4. ~msg[n].error
        BY <2>4, <3>2, <1>8, <1>9, <1>3, <1>10 DEF Errors, PartsOf
    <3> QED BY <3>2, <3>4
  <2> QED BY <2>3, <2>4
<1>12. ASSUME NEW d \in Client, d # c
       PROVE  /\ HeadsNext(d) = HeadsOf(d)
              /\ \A x \in HeadsOf(d) : x \notin S /\ \A n \in PartsOf(msg, x) : n \notin S
  <2>1. omsg_q'[d] = omsg_q[d] /\ ToSet(omsg_q[d]) \subseteq Msg
      BY <1>1, <1>5, <1>12
  <2>3. \A x \in ToSet(omsg_q[d]) : msg'[x].frag_owner = msg[x].frag_owner
      BY <2>1, <1>5, <1>9, <1>12, <1>1 DEF Abandon, Q
  <2>5. HeadsOf(d) = {x \in ToSet(omsg_q[d]) : msg[x].frag_owner \in {None, x}}
      BY <1>1, <1>2, <1>6 DEF HeadsOf, Heads
  <2>6. ASSUME NEW x \in HeadsOf(d) PROVE x \notin S /\ \A n \in PartsOf(msg, x) : n \notin S
      BY HeadsAre, FragmentsAssumption, <1>8, <1>9, <1>12, <1>3, OwnerIs DEF
        Msg, None, PartsOf
  <2> QED BY <2>3, <2>1, <1>1, <1>2, <1>6, <2>5, <2>6 DEF HeadsNext, Heads
<1>13. Same({c})
  <2> SUFFICES ASSUME NEW d \in Client, d # c PROVE Todo(d)' = Todo(d)
      BY DEF Same
  <2> QED BY <1>4, <1>12, RemovedShown
<1>14. Todo(c)' = <<>>
  <2>2. HeadsNext(c) = {}
      BY <1>1, <1>2, <1>5, FragmentsAssumption, <1>6 DEF HeadsNext, Heads
  <2>3. /\ Todo(c)' = Entries(msg', AskedAfter(c)) /\ AskedAfter(c) \in Seq(Msg) /\ ToSet(AskedAfter(c)) = {}
      BY <2>2, BothAsked
  <2> DEFINE r == AskedAfter(c)
             f == msg'
  <2> HIDE DEF r, f
  <2>5. Entries(f, r) = <<>>
      BY <2>3, PlaceOf DEF Entries, r
  <2> QED BY <2>3, <2>5 DEF r, f
<1>16. Gathered!Next
    BY <1>13, <1>14, <1>1, LeaveStep DEF TellNone, Told
<1> QED BY <1>10, <1>2, <1>4, RemovedPeers, <1>16

(* A request that is read, and split or not.                               *)
LEMMA ArrivedShown ==
    ASSUME IInv, IInv', Peers(msg), pc = "loop", wire' = wire,
           NEW k, k = nmsg, k \in Nat, NEW p \in Nat, NEW split \in BOOLEAN, NEW c \in Client,
           NEW y, y = k + 1, NEW q, q = k + 2, NEW z, z = k + 1 + p,
           Arrived(msg, msg', k, p, split, c), split \/ p = 0, z <= MaxMsg,
           \A x \in y..z : msg'[x].peer \in {"none", "reply"},
           split => p \in 1..MaxParts, cur' = c,
           \A d \in Client : d # c \/ ~split => ToSet(omsg_q'[d]) = ToSet(omsg_q[d]),
           split => ToSet(omsg_q'[c]) = ToSet(omsg_q[c]) \cup {y},
           split => ToSet(frag_msgq') = q..z, ~split => ToSet(frag_msgq') = {y}
    PROVE  Gathered!Next /\ Peers(msg')
<1>1. /\ Flow(msg, nlost, k, omsg_q, queue, <<>>, <<>>, None, gone, wire)
      /\ msg \in [Msg -> MsgRec] /\ frag_msgq = <<>> /\ cur = None
    BY LoopStart
<1>2. Tree(msg, nlost, k) /\ OutQueues(msg, omsg_q, <<>>, None, gone)
    BY <1>1 DEF Flow
<1> DEFINE left == IF split THEN p ELSE 1
<1>3. /\ y \in Int /\ q \in Int /\ z \in Int /\ y < q /\ (~split => z = y) /\ y <= z
      /\ \A x \in Int : x < q <=> x <= y
      /\ y \in Msg /\ y # None /\ \A x \in q..z : x \in Msg
    BY FragmentsAssumption DEF Msg, None
<1>4. /\ Peers(msg')
      /\ \A x \in Msg : Live(msg, x) => Entry(msg', x) = Entry(msg, x) /\ x < y
      /\ Entry(msg', y) = [req |-> y, left |-> left, bad |-> FALSE]
    BY <1>2, ArrivedEntries
<1>5. left \in 1..MaxParts
    BY FragmentsAssumption
<1>6. /\ \A x \in Msg : x \notin y..z => msg'[x] = msg[x]
      /\ \A x \in Msg : x \in y..z => msg'[x].frag_owner = (IF split THEN y ELSE None)
    BY DEF Arrived
<1>7. ToSet(frag_msgq') = IF split THEN q..z ELSE {y}
    OBVIOUS
<1>8. \A d \in Client : ToSet(omsg_q'[d]) =
                ToSet(omsg_q[d]) \cup (IF split /\ d = c THEN {y} ELSE {})
    OBVIOUS
<1> HIDE DEF left
<1>9. ASSUME NEW d \in Client
      PROVE  HeadsNext(d) = HeadsOf(d) \cup (IF d = c THEN {y} ELSE {})
  <2>1. \A x \in ToSet(omsg_q[d]) : x \in Msg /\ Live(msg, x)
      BY <1>2, PlaceOf DEF OutQueues
  <2>2. \A x \in ToSet(omsg_q[d]) : msg'[x] = msg[x]
      BY <2>1, <1>4, <1>3, <1>6 DEF Msg
  <2>4. HeadsOf(d) = {x \in ToSet(omsg_q[d]) : msg[x].frag_owner \in {None, x}}
      BY <1>1, FragmentsAssumption DEF HeadsOf, Heads, ToSet
  <2>5. HeadsNext(d) = {x \in ToSet(omsg_q'[d]) \cup (IF c = d THEN ToSet(frag_msgq') ELSE {}) :
                           msg'[x].frag_owner \in {None, x}}
      BY DEF HeadsNext, Heads
  <2>7. msg'[y].frag_owner \in {None, y}
    <3> QED BY <1>3, <1>6
  <2>8. CASE d # c
      BY <2>8, <2>2, <2>4, <2>5, <1>8
  <2>9. CASE d = c /\ split
      BY <2>9, <2>2, <2>4, <2>5, <1>3, <1>6, <2>7, <1>7, <1>8
  <2>10. CASE d = c /\ ~split
      BY <2>10, <2>2, <2>4, <2>5, <2>7, <1>7, <1>8
  <2> QED BY <2>8, <2>9, <2>10
<1>10. \A d \in Client : \A x \in HeadsOf(d) : x < y /\ Entry(msg', x) = Entry(msg, x)
    BY <1>4, HeadsAre
<1>12. Same({c})
  <2> SUFFICES ASSUME NEW d \in Client, d # c PROVE Todo(d)' = Todo(d)
      BY DEF Same
  <2> QED BY <1>9, <1>10, TodoSame
<1>13. TellNone
    BY DEF TellNone, Told
<1>14. Gathered!Next
    BY <1>3, <1>5, <1>9, <1>10, TodoAsked, <1>4, <1>12, <1>13, AskStep
<1> QED BY <1>4, <1>14

(* A request for one server (ReceivePlain).                                *)
LEMMA PlainShown ==
    ASSUME IInv, IInv', Peers(msg), NEW c \in Client, ReceivePlain(c)
    PROVE  Gathered!Next /\ Peers(msg')
<1> DEFINE k == nmsg
           p == 0
           split == FALSE
           y == k + 1
           q == k + 2
           z == k + 1 + p
<1>1. /\ pc = "loop" /\ cur' = c /\ omsg_q' = omsg_q /\ wire' = wire
      /\ k \in Nat /\ z = y /\ y \in Msg /\ z <= MaxMsg
      /\ Arrived(msg, msg', k, p, split, c) /\ msg'[y].peer = "none"
      /\ ToSet(frag_msgq') = {y}
    BY PlainIs
<1>2. p \in Nat /\ p = 0 /\ split \in BOOLEAN /\ ~split /\ k = nmsg
      /\ y = k + 1 /\ q = k + 2 /\ z = k + 1 + p
    OBVIOUS
<1> HIDE DEF k, p, split, y, q, z
<1>4. /\ \A d \in Client : d # c \/ ~split => ToSet(omsg_q'[d]) = ToSet(omsg_q[d])
      /\ split => ToSet(omsg_q'[c]) = ToSet(omsg_q[c]) \cup {y}
    BY <1>1, <1>2
<1>5. /\ split => ToSet(frag_msgq') = q..z
      /\ ~split => ToSet(frag_msgq') = {y}
      /\ split => p \in 1..MaxParts
    BY <1>1, <1>2
<1> QED BY <1>1, <1>2, <1>4, <1>5, ArrivedShown DEF Msg

(* A request that is split (ReceiveSplit).                                 *)
LEMMA SplitShown ==
    ASSUME IInv, IInv', Peers(msg), NEW c \in Client, NEW p \in 1..MaxParts, ReceiveSplit(c, p)
    PROVE  Gathered!Next /\ Peers(msg')
<1> DEFINE k == nmsg
           r == p
           split == TRUE
           y == k + 1
           q == k + 2
           z == k + 1 + r
<1>1. /\ pc = "loop" /\ cur' = c /\ wire' = wire
      /\ omsg_q' = [omsg_q EXCEPT ![c] = Append(@, y)]
      /\ k \in Nat /\ r \in Nat /\ y \in Msg /\ z <= MaxMsg
      /\ Arrived(msg, msg', k, r, split, c)
      /\ \A x \in y..z : msg'[x].peer \in {"none", "reply"}
      /\ ToSet(frag_msgq') = q..z
    BY SplitIs
<1>2. split \in BOOLEAN /\ split /\ (split => r \in 1..MaxParts) /\ (split \/ r = 0) /\ k = nmsg
      /\ y = k + 1 /\ q = k + 2 /\ z = k + 1 + r
    OBVIOUS
<1> HIDE DEF k, r, split, y, q, z
<1>4. /\ \A d \in Client : d # c \/ ~split => ToSet(omsg_q'[d]) = ToSet(omsg_q[d])
      /\ split => ToSet(omsg_q'[c]) = ToSet(omsg_q[c]) \cup {y}
    BY IInvIs, <1>1, AppendFacts, <1>2
<1>5. /\ split => ToSet(frag_msgq') = q..z
      /\ ~split => ToSet(frag_msgq') = {y}
    BY <1>1, <1>2
<1>6. /\ IInv /\ IInv' /\ Peers(msg) /\ pc = "loop" /\ wire' = wire
      /\ k = nmsg /\ k \in Nat /\ r \in Nat /\ split \in BOOLEAN /\ c \in Client
      /\ y = k + 1 /\ q = k + 2 /\ z = k + 1 + r
    BY <1>1, <1>2
<1>7. /\ Arrived(msg, msg', k, r, split, c) /\ (split \/ r = 0) /\ z <= MaxMsg
      /\ \A x \in y..z : msg'[x].peer \in {"none", "reply"}
      /\ (split => r \in 1..MaxParts) /\ cur' = c
    BY <1>1, <1>2
<1> QED BY ONLY <1>6, <1>7, <1>4, <1>5, ArrivedShown, SMTT(60)

(* A request in error keeps its entry when its fragments go.               *)
LEMMA MadeErrorEntries ==
    ASSUME NEW mg, mg \in [Msg -> MsgRec], NEW m \in Msg, Failing(mg, m),
           mg[m].frag_owner \in {None, m}, mg[m].frag_id = None => mg[m].error,
           NEW x \in Msg, mg[x].frag_owner \in {None, x}
    PROVE  Entry(Errored(Removed(mg, PartsOf(mg, m), {}), m), x) = Entry(mg, x)
<1> DEFINE P == PartsOf(mg, m)
           cut == Removed(mg, P, {})
           new == Errored(cut, m)
<1>1. /\ cut \in [Msg -> MsgRec]
      /\ \A y \in Msg : y \in P =>
                    /\ ~Live(cut, y) /\ cut[y] = [NoMsg EXCEPT !.st = cut[y].st]
                    /\ cut[y].frag_owner = None /\ ~cut[y].done /\ ~cut[y].ferror
                    /\ ~cut[y].cut /\ cut[y].st = "freed"
      /\ \A y \in Msg : y \notin P =>
                    /\ cut[y].st = mg[y].st /\ cut[y].owner = mg[y].owner
                    /\ cut[y].frag_id = mg[y].frag_id /\ cut[y].frag_owner = mg[y].frag_owner
                    /\ cut[y].nfrag = mg[y].nfrag /\ cut[y].nfrag_done = mg[y].nfrag_done
                    /\ cut[y].done = mg[y].done /\ cut[y].error = mg[y].error
                    /\ cut[y].fdone = mg[y].fdone /\ cut[y].ferror = mg[y].ferror
                    /\ (cut[y].swallow <=> mg[y].swallow \/ y \in {})
                    /\ cut[y].peer = mg[y].peer /\ cut[y].cut = mg[y].cut
    BY RemovedFields
<1> HIDE DEF cut
<1>2. \A y \in Msg : /\ new[y].frag_owner = cut[y].frag_owner
                     /\ new[y].nfrag = cut[y].nfrag /\ new[y].nfrag_done = cut[y].nfrag_done
                     /\ new[y].done = cut[y].done /\ new[y].error = cut[y].error
                     /\ new[y].fdone = cut[y].fdone
                     /\ (new[y].ferror <=> cut[y].ferror \/ (y = m /\ cut[y].frag_id # None))
    BY <1>1, ErroredFields
<1>3. m \notin P /\ x # None /\ m # None /\ P \subseteq Msg
    BY MessageTypes DEF PartsOf
<1>4. x \notin P
    BY <1>3 DEF PartsOf
<1>5. /\ mg[m].error \in BOOLEAN /\ mg[m].ferror \in BOOLEAN
      /\ \A n \in Msg : mg[n].error \in BOOLEAN /\ mg[n].ferror \in BOOLEAN
    BY MessageTypes
<1>6. PartsLeft(new, x) = PartsLeft(mg, x)
  <2> HIDE DEF new, P
  <2> QED BY <1>1, <1>2, <1>4 DEF PartsLeft
<1>7. Failing(new, x) <=> Failing(mg, x)
  <2>1. CASE x = m
    <3>1. mg[m].error \/ mg[m].ferror \/ mg[m].frag_id # None
        OBVIOUS
    <3>2. new[m].error \/ new[m].ferror
      <4> HIDE DEF new, P
      <4> QED BY <3>1, <1>1, <1>2, <1>3
    <3> QED BY <3>2, <2>1 DEF Failing
  <2>2. CASE x # m
    <3>1. \A n \in Msg : n \in PartsOf(new, x) <=> n \in PartsOf(mg, x)
      <4>1. \A n \in Msg : n \in P => mg[n].frag_owner = m
          BY DEF PartsOf
      <4> HIDE DEF new, P
      <4> QED BY <4>1, <2>2, <1>1, <1>2, <1>3 DEF PartsOf
    <3>2. \A n \in PartsOf(mg, x) : n \in Msg /\ n \notin P /\ new[n].error = mg[n].error
      <4>1. \A n \in PartsOf(mg, x) : n \in Msg /\ n \notin P
          BY <2>2 DEF PartsOf
      <4> HIDE DEF new, P
      <4> QED BY <4>1, <1>1, <1>2
    <3>3. PartsOf(new, x) = PartsOf(mg, x)
        BY <3>1 DEF PartsOf
    <3>4. new[x].error = mg[x].error /\ (new[x].ferror <=> mg[x].ferror)
      <4> HIDE DEF new, P
      <4> QED BY <2>2, <1>1, <1>2, <1>4
    <3> HIDE DEF new, P
    <3> QED BY <3>2, <3>3, <3>4 DEF Failing
  <2> QED BY <2>1, <2>2
<1>8. Failing(new, x) \in BOOLEAN /\ Failing(mg, x) \in BOOLEAN
    BY DEF Failing
<1> HIDE DEF new
<1> QED BY <1>6, <1>7, <1>8 DEF new, cut, Entry

(* A call of req_done moves no message to another request.                 *)
LEMMA CoalescedOwners ==
    ASSUME NEW mg, NEW nl, NEW k, Tree(mg, nl, k),
           NEW oq, NEW fm, NEW cu, NEW go, OutQueues(mg, oq, fm, cu, go),
           NEW c \in Client, NEW i \in DOMAIN oq[c], i = 1 \/ fm = <<>>
    PROVE  \A x \in Msg : Coalesced(mg, oq[c], i)[x].frag_owner = mg[x].frag_owner
<1> DEFINE new == Coalesced(mg, oq[c], i)
           o == mg[oq[c][i]].frag_owner
<1>1. \/ new = mg
      \/ o \in Msg /\ \E e \in BOOLEAN : new = Marked(mg, o, e)
    BY CoalescedIs
<1> HIDE DEF new, o
<1>2. CASE new = mg
    BY <1>2 DEF new
<1>3. ASSUME o \in Msg, NEW e \in BOOLEAN, new = Marked(mg, o, e)
      PROVE  \A x \in Msg : new[x].frag_owner = mg[x].frag_owner
    BY <1>3, MarkedFields DEF Tree
<1> QED BY <1>1, <1>2, <1>3 DEF new

(* The fragments of a request in error go without being missed.            *)
LEMMA PartsRemovable ==
    ASSUME NEW mg, NEW nl, NEW k, Tree(mg, nl, k), NEW m \in Msg, Peers(mg)
    PROVE  Peers(Removed(mg, PartsOf(mg, m), {}))
<1> DEFINE P == PartsOf(mg, m)
<1>0. mg \in [Msg -> MsgRec] /\ Groups(mg) /\ Blank(mg, nl, k)
    BY DEF Tree
<1>1. ASSUME NEW x \in Msg, x \notin P, Live(mg, x), mg[x].frag_owner \notin {None, x}
      PROVE  /\ mg[x].frag_owner \notin P
             /\ \A n \in PartsOf(mg, mg[x].frag_owner) : n \notin P
  <2> DEFINE o == mg[x].frag_owner
  <2>2. ASSUME o \in P PROVE FALSE
      BY <2>2, MessageTypes, <1>0, BlankMessage, <1>1 DEF PartsOf, Groups
  <2> QED BY <1>1, <2>2 DEF PartsOf
<1> DEFINE none == {}
<1> HIDE DEF P, none
<1> QED BY <1>1, <1>0, RemovedPeers DEF P, none

(* The turn of a request (rsp_send_next): nothing is told yet.             *)
LEMMA SendNextShown ==
    ASSUME IInv, IInv', Peers(msg), rsp_send_next
    PROVE  UNCHANGED Gathered!vars /\ Peers(msg')
<1> DEFINE q == omsg_q[cur]
           i == Len(send_msgq) + 1
           m == q[i]
           mg == Coalesced(msg, q, i)
           P == PartsOf(mg, m)
           err == req_error(mg, q, i)
<1>1. /\ frag_msgq = <<>> /\ cur \in Client
      /\ i \in DOMAIN q /\ q \in Seq(Msg) /\ Len(send_msgq) \in Nat
      /\ \A j \in 1..(i - 1) : q[j] \in ToSet(send_msgq)
      /\ Flow(mg, nlost, nmsg, omsg_q, queue, <<>>, send_msgq, cur, gone, wire)
      /\ mg[m].done /\ (mg[m].frag_id # None => mg[m].fdone)
      /\ m \in Msg
      /\ ~err => msg' = mg /\ omsg_q' = omsg_q
      /\ err => /\ mg[m].frag_owner \in {None, m}
                /\ msg' = Errored(Removed(mg, P, {}), m)
                /\ omsg_q' = [omsg_q EXCEPT ![cur] = Without(@, P)]
      /\ UNCHANGED <<frag_msgq, cur, wire>>
    BY SendNextIs
<1>2. /\ Tree(msg, nlost, nmsg) /\ OutQueues(msg, omsg_q, <<>>, cur, gone)
      /\ Sending(msg, omsg_q, send_msgq, cur)
      /\ msg \in [Msg -> MsgRec] /\ omsg_q \in [Client -> Seq(Msg)]
    BY <1>1, IInvIs DEF Flow
<1>3. \A j \in 1..(i - 1) : msg[q[j]].frag_id # None => msg[q[j]].fdone
    BY <1>1, <1>2 DEF Sending
<1>4. /\ \A x \in Msg : msg[x].frag_owner \in {None, x} => Entry(mg, x) = Entry(msg, x)
      /\ Peers(mg) /\ \A x \in Msg : mg[x].frag_owner = msg[x].frag_owner
  <2> DEFINE fm == <<>>
  <2>1. /\ Tree(msg, nlost, nmsg) /\ OutQueues(msg, omsg_q, fm, cur, gone) /\ fm = <<>>
        /\ i \in DOMAIN omsg_q[cur] /\ cur \in Client /\ Peers(msg)
        /\ \A j \in 1..(i - 1) : msg[omsg_q[cur][j]].frag_id # None => msg[omsg_q[cur][j]].fdone
      BY <1>1, <1>2, <1>3
  <2> HIDE DEF i, fm
  <2>2. \A x \in Msg : msg[x].frag_owner \in {None, x} =>
            Entry(Coalesced(msg, omsg_q[cur], i), x) = Entry(msg, x)
      BY ONLY <2>1, CoalescedEntries
  <2>3. Peers(Coalesced(msg, omsg_q[cur], i))
      BY ONLY <2>1, CoalescedPeers
  <2>4. \A x \in Msg : Coalesced(msg, omsg_q[cur], i)[x].frag_owner = msg[x].frag_owner
      BY ONLY <2>1, CoalescedOwners
  <2> QED BY <2>2, <2>3, <2>4
<1>5. /\ Tree(mg, nlost, nmsg) /\ OutQueues(mg, omsg_q, <<>>, cur, gone)
      /\ Errors(mg, send_msgq) /\ mg \in [Msg -> MsgRec]
    BY <1>1 DEF Flow, Tree
<1>6. \A d \in Client : ToSet(omsg_q[d]) \subseteq Msg
  <2>1. ASSUME NEW d \in Client PROVE ToSet(omsg_q[d]) \subseteq Msg
    <3> QED BY <1>2, PlaceOf
  <2> QED BY <2>1
<1>7. ToSet(frag_msgq) = {} /\ ToSet(frag_msgq') = {}
    BY <1>1 DEF ToSet
<1>8. CASE ~err
  <2>1. msg' = mg /\ omsg_q' = omsg_q
      BY <1>1, <1>8
  <2> HIDE DEF mg, err
  <2>2. \A d \in Client : HeadsNext(d) = HeadsOf(d)
      BY <2>1, <1>1, <1>4, <1>6, <1>7 DEF HeadsNext, HeadsOf, Heads
  <2> QED BY <2>1, <2>2, <1>4, HeadsAre, <1>1, NothingShown
<1>9. CASE err
  <2>1. /\ mg[m].frag_owner \in {None, m}
        /\ msg' = Errored(Removed(mg, P, {}), m)
        /\ omsg_q' = [omsg_q EXCEPT ![cur] = Without(@, P)]
      BY <1>1, <1>9
  <2>2. Live(mg, m) /\ mg[m].frag_id = mg[m].frag_owner /\ m # None /\ m \in ToSet(q)
      BY <1>1, PlaceOf, <1>5, MessageTypes DEF OutQueues, Tree, Groups
  <2>3. (mg[m].frag_id = None => mg[m].error) /\ Failing(mg, m)
    <3> HIDE DEF mg
    <3>1. (mg[m].frag_id = None => mg[m].error)
          /\ (mg[m].error \/ mg[m].ferror \/ \E n \in Siblings(mg, q, i) : mg[n].error)
        BY <1>9 DEF req_error
    <3>2. ASSUME mg[m].frag_id # None, NEW n \in Siblings(mg, q, i)
          PROVE  n \in PartsOf(mg, m)
      <4> DEFINE fm == <<>>
      <4>1. /\ Tree(mg, nlost, nmsg) /\ OutQueues(mg, omsg_q, fm, cur, gone)
            /\ i \in DOMAIN omsg_q[cur] /\ cur \in Client
            /\ mg[omsg_q[cur][i]].frag_id # None
          BY <1>1, <1>5, <3>2
      <4> HIDE DEF i, fm
      <4>2. Siblings(mg, omsg_q[cur], i) =
                {x \in ToSet(omsg_q[cur]) \ {omsg_q[cur][i]} :
                    mg[x].frag_id = mg[omsg_q[cur][i]].frag_id}
          BY ONLY <4>1, SiblingsAre
      <4>3. n \in ToSet(q) /\ n # m /\ mg[n].frag_id = mg[m].frag_id
          BY <4>2, <3>2
      <4> HIDE DEF m, q
      <4>4. n \in Msg /\ Live(mg, n)
          BY <4>3, <1>1, <1>5, <1>6 DEF OutQueues, q
      <4> QED BY <4>3, <4>4, <1>5, <2>1, <2>2, <3>2 DEF PartsOf, Tree, Groups
    <3> QED
      <4> HIDE DEF m, q, i
      <4>1. CASE mg[m].error \/ mg[m].ferror
          BY <4>1, <3>1 DEF Failing
      <4>2. CASE mg[m].frag_id # None /\ \E n \in Siblings(mg, q, i) : mg[n].error
          BY <4>2, <3>1, <3>2 DEF Failing
      <4> QED BY <4>1, <4>2, <3>1
  <2>4. /\ \A x \in Msg : mg[x].frag_owner \in {None, x} => Entry(msg', x) = Entry(mg, x)
        /\ Peers(msg')
    <3> DEFINE cut == Removed(mg, P, {})
    <3>1. \A x \in Msg : mg[x].frag_owner \in {None, x} => Entry(msg', x) = Entry(mg, x)
      <4> HIDE DEF mg, m
      <4> QED BY <1>1, <1>5, <2>1, <2>3, MadeErrorEntries
    <3>2. Peers(cut) /\ cut \in [Msg -> MsgRec]
      <4> HIDE DEF mg, m
      <4> QED BY <1>1, <1>4, <1>5, PartsRemovable, RemovedFields
    <3>3. m \notin P
        BY DEF PartsOf
    <3>4. cut[m] = mg[m]
      <4> HIDE DEF mg, m, P
      <4> QED BY <3>3, <1>1 DEF Removed
    <3> HIDE DEF cut, mg, m, P
    <3> QED BY <3>1, <3>2, <3>4, <2>1, <2>3, <1>1, ErroredPeers DEF cut
  <2>5. ASSUME NEW d \in Client PROVE HeadsNext(d) = HeadsOf(d)
    <3>1. ToSet(omsg_q'[d]) = ToSet(omsg_q[d]) \ (IF d = cur THEN P ELSE {})
      <4>1. ToSet(Without(q, P)) = ToSet(q) \ P
          BY <1>1, WithoutFacts
      <4> HIDE DEF P
      <4> QED BY <4>1, <2>1, <1>1, <1>2
    <3>2. /\ HeadsNext(d) = {x \in ToSet(omsg_q'[d]) : msg'[x].frag_owner \in {None, x}}
          /\ HeadsOf(d) = {x \in ToSet(omsg_q[d]) : msg[x].frag_owner \in {None, x}}
        BY <1>1, <1>7 DEF HeadsNext, HeadsOf, Heads
    <3>3. \A x \in Msg : x \notin P => msg'[x].frag_owner = mg[x].frag_owner
      <4> HIDE DEF mg, m, P
      <4>2. Removed(mg, P, {}) \in [Msg -> MsgRec]
          BY <1>5, RemovedFields
      <4> QED BY <4>2, <2>1, <1>1, ErroredFields DEF Removed
    <3>4. \A x \in Msg : x \in P => x # m /\ mg[x].frag_owner = m
        BY DEF PartsOf
    <3>5. \A x \in P : msg[x].frag_owner \notin {None, x} /\ x \in Msg
        BY <3>4, <2>2, <1>4 DEF PartsOf
    <3>6. \A x \in ToSet(omsg_q[d]) : d # cur => x \notin P
      <4> SUFFICES ASSUME NEW x \in ToSet(omsg_q[d]), x \in P PROVE d = cur
          OBVIOUS
      <4>1. /\ x \in Msg /\ mg[x].owner = d /\ Live(mg, x) /\ mg[m].owner = cur
            /\ mg[x].frag_owner = m
        <5> HIDE DEF mg, m, P
        <5> QED BY <3>4, <1>1, <1>5, <1>6, <2>2 DEF OutQueues, q
      <4>2. mg[m].owner = mg[x].owner
        <5> HIDE DEF mg, m, P
        <5> QED BY <4>1, <2>2, <1>5, OwnerIs
      <4> QED BY <4>1, <4>2
    <3> HIDE DEF mg, m, P
    <3>8. \A x \in HeadsOf(d) : x \in ToSet(omsg_q'[d])
        BY <3>1, <3>2, <3>5
    <3> QED BY <3>2, <3>3, <3>1, <3>6, <1>6, <3>8, <1>4
  <2>6. \A d \in Client : \A x \in HeadsOf(d) : Entry(msg', x) = Entry(msg, x)
    <3> HIDE DEF mg
    <3> QED BY <2>4, <1>4, HeadsAre
  <2> QED BY <2>4, <2>5, <2>6, <1>1, NothingShown
<1> QED BY <1>8, <1>9

-----------------------------------------------------------------------------
(* Without(q, S), one element further.                                     *)
LEMMA WithoutAppend ==
    ASSUME NEW T, NEW q \in Seq(T), NEW x \in T, NEW S
    PROVE  Without(Append(q, x), S) = IF x \in S THEN Without(q, S)
                                      ELSE Append(Without(q, S), x)
<1> DEFINE n == Len(q)
           r == Append(q, x)
           z == n + 1
<1>1. /\ n \in Nat /\ r \in Seq(T) /\ Len(r) = z /\ r[z] = x
      /\ \A i \in 1..n : r[i] = q[i]
    OBVIOUS
<1>2. PICK h : IsRest(h, q, S) /\ Without(q, S) = h[Len(q)]
    BY RestExists
<1>3. PICK g : IsRest(g, r, S) /\ Without(r, S) = g[Len(r)]
    BY <1>1, RestExists
<1>4. /\ \A i \in 0..n : h[i] = IF i = 0 THEN <<>>
                                ELSE IF q[i] \in S THEN h[i - 1] ELSE Append(h[i - 1], q[i])
      /\ \A i \in 0..z : g[i] = IF i = 0 THEN <<>>
                                ELSE IF r[i] \in S THEN g[i - 1] ELSE Append(g[i - 1], r[i])
    BY <1>1, <1>2, <1>3 DEF IsRest
<1> HIDE DEF r
<1> DEFINE K == {k \in Nat : k <= n => g[k] = h[k]}
<1>5. 0 \in K
    BY <1>1, <1>4
<1>6. ASSUME NEW k \in Nat, k \in K PROVE k + 1 \in K
  <2> SUFFICES ASSUME k + 1 <= n PROVE g[k + 1] = h[k + 1]
      OBVIOUS
  <2> DEFINE y == k + 1
  <2>1. y \in 0..n /\ y \in 0..z /\ y # 0 /\ y - 1 = k /\ y \in 1..n /\ g[k] = h[k]
      BY <1>1, <1>6
  <2> HIDE DEF y, z, n, K
  <2> QED BY <2>1, <1>1, <1>4 DEF y
<1>7. \A k \in Nat : k \in K
  <2> HIDE DEF K
  <2>1. \A k \in Nat : k \in K => k + 1 \in K
      BY <1>6
  <2> QED BY ONLY <1>5, <2>1, SetInduction
<1>8. g[n] = h[n]
    BY <1>1, <1>7
<1>9. z \in 0..z /\ z # 0 /\ z - 1 = n
    BY <1>1
<1> HIDE DEF z, K
<1> QED BY <1>1, <1>2, <1>3, <1>8, <1>4, <1>9 DEF r

(* The same of an empty sequence.                                          *)
LEMMA WithoutEmpty ==
    ASSUME NEW S PROVE Without(<<>>, S) = <<>>
<1> DEFINE e == <<>>
           none == {}
<1>1. e \in Seq(none) /\ ToSet(e) = {}
    BY DEF ToSet
<1> HIDE DEF none, e
<1>2. Without(e, S) \in Seq(none)
    BY <1>1, WithoutFacts
<1> USE DEF none
<1> QED BY <1>2 DEF e

(* Told(c), of values: the responses that were completed in v.             *)
Firsts == [req : Msg, half : {1}, bad : BOOLEAN]
Answers(w) == [i \in DOMAIN w |-> <<w[i].req, w[i].bad>>]
Heard(v) == Answers(Without(v, Firsts))
Answer == Msg \X BOOLEAN

(* The refinement mapping is this, of the variables.                       *)
LEMMA ToldIs ==
    ASSUME NEW c
    PROVE  Told(c) = Heard(wire[c]) /\ Told(c)' = Heard(wire'[c])
BY DEF Told, Heard, Answers, Firsts

(* A first half tells nothing, a second half tells the response.           *)
LEMMA HeardAppend ==
    ASSUME NEW v \in Seq(Halved), NEW x \in Halved
    PROVE  /\ Heard(v) \in Seq(Answer)
           /\ Heard(Append(v, x)) = IF x.half = 1 THEN Heard(v)
                                    ELSE Append(Heard(v), <<x.req, x.bad>>)
<1> DEFINE w == Without(v, Firsts)
<1>1. w \in Seq(Halved)
    BY WithoutFacts
<1>2. Without(Append(v, x), Firsts) = IF x \in Firsts THEN w ELSE Append(w, x)
    BY WithoutAppend
<1>3. x \in Firsts <=> x.half = 1
    BY DEF Firsts, Halved
<1>4. Heard(v) = Answers(w)
    BY DEF Heard
<1> HIDE DEF w
<1> DEFINE f == [y \in Halved |-> <<y.req, y.bad>>]
           n == Len(w)
<1>5. f \in [Halved -> Answer] /\ f[x] = <<x.req, x.bad>>
      /\ \A y \in Halved : f[y] = <<y.req, y.bad>>
    BY DEF Answer, Halved
<1>6. /\ n \in Nat /\ DOMAIN w = 1..n /\ \A i \in 1..n : w[i] \in Halved
      /\ Len(Append(w, x)) = n + 1 /\ Append(w, x) \in Seq(Halved)
      /\ DOMAIN Append(w, x) = 1..(n + 1)
      /\ Append(w, x)[n + 1] = x /\ \A i \in 1..n : Append(w, x)[i] = w[i]
    BY <1>1
<1> HIDE DEF f, n
<1>7. Answers(w) = [i \in 1..n |-> f[w[i]]]
    BY <1>5, <1>6 DEF Answers
<1>8. Answers(w) \in Seq(Answer) /\ Len(Answers(w)) = n
    BY <1>5, <1>6, <1>7
<1>9. Answers(Append(w, x)) = Append(Answers(w), f[x])
  <2> DEFINE a == Answers(Append(w, x))
             b == Append(Answers(w), f[x])
             z == n + 1
  <2>1. a = [i \in 1..z |-> f[Append(w, x)[i]]]
    <3>1. \A i \in 1..z : Append(w, x)[i] \in Halved
        BY <1>6
    <3> HIDE DEF z
    <3> QED BY <3>1, <1>5, <1>6 DEF Answers, z
  <2>2. /\ f[x] \in Answer /\ b \in Seq(Answer) /\ Len(b) = z /\ b[z] = f[x]
        /\ \A i \in 1..n : b[i] = Answers(w)[i]
    <3> DEFINE y == f[x]
               t == Answers(w)
    <3>2. y \in Answer /\ t \in Seq(Answer) /\ Len(t) = n
        BY <1>5, <1>8
    <3> HIDE DEF y, t
    <3> QED BY <3>2, AppendProperties DEF y, t
  <2> HIDE DEF b
  <2>3. \A i \in 1..z : f[Append(w, x)[i]] = b[i]
    <3>1. \A i \in 1..z : i \in 1..n \/ i = z
        BY <1>6
    <3> HIDE DEF z
    <3> QED BY <3>1, <2>2, <1>6, <1>7 DEF z
  <2>4. b = [i \in 1..z |-> b[i]]
      BY <2>2
  <2> HIDE DEF a, z
  <2> QED BY <2>1, <2>3, <2>4 DEF a, b
<1> QED BY <1>2, <1>3, <1>4, <1>5, <1>8, <1>9 DEF Heard

(* What a client is told of a response.                                    *)
Reply(m) == <<m, msg[m].peer = "error">>

(* The halves of a response tell it.                                       *)
LEMMA HeardHalves ==
    ASSUME NEW v \in Seq(Halved), NEW m \in Msg
    PROVE  /\ Halves(m) \in Seq(Halved) /\ v \o Halves(m) \in Seq(Halved)
           /\ Heard(v \o Halves(m)) = Append(Heard(v), Reply(m))
<1> DEFINE b == msg[m].peer = "error"
           x == Half(m, 1)
           y == Half(m, 2)
           u == v \o Halves(m)
<1>1. /\ x \in Halved /\ x.half = 1 /\ y \in Halved /\ y.half = 2
      /\ <<y.req, y.bad>> = Reply(m)
  <2>1. x = [req |-> m, half |-> 1, bad |-> b] /\ y = [req |-> m, half |-> 2, bad |-> b]
      BY DEF Half
  <2>2. Reply(m) = <<m, b>>
      BY DEF Reply
  <2>3. b \in BOOLEAN
      OBVIOUS
  <2> HIDE DEF b, x, y
  <2> QED BY <2>1, <2>2, <2>3 DEF Halved
<1>2. Halves(m) = IF msg[m].cut THEN <<y>> ELSE <<x, y>>
    BY DEF Halves
<1> HIDE DEF x, y
<1>3. CASE msg[m].cut
  <2>1. u = Append(v, y)
      BY <1>1, <1>2, <1>3, ConcatFacts
  <2>3. Heard(Append(v, y)) = Append(Heard(v), <<y.req, y.bad>>)
      BY <1>1, HeardAppend
  <2> QED BY <2>1, <1>1, <1>2, <1>3, <2>3
<1>4. CASE ~msg[m].cut
  <2> DEFINE w == Append(v, x)
  <2>1. u = Append(w, y)
      BY <1>1, <1>2, <1>4, ConcatFacts
  <2>2. Halves(m) \in Seq(Halved) /\ w \in Seq(Halved) /\ Append(w, y) \in Seq(Halved)
      BY <1>1, <1>2, <1>4
  <2>3. Heard(w) = Heard(v)
      BY <1>1, HeardAppend
  <2> HIDE DEF w
  <2>4. Heard(Append(w, y)) = Append(Heard(w), <<y.req, y.bad>>)
      BY <1>1, <2>2, HeardAppend
  <2> QED BY <2>1, <2>2, <2>3, <2>4, <1>1
<1> QED BY <1>3, <1>4

(* The beginning of a sequence, one element further.                       *)
LEMMA ConcatNext ==
    ASSUME NEW T, NEW a \in Seq(T), NEW s \in Seq(T), NEW t \in Seq(T),
           Len(t) = Len(s) + 1, \A i \in 1..Len(s) : t[i] = s[i]
    PROVE  a \o t = Append(a \o s, t[Len(t)])
<1> DEFINE j == Len(s)
           y == Len(t)
           z == t[y]
<1>1. y \in Nat /\ j \in Nat /\ y = j + 1 /\ z \in T /\ z = t[y]
      /\ Len(s) = j /\ Len(t) = y /\ (\A i \in 1..j : t[i] = s[i])
    OBVIOUS
<1> HIDE DEF j, y, z
<1>4. a \o Append(s, z) = Append(a \o s, z)
    BY <1>1 DEF z
<1>5. a \o t = Append(a \o s, z)
    BY <1>1, SeqEqual, <1>4 DEF z
<1> QED BY <1>5 DEF z, y

(* What a client has been told.                                            *)
LEMMA HeardSeq ==
    ASSUME NEW w \in Seq(Halved) PROVE Heard(w) \in Seq(Answer)
<1>2. CASE Halved = {}
  <2>1. w = <<>>
      BY <1>2
  <2>2. Heard(w) = <<>>
    <3> QED BY <2>1, WithoutEmpty DEF Heard, Answers
  <2> QED BY <2>2
<1> QED BY HeardAppend, <1>2

(* The first k of the responses tell the first k of them, in order.        *)
LEMMA HeardGrows ==
    ASSUME NEW full \in Seq(Msg), NEW k \in 0..Len(full), NEW w \in Seq(Halved)
    PROVE  LET u == w \o FlattenSeq([i \in 1..k |-> Halves(full[i])])
           IN /\ u \in Seq(Halved)
              /\ Heard(u) = Heard(w) \o [i \in 1..k |-> Reply(full[i])]
<1> DEFINE s == [i \in 1..k |-> Halves(full[i])]
           f == [i \in 1..k |-> Reply(full[i])]
<1>1. /\ \A i \in 1..Len(full) : full[i] \in Msg
      /\ Len(full) \in Nat /\ k \in Nat
    BY PlaceOf
<1>2. \A i \in 1..k : i \in 1..Len(full) /\ full[i] \in Msg
    BY <1>1
<1>3. \A m \in Msg : Halves(m) \in Seq(Halved)
  <2>1. <<>> \in Seq(Halved)
      OBVIOUS
  <2> DEFINE e == <<>>
  <2> HIDE DEF e
  <2> QED BY <2>1, HeardHalves DEF e
<1>4. s \in [1..k -> Seq(Halved)]
    BY <1>2, <1>3
<1>5. \A i \in 1..k : s[i] = Halves(full[i])
    OBVIOUS
<1>a. /\ \A i \in 1..k : f[i] = Reply(full[i]) /\ f[i] \in Answer
      /\ f = [i \in 1..k |-> f[i]]
    BY <1>2 DEF Reply, Answer
<1> HIDE DEF s, f
<1>6. PICK h \in [0..k -> Seq(Halved)] :
               /\ h[0] = <<>>
               /\ \A i \in 1..k : h[i] = h[i - 1] \o s[i]
               /\ FlattenSeq(s) = h[k]
    BY <1>1, <1>4, FlattenExists
<1> DEFINE Good(j) == /\ w \o h[j] \in Seq(Halved)
                      /\ Heard(w \o h[j]) = Heard(w) \o [i \in 1..j |-> f[i]]
           K == {j \in Nat : j <= k => Good(j)}
<1>b. Heard(w) \in Seq(Answer)
    BY HeardSeq
<1>8. 0 \in K
  <2>1. w \o h[0] = w
      BY <1>6
  <2>2. [i \in 1..0 |-> f[i]] = <<>>
      OBVIOUS
  <2>3. Heard(w) \o <<>> = Heard(w)
      BY <1>b
  <2> QED BY <2>1, <2>2, <2>3
<1>9. ASSUME NEW j \in Nat, j \in K PROVE j + 1 \in K
  <2>0. j + 1 <= k => Good(j + 1)
    <3> SUFFICES ASSUME j + 1 <= k PROVE Good(j + 1)
        OBVIOUS
    <3> DEFINE i == j + 1
    <3>1. i \in 1..k /\ i \in 1..Len(full) /\ i - 1 = j /\ j \in 0..k /\ i # 0 /\ j <= k
          /\ i = j + 1 /\ i <= k
        BY <1>1
    <3>2. Good(j)
      <4> HIDE DEF Good
      <4> QED BY <3>1, <1>9
    <3> HIDE DEF i
    <3>4. /\ (w \o h[j]) \o Halves(full[i]) \in Seq(Halved)
          /\ Heard((w \o h[j]) \o Halves(full[i])) = Append(Heard(w \o h[j]), Reply(full[i]))
      <4> DEFINE v == w \o h[j]
      <4>1. v \in Seq(Halved) /\ full[i] \in Msg
          BY <3>1, <3>2, <1>2
      <4> HIDE DEF v
      <4> QED BY <4>1, HeardHalves DEF v
    <3>5. h[i] = h[j] \o Halves(full[i])
        BY <3>1, <1>5, <1>6
    <3>6. w \o h[i] = (w \o h[j]) \o Halves(full[i])
      <4> DEFINE a == h[j]
                 b == Halves(full[i])
      <4>3. a \in Seq(Halved) /\ b \in Seq(Halved)
          BY <3>1, <1>2, <1>3
      <4> HIDE DEF a, b
      <4>4. w \o (a \o b) = (w \o a) \o b
          BY ONLY <4>3, w \in Seq(Halved)
      <4>5. h[i] = a \o b
          BY <3>5 DEF a, b
      <4>6. w \o h[i] = (w \o a) \o b
          BY ONLY <4>4, <4>5
      <4> QED BY ONLY <4>6 DEF a, b
    <3>7. Heard(w) \o [x \in 1..i |-> f[x]] = Append(Heard(w) \o [x \in 1..j |-> f[x]], f[i])
      <4> HIDE DEF K
      <4> DEFINE a == [x \in 1..j |-> f[x]]
                 b == [x \in 1..i |-> f[x]]
      <4>1. /\ a \in Seq(Answer) /\ b \in Seq(Answer)
            /\ Len(b) = Len(a) + 1 /\ Len(b) = i /\ b[i] = f[i]
            /\ \A x \in 1..Len(a) : b[x] = a[x]
        <5>1. /\ \A x \in 1..j : f[x] \in Answer
              /\ \A x \in 1..i : f[x] \in Answer
              /\ i \in Nat /\ j \in Nat /\ i = j + 1
            BY <1>a, <1>1, <3>1
        <5> HIDE DEF Good
        <5> QED BY ONLY <5>1
      <4> HIDE DEF a, b
      <4>3. Heard(w) \o b = Append(Heard(w) \o a, b[Len(b)])
          BY ONLY <4>1, <1>b, ConcatNext
      <4> QED BY <4>1, <4>3 DEF a, b
    <3>9. Good(i)
        BY <3>2, <3>4, <3>6, <3>7, <1>a, <3>1
    <3> HIDE DEF Good
    <3> QED BY <3>9 DEF i
  <2> HIDE DEF Good
  <2> QED BY <2>0
<1>10. \A j \in Nat : j \in K
  <2> HIDE DEF K
  <2>1. \A j \in Nat : j \in K => j + 1 \in K
      BY <1>9
  <2> QED BY ONLY <1>8, <2>1, SetInduction
<1>11. Good(k)
  <2> HIDE DEF Good
  <2> QED BY <1>1, <1>10
<1> HIDE DEF K
<1> QED BY <1>6, <1>11, <1>a DEF s, f

(* What a write tells a client: the first k of the chain.                  *)
LEMMA HeardWritten ==
    ASSUME IInv, pc = "send", send_msgq # <<>>, NEW k \in Nat, k <= Len(Chain),
           NEW half \in BOOLEAN, half => k < Len(Chain) /\ ~msg[Chain[k + 1]].cut
    PROVE  Heard(Written(k, half)) = Heard(wire[cur]) \o [i \in 1..k |-> Reply(Chain[i])]
<1> DEFINE u == wire[cur] \o FlattenSeq([i \in 1..k |-> Halves(Chain[i])])
           v == Written(k, half)
           x == Half(Chain[k + 1], 1)
<1>1. Chain \in Seq(Msg) /\ wire[cur] \in Seq(Halved)
  <2> QED BY ChainContinues, ChainIs DEF Continues
<1>3. Len(Chain) \in Nat /\ k \in 0..Len(Chain)
    BY <1>1
<1>4. u \in Seq(Halved) /\ Heard(u) = Heard(wire[cur]) \o [i \in 1..k |-> Reply(Chain[i])]
    BY <1>1, <1>3, HeardGrows
<1>5. v = u \o IF half THEN <<x>> ELSE <<>>
    BY DEF Written
<1> HIDE DEF u, v
<1>6. CASE half
  <2>1. k + 1 \in 1..Len(Chain) /\ Chain[k + 1] \in Msg
      BY <1>1, <1>3, <1>6, PlaceOf
  <2>2. x \in Halved /\ x.half = 1
    <3> DEFINE m == Chain[k + 1]
               b == msg[m].peer = "error"
    <3>1. m \in Msg /\ b \in BOOLEAN /\ x = [req |-> m, half |-> 1, bad |-> b]
        BY <2>1 DEF Half
    <3> HIDE DEF m, b, x
    <3> QED BY <3>1 DEF Halved
  <2> HIDE DEF x
  <2>3. v = Append(u, x)
    <3> QED BY <1>5, <1>6, <2>2, <1>4, ConcatFacts
  <2> QED BY <2>3, <1>4, <2>2, HeardAppend DEF v
<1>7. CASE ~half
    BY <1>5, <1>7, <1>4 DEF v
<1> QED BY <1>6, <1>7

-----------------------------------------------------------------------------
(* The smaller elements of an increasing sequence are its beginning.       *)
LEMMA SmallerFirst ==
    ASSUME NEW a \in Seq(Msg), Increasing(a), NEW b \in Seq(Msg), Increasing(b),
           ToSet(a) \subseteq ToSet(b),
           \A x \in ToSet(b) : x \notin ToSet(a) => \A y \in ToSet(a) : y < x
    PROVE  Len(a) <= Len(b) /\ \A i \in 1..Len(a) : b[i] = a[i]
<1> DEFINE r == Without(b, ToSet(a))
           t == a \o r
<1>1. r \in Seq(Msg) /\ Increasing(r) /\ ToSet(r) = ToSet(b) \ ToSet(a)
  <2>1. Msg \subseteq Int
      BY DEF Msg
  <2> QED BY <2>1, WithoutFacts
<1> HIDE DEF r
<1>2. t \in Seq(Msg) /\ Increasing(t) /\ ToSet(t) = ToSet(b)
    BY <1>1, IncreasingConcat
<1>3. t = b
  <2>1. t \in Seq(Int) /\ b \in Seq(Int)
      BY <1>2, SeqOfInts
  <2> HIDE DEF t
  <2> QED BY <2>1, <1>2, IncreasingUnique
<1>4. /\ Len(t) = Len(a) + Len(r) /\ Len(r) \in Nat /\ Len(a) \in Nat
      /\ \A i \in 1..Len(a) : t[i] = a[i]
    BY <1>1
<1> HIDE DEF t
<1> QED BY <1>3, <1>4

(* An increasing sequence is its beginning and what is left.               *)
LEMMA RestOf ==
    ASSUME NEW a \in Seq(Msg), Increasing(a), NEW b \in Seq(Msg), Increasing(b),
           NEW r \in Seq(Msg), Increasing(r),
           Len(a) <= Len(b), \A i \in 1..Len(a) : b[i] = a[i],
           \A x \in Msg : x \in ToSet(r) <=> x \in ToSet(b) /\ x \notin ToSet(a)
    PROVE  /\ b = a \o r /\ Len(b) = Len(a) + Len(r)
           /\ \A i \in 1..Len(r) : b[i + Len(a)] = r[i]
<1> DEFINE t == a \o r
<1>1. /\ Len(a) \in Nat /\ Len(b) \in Nat
      /\ \A i \in 1..Len(b) : b[i] \in Msg /\ b[i] \in Int /\ b[i] \in ToSet(b)
      /\ \A x \in ToSet(b) : \E i \in 1..Len(b) : b[i] = x
      /\ \A x \in ToSet(a) : \E i \in 1..Len(a) : a[i] = x
      /\ \A i \in 1..Len(a) : a[i] \in ToSet(a)
      /\ ToSet(a) \subseteq Msg /\ ToSet(b) \subseteq Msg /\ ToSet(r) \subseteq Msg
  <2>1. Msg \subseteq Int
      BY DEF Msg
  <2> QED BY <2>1, PlaceOf
<1>2. \A i \in 1..Len(a) : i \in 1..Len(b)
    BY <1>1
<1>3. ToSet(a) \subseteq ToSet(b)
    BY <1>1, <1>2
<1>4. ASSUME NEW x \in ToSet(a), NEW y \in ToSet(r)
      PROVE  x < y
  <2>1. PICK i \in 1..Len(a) : a[i] = x
      BY <1>1
  <2>2. y \in ToSet(b) /\ y \notin ToSet(a)
      BY <1>1
  <2>3. PICK j \in 1..Len(b) : b[j] = y
      BY <2>2, <1>1
  <2>4. j \notin 1..Len(a)
      BY <2>2, <2>3, <1>1
  <2> QED BY <2>1, <2>3, <2>4, <1>1, <1>2 DEF Increasing
<1>5. t \in Seq(Msg) /\ Increasing(t) /\ ToSet(t) = ToSet(a) \cup ToSet(r)
    BY <1>4, IncreasingConcat
<1> HIDE DEF t
<1>7. t \in Seq(Int) /\ b \in Seq(Int)
    BY <1>5, SeqOfInts
<1>8. t = b
    BY <1>5, <1>1, <1>3, <1>7, IncreasingUnique
<1> QED BY <1>8, <1>1 DEF t

(* A fragment that is gathered has no error.                               *)
LEMMA GatheredPart ==
    ASSUME IInv, pc = "send", send_msgq # <<>>,
           NEW n \in ToSet(send_msgq), msg[n].frag_owner \notin {None, n}
    PROVE  /\ n \in Msg /\ Live(msg, n) /\ msg[n].fdone /\ ~msg[n].error
           /\ Live(msg, msg[n].frag_owner) => msg[n].frag_owner \in ToSet(send_msgq)
<1> DEFINE o == msg[n].frag_owner
           q == omsg_q[cur]
<1>1. /\ Tree(msg, nlost, nmsg) /\ OutQueues(msg, omsg_q, frag_msgq, cur, gone)
      /\ Errors(msg, send_msgq) /\ msg \in [Msg -> MsgRec]
    BY IInvIs DEF Flow
<1>2. /\ cur \in Client /\ frag_msgq = <<>>
      /\ n \in Msg /\ n \in ToSet(q) /\ Live(msg, n) /\ msg[n].done
      /\ msg[n].frag_id # None => msg[n].fdone
      /\ \A x \in ToSet(q) : x \notin ToSet(send_msgq) => \A m \in ToSet(send_msgq) : m < x
    BY ChainIs
<1>3. msg[n].frag_id = o /\ o # n /\ o # None /\ msg[n].owner = cur /\ ~msg[n].swallow
    BY <1>1, <1>2 DEF Tree, Groups, OutQueues
<1>4. Live(msg, o) => o \in ToSet(send_msgq)
  <2> SUFFICES ASSUME Live(msg, o) PROVE o \in ToSet(send_msgq)
      OBVIOUS
  <2>1. o \in Msg /\ ~msg[o].swallow /\ msg[o].owner = cur /\ o <= n
      BY <1>1, <1>2, <1>3, OwnerIs
  <2>3. o \in ToSet(q)
      BY <2>1, <1>2, <1>1 DEF OutQueues, ToSet
  <2> QED BY <2>3, <2>1, <1>2 DEF Msg
<1> QED BY <1>2, <1>3, <1>4, <1>1, OwnerIs, ChainIs DEF Errors

(* What is not empty of what is gathered: the requests.                    *)
LEMMA FullIs ==
    ASSUME IInv, Peers(msg), pc = "send", send_msgq # <<>>, NEW m \in ToSet(send_msgq)
    PROVE  Full(m) <=> msg[m].frag_owner \in {None, m}
<1> DEFINE o == msg[m].frag_owner
<1>2. Peer(msg, m)
    BY ChainIs DEF Peers
<1>3. CASE o \in {None, m}
    BY <1>2, <1>3 DEF Peer, Full
<1>4. CASE o \notin {None, m}
    BY <1>4, GatheredPart, ChainIs, <1>2 DEF Peer, Full
<1> QED BY <1>3, <1>4

(* A request that is gathered: nothing of it is left, and what the client  *)
(* is told of it says whether it failed.                                   *)
LEMMA AnsweredEntry ==
    ASSUME IInv, Peers(msg), pc = "send", send_msgq # <<>>, NEW m \in ToSet(send_msgq),
           msg[m].frag_owner \in {None, m}
    PROVE  Entry(msg, m).left = 0 /\ <<Entry(msg, m).req, Entry(msg, m).bad>> = Reply(m)
<1>1. /\ m \in Msg /\ Live(msg, m) /\ msg[m].done
      /\ msg[m].frag_id # None => msg[m].fdone
      /\ msg[m].peer = "error" \/ ~msg[m].error
      /\ \A n \in PartsOf(msg, m) : msg[n].fdone /\ ~msg[n].error
    BY ChainIs
<1>3. msg[m].frag_id = msg[m].frag_owner /\ (msg[m].ferror => msg[m].peer = "error")
    BY <1>1, IInvIs DEF Tree, Groups, Flags, Flow
<1>6. Failing(msg, m) <=> msg[m].peer = "error"
    BY <1>1, <1>3 DEF Failing, Peer, Peers
<1> DEFINE a == Failing(msg, m)
           b == msg[m].peer = "error"
<1>7. a \in BOOLEAN /\ b \in BOOLEAN /\ (a <=> b)
    BY <1>6 DEF Failing
<1>8. Reply(m) = <<m, b>> /\ Entry(msg, m).req = m /\ Entry(msg, m).bad = a
      /\ Entry(msg, m).left = 0
    BY <1>1, <1>3 DEF Reply, Entry, PartsLeft
<1> HIDE DEF a, b
<1> QED BY <1>8, <1>7

(* What a write frees, seen by what is left: the entries and the peers.    *)
LEMMA WriteKeeps ==
    ASSUME IInv, Peers(msg), pc = "send", send_msgq # <<>>,
           NEW S, S \subseteq ToSet(send_msgq), NEW y \in Msg, NEW half \in BOOLEAN,
           NEW new, new = IF half THEN CutOff(Removed(msg, S, {}), y) ELSE Removed(msg, S, {})
    PROVE  /\ Peers(new)
           /\ \A x \in Msg : x \notin S => /\ Entry(new, x) = Entry(msg, x)
                                           /\ new[x].frag_owner = msg[x].frag_owner
<1> DEFINE none == {}
           rem == Removed(msg, S, none)
<1>1. msg \in [Msg -> MsgRec]
    BY IInvIs
<1>2. \A n \in S : n \in ToSet(send_msgq) /\ n \in Msg /\ Live(msg, n)
    BY ChainIs
<1>3. ASSUME NEW x \in Msg, NEW n \in PartsOf(msg, x), n \in S
      PROVE  ~msg[n].error
    BY <1>1, MessageTypes, <1>2, <1>3, GatheredPart DEF PartsOf
<1>4. ASSUME NEW x \in Msg, x \notin S, Live(msg, x), msg[x].fdone,
             msg[x].frag_owner \notin {None, x},
             msg[x].frag_owner \in S \/ \E n \in PartsOf(msg, msg[x].frag_owner) :
                                            n \in S /\ msg[n].error
      PROVE  msg[x].peer = "empty"
  <2> DEFINE o == msg[x].frag_owner
  <2>2. o \in S
      BY <1>1, <1>4, MessageTypes, <1>3
  <2>4. Peer(msg, x)
      BY <1>4 DEF Peers
  <2> QED BY <2>2, <1>2, ChainIs, <2>4, <1>4 DEF Peer
<1> HIDE DEF none
<1>5. Peers(rem) /\ rem \in [Msg -> MsgRec]
    BY <1>4, <1>1, RemovedPeers, RemovedFields
<1>6. ASSUME NEW x \in Msg, x \notin S
      PROVE  Entry(rem, x) = Entry(msg, x)
    BY <1>1, <1>3, <1>6, RemovedEntries
<1>7. \A x \in Msg : x \notin S => rem[x].frag_owner = msg[x].frag_owner
  <2>1. \A x \in Msg : x \notin S => rem[x] = IF x \in none THEN [msg[x] EXCEPT !.swallow = TRUE]
                                              ELSE msg[x]
      BY DEF Removed
  <2> HIDE DEF rem
  <2> QED BY <2>1 DEF none
<1>8. new = IF half THEN CutOff(rem, y) ELSE rem
    BY DEF none
<1> HIDE DEF rem
<1>9. CASE half
  <2>1. new = CutOff(rem, y)
      BY <1>8, <1>9
  <2>3. \A x \in Msg : new[x].frag_owner = rem[x].frag_owner
      BY <1>5, <2>1 DEF MsgRec, CutOff
  <2> QED BY <2>1, <1>5, CutPeers, CutEntries, <2>3, <1>6, <1>7
<1>10. CASE ~half
    BY <1>5, <1>6, <1>7, <1>8, <1>10
<1> QED BY <1>9, <1>10

(* What is left open of a client when the first k of the chain are freed.  *)
LEMMA AnsweredTodo ==
    ASSUME IInv, IInv', Peers(msg), pc = "send", send_msgq # <<>>, NEW k \in Nat,
           k <= Len(Chain), NEW c \in Client, c = cur, HeadsNext(c) = HeadsOf(c) \ SentWhole(Chain, k),
           \A x \in HeadsNext(c) : Entry(msg', x) = Entry(msg, x)
    PROVE  /\ Todo(c)' = SubSeq(Todo(c), k + 1, Len(Todo(c)))
           /\ k <= Len(Todo(c)) /\ Len(Todo(c)) \in Nat
           /\ DOMAIN Todo(c) = 1..Len(Todo(c))
           /\ k = 0 => Todo(c)' = Todo(c)
           /\ \A i \in 1..k : /\ Todo(c)[i].left = 0
                              /\ <<Todo(c)[i].req, Todo(c)[i].bad>> = Reply(Chain[i])
<1> DEFINE b == AskedBefore(c)
           r == AskedAfter(c)
           S == SentWhole(Chain, k)
           n == Len(b)
<1>1. /\ frag_msgq = <<>>
      /\ Chain \in Seq(Msg) /\ Increasing(Chain)
      /\ ToSet(Chain) = {m \in ToSet(send_msgq) : Full(m)}
      /\ \A m \in ToSet(send_msgq) : m \in Msg /\ m \in ToSet(omsg_q[c])
      /\ \A x \in ToSet(omsg_q[c]) :
                 x \notin ToSet(send_msgq) => \A m \in ToSet(send_msgq) : m < x
    BY ChainIs
<1>2. /\ Todo(c) = Entries(msg, b) /\ Todo(c)' = Entries(msg', r)
      /\ b \in Seq(Msg) /\ Increasing(b) /\ ToSet(b) = HeadsOf(c)
      /\ r \in Seq(Msg) /\ Increasing(r) /\ ToSet(r) = HeadsNext(c)
    BY BothAsked
<1>3. /\ S \subseteq ToSet(send_msgq)
      /\ \A x \in S : Full(x) => \E j \in 1..k : Chain[j] = x
      /\ \A j \in 1..k : Chain[j] \in S
    BY SentIs
<1> HIDE DEF b, r, S
<1>4. HeadsOf(c) = {x \in ToSet(omsg_q[c]) : msg[x].frag_owner \in {None, x}}
  <2> QED BY <1>1 DEF HeadsOf, Heads, ToSet
<1>5. ToSet(Chain) = HeadsOf(c) \cap ToSet(send_msgq)
    BY <1>1, <1>4, FullIs
<1>6. Len(Chain) <= n /\ \A i \in 1..Len(Chain) : b[i] = Chain[i]
    BY <1>1, <1>2, <1>4, <1>5, SmallerFirst
<1>7. /\ n \in Nat /\ Len(Chain) \in Nat /\ k <= n
      /\ \A i \in 1..k : i \in 1..Len(Chain) /\ b[i] = Chain[i] /\ Chain[i] \in ToSet(Chain)
      /\ \A i \in 1..n : b[i] \in Msg /\ b[i] \in ToSet(b)
      /\ DOMAIN b = 1..n /\ DOMAIN r = 1..Len(r) /\ Len(r) \in Nat
      /\ \A i \in 1..Len(r) : r[i] \in Msg /\ r[i] \in ToSet(r)
  <2>1. /\ n \in Nat /\ Len(Chain) \in Nat
        /\ \A i \in 1..n : b[i] \in Msg /\ b[i] \in ToSet(b)
        /\ DOMAIN b = 1..n /\ DOMAIN r = 1..Len(r) /\ Len(r) \in Nat
        /\ \A i \in 1..Len(r) : r[i] \in Msg /\ r[i] \in ToSet(r)
        /\ \A i \in 1..Len(Chain) : Chain[i] \in ToSet(Chain)
      BY <1>1, <1>2, PlaceOf
  <2>2. \A i \in 1..k : i \in 1..Len(Chain)
      BY <2>1
  <2> HIDE DEF n
  <2> QED BY <2>1, <2>2, <1>6
<1>8. Len(r) = n - k /\ \A i \in 1..(n - k) : r[i] = b[i + k]
  <2> DEFINE a == SubSeq(Chain, 1, k)
  <2>0. a \in Seq(Msg) /\ Len(a) = k /\ \A i \in 1..k : a[i] = Chain[i]
    <3>1. CASE k = 0
      <4> QED BY <3>1, <1>1
    <3>2. CASE k # 0
        BY <3>2, <1>1, <1>7
    <3> QED BY <3>1, <3>2
  <2> HIDE DEF a
  <2>1. Increasing(a)
      BY <1>1, <1>7, <2>0 DEF Increasing
  <2>2. \A x : x \in ToSet(a) <=> \E j \in 1..k : Chain[j] = x
      BY <2>0, PlaceOf
  <2>3. \A x \in Msg : x \in ToSet(r) <=> x \in ToSet(b) /\ x \notin ToSet(a)
      BY <1>2, <2>2, <1>3, <1>4, FullIs DEF S
  <2>4. Len(a) <= Len(b) /\ \A i \in 1..Len(a) : b[i] = a[i]
      BY <2>0, <1>7
  <2> HIDE DEF n
  <2>5. Len(b) = Len(a) + Len(r) /\ \A i \in 1..Len(r) : b[i + Len(a)] = r[i]
      BY ONLY <2>0, <2>1, <2>3, <2>4, <1>2, RestOf
  <2> QED BY <2>0, <2>5, <1>7 DEF n
<1> HIDE DEF n
<1>9. /\ Todo(c) = [i \in 1..n |-> Entry(msg, b[i])]
      /\ Todo(c)' = [i \in 1..(n - k) |-> Entry(msg', r[i])]
    BY <1>2, <1>7, <1>8 DEF Entries
<1>10. Todo(c)' = [i \in 1..(n - k) |-> Entry(msg, b[i + k])]
    BY <1>2, <1>7, <1>8, <1>9
<1>11. \A i \in 1..k : /\ Todo(c)[i].left = 0
                       /\ <<Todo(c)[i].req, Todo(c)[i].bad>> = Reply(Chain[i])
  <2> SUFFICES ASSUME NEW i \in 1..k
        PROVE  /\ Todo(c)[i].left = 0
               /\ <<Todo(c)[i].req, Todo(c)[i].bad>> = Reply(Chain[i])
      OBVIOUS
  <2>1. i \in 1..n /\ Chain[i] \in ToSet(send_msgq) /\ Chain[i] \in HeadsOf(c)
      BY <1>5, <1>7
  <2>4. /\ Entry(msg, Chain[i]).left = 0
        /\ <<Entry(msg, Chain[i]).req, Entry(msg, Chain[i]).bad>> = Reply(Chain[i])
      BY <2>1, <1>4, AnsweredEntry
  <2> QED BY <2>1, <1>7, <1>9, <2>4
<1>13. SubSeq(Todo(c), k + 1, n) = [i \in 1..(n - k) |-> Entry(msg, b[i + k])]
  <2> DEFINE t == Todo(c)
             f == [i \in 1..n |-> Entry(msg, b[i])]
  <2>2. n - (k + 1) + 1 = n - k /\ \A i \in 1..(n - k) : (k + 1) + i - 1 = i + k /\ i + k \in 1..n
      BY <1>7
  <2>3. SubSeq(t, k + 1, n) = [i \in 1..(n - k) |-> t[i + k]]
      BY <1>7, <2>2
  <2>4. \A i \in 1..(n - k) : t[i + k] = Entry(msg, b[i + k])
      BY <2>2, <1>9
  <2> HIDE DEF t
  <2> QED BY <2>3, <2>4 DEF t
<1>14. k = 0 => Todo(c)' = Todo(c)
  <2> SUFFICES ASSUME k = 0 PROVE Todo(c)' = Todo(c)
      OBVIOUS
  <2> QED BY <1>7, <1>9, <1>10
<1> QED BY <1>7, <1>10, <1>11, <1>9, <1>13, <1>14

(* A write tells the client the first k of its requests, in order, each    *)
(* settled (SendChain).                                                    *)
LEMMA SendChainShown ==
    ASSUME IInv, IInv', Peers(msg), NEW k \in 0..MaxMsg, NEW half \in BOOLEAN, SendChain(k, half)
    PROVE  Shown /\ Peers(msg')
<1> DEFINE S == SentWhole(Chain, k)
           new == Removed(msg, S, {})
           z == Chain[k + 1]
<1>1. /\ pc = "send" /\ send_msgq # <<>> /\ k \in Nat /\ k <= Len(Chain)
      /\ half => k < Len(Chain) /\ ~msg[z].cut
      /\ msg' = IF half THEN CutOff(new, z) ELSE new
      /\ omsg_q' = [omsg_q EXCEPT ![cur] = Without(@, S)]
      /\ wire' = [wire EXCEPT ![cur] = Written(k, half)]
      /\ UNCHANGED <<frag_msgq>>
    BY SendChainIs
<1>2. PICK c \in Client : c = cur
    BY <1>1, ChainIs
<1>3. /\ frag_msgq = <<>> /\ omsg_q[c] \in Seq(Msg) /\ Chain \in Seq(Msg)
      /\ \A m \in ToSet(send_msgq) : m \in Msg /\ m \in ToSet(omsg_q[c])
    BY <1>1, <1>2, ChainIs
<1>4. /\ S \subseteq ToSet(send_msgq) /\ S \subseteq Msg
      /\ ToSet(Without(omsg_q[c], S)) = ToSet(omsg_q[c]) \ S
    BY <1>1, <1>2, SentIs
<1>5. /\ omsg_q \in [Client -> Seq(Msg)] /\ wire \in [Client -> Seq(Halved)]
      /\ OutQueues(msg, omsg_q, <<>>, cur, gone)
    BY <1>3, IInvIs DEF Flow, OnWire, Halved
<1> HIDE DEF S
<1>6. /\ Peers(msg')
      /\ \A x \in Msg : x \notin S => /\ Entry(msg', x) = Entry(msg, x)
                                      /\ msg'[x].frag_owner = msg[x].frag_owner
  <2>1. PICK y \in Msg : msg' = IF half THEN CutOff(new, y) ELSE new
    <3>1. CASE half
      <4>2. z \in Msg
          BY <3>1, <1>1, <1>3, PlaceOf
      <4> HIDE DEF z
      <4> QED BY <4>2, <1>1
    <3>2. CASE ~half
        BY IInvIs, <1>1, PlaceOf, <1>3, <3>2
    <3> QED BY <3>1, <3>2
  <2> HIDE DEF z
  <2>2. S \subseteq ToSet(send_msgq) /\ pc = "send" /\ send_msgq # <<>> /\ half \in BOOLEAN
      BY <1>1, <1>4
  <2> DEFINE mg == msg'
  <2>3. mg = IF half THEN CutOff(Removed(msg, S, {}), y) ELSE Removed(msg, S, {})
      BY <2>1
  <2> HIDE DEF mg
  <2> QED BY <2>2, <2>3, WriteKeeps DEF mg
<1>7. ASSUME NEW d \in Client
      PROVE  /\ HeadsNext(d) = IF d = c THEN HeadsOf(c) \ S ELSE HeadsOf(d)
             /\ \A x \in HeadsNext(d) : Entry(msg', x) = Entry(msg, x)
  <2>2. /\ HeadsNext(d) = {x \in ToSet(omsg_q'[d]) : msg'[x].frag_owner \in {None, x}}
        /\ HeadsOf(d) = {x \in ToSet(omsg_q[d]) : msg[x].frag_owner \in {None, x}}
      BY <1>1, <1>3 DEF HeadsNext, HeadsOf, Heads, ToSet
  <2>3. ToSet(omsg_q[d]) \subseteq Msg
    <3> QED BY <1>5, PlaceOf
  <2>4. ToSet(omsg_q'[d]) = IF d = c THEN ToSet(omsg_q[d]) \ S ELSE ToSet(omsg_q[d])
      BY <1>1, <1>2, <1>4, <1>5
  <2>5. d # c => \A x \in ToSet(omsg_q[d]) : x \notin S
    <3> SUFFICES ASSUME NEW x \in ToSet(omsg_q[d]), x \in S PROVE d = c
        OBVIOUS
    <3>2. \A e \in Client : \A m \in ToSet(omsg_q[e]) : msg[m].owner = e
        BY <1>5 DEF OutQueues
    <3>3. msg[x].owner = c /\ msg[x].owner = d
        BY <1>3, <1>4, <3>2
    <3> QED BY <3>3
  <2>6. \A x \in ToSet(omsg_q'[d]) : x \in Msg /\ x \notin S
      BY <2>3, <2>4, <2>5
  <2>7. HeadsNext(d) = {x \in ToSet(omsg_q'[d]) : msg[x].frag_owner \in {None, x}}
      BY <2>2, <2>6, <1>6
  <2>8. \A x \in HeadsNext(d) : Entry(msg', x) = Entry(msg, x)
      BY <2>6, <2>7, <1>6
  <2>9. CASE d = c
      BY <2>2, <2>4, <2>7, <2>8, <2>9
  <2>10. CASE d # c
      BY <2>2, <2>4, <2>7, <2>8, <2>10
  <2> QED BY <2>9, <2>10
<1>8. /\ Todo(c)' = SubSeq(Todo(c), k + 1, Len(Todo(c)))
      /\ k <= Len(Todo(c)) /\ Len(Todo(c)) \in Nat
      /\ DOMAIN Todo(c) = 1..Len(Todo(c))
      /\ k = 0 => Todo(c)' = Todo(c)
      /\ \A i \in 1..k : /\ Todo(c)[i].left = 0
                         /\ <<Todo(c)[i].req, Todo(c)[i].bad>> = Reply(Chain[i])
    BY <1>7, <1>1, <1>2, AnsweredTodo DEF S
<1>9. Same({c})
  <2> SUFFICES ASSUME NEW d \in Client, d # c PROVE Todo(d)' = Todo(d)
      BY DEF Same
  <2> QED BY <1>7, TodoSame
<1>10. Heard(wire'[c]) = Heard(wire[c]) \o [i \in 1..k |-> Reply(Chain[i])]
    BY <1>1, HeardWritten, <1>2, <1>5
<1>11. \A d \in Client : d # c => Told(d)' = Told(d)
    BY <1>1, <1>2, <1>5, ToldIs
<1>12. Told(c)' = Told(c) \o [i \in 1..k |-> <<Todo(c)[i].req, Todo(c)[i].bad>>]
    BY <1>8, <1>10, ToldIs
<1>13. CASE k = 0
  <2>1. Heard(wire[c]) \in Seq(Answer)
    <3> QED BY <1>5, HeardSeq
  <2>3. Heard(wire'[c]) = Heard(wire[c])
      BY <2>1, <1>13, <1>10
  <2>5. Same({})
      BY <1>8, <1>9, <1>13 DEF Same
  <2> QED BY <2>3, <1>11, ToldIs, <2>5, <1>6, StutterStep DEF Shown, TellNone
<1>14. CASE k # 0
  <2>1. k \in DOMAIN Todo(c)
      BY <1>1, <1>8, <1>14
  <2>3. Gathered!Next
      BY <2>1, <1>8, <1>9, <1>11, <1>12, AnswerStep
  <2> QED BY <2>3, <1>6 DEF Shown
<1> QED BY <1>13, <1>14

(* In the beginning nothing is open and nothing is told.                   *)
LEMMA InitShown == Init => Gathered!Init /\ Peers(msg)
<1> SUFFICES ASSUME Init PROVE Gathered!Init /\ Peers(msg)
    OBVIOUS
<1>1. /\ msg = [m \in Msg |-> NoMsg] /\ omsg_q = [c \in Client |-> <<>>]
      /\ frag_msgq = <<>> /\ cur = None /\ wire = [c \in Client |-> <<>>]
    BY DEF Init
<1>3. ASSUME NEW c \in Client PROVE Todo(c) = <<>> /\ Told(c) = <<>>
  <2>1. Line(omsg_q, frag_msgq, cur, c) = <<>>
    <3> QED BY <1>1, FragmentsAssumption DEF Line
  <2>2. Asked(msg, Line(omsg_q, frag_msgq, cur, c)) = <<>>
      BY <2>1, WithoutEmpty DEF Asked
  <2>3. Todo(c) = <<>>
    <3>1. <<>> \in Seq(Msg)
        OBVIOUS
    <3>3. Entries(msg, <<>>) = <<>>
        BY DEF Entries
    <3> QED BY <3>1, <2>2, TodoIs, <3>3
  <2>5. Without(wire[c], Firsts) = <<>>
      BY <1>1, WithoutEmpty
  <2> QED BY <2>3, <2>5, ToldIs DEF Heard, Answers
<1> QED BY <1>1, <1>3 DEF Gathered!Init, NoMsg, Live, Peers

(* No server, or no connection to one (ForwardNowhere).                    *)
LEMMA NowhereShown ==
    ASSUME IInv, IInv', Peers(msg), ForwardNowhere
    PROVE  Gathered!Next /\ Peers(msg')
<1> DEFINE counted == TRUE
           m == Head(frag_msgq)
<1>1. /\ pc = "forward" /\ NextForward
      /\ m \in Msg /\ Live(msg, m) /\ ~msg[m].done /\ ~msg[m].swallow
      /\ msg' = Coalesced(Settled(msg, m, TRUE, msg[m].peer, counted), Append(omsg_q[cur], m), 1)
    BY NowhereIs
<1>2. counted \in BOOLEAN
    OBVIOUS
<1> HIDE DEF counted
<1> QED BY <1>1, <1>2, FailShown

(* An event or an authentication that fails (ForwardUnwritable).           *)
LEMMA UnwritableShown ==
    ASSUME IInv, IInv', Peers(msg), ForwardUnwritable
    PROVE  Gathered!Next /\ Peers(msg')
<1> DEFINE counted == FALSE
           m == Head(frag_msgq)
<1>1. /\ pc = "forward" /\ NextForward
      /\ m \in Msg /\ Live(msg, m) /\ ~msg[m].done /\ ~msg[m].swallow
      /\ msg' = Coalesced(Settled(msg, m, TRUE, msg[m].peer, counted), Append(omsg_q[cur], m), 1)
    BY UnwritableIs
<1>2. counted \in BOOLEAN
    OBVIOUS
<1> HIDE DEF counted
<1> QED BY <1>1, <1>2, FailShown

(* Steps between the handlers (core_send, server_close, and what ends      *)
(* rsp_send_next).                                                         *)
LEMMA LoopShown ==
    ASSUME IInv, IInv', Peers(msg), pc # "forward", UNCHANGED <<msg, omsg_q, frag_msgq, wire>>
    PROVE  UNCHANGED Gathered!vars /\ Peers(msg')
<1> QED BY IInvIs, IdleShown DEF Places

(* Every step is one of Gather, or none.                                   *)
LEMMA NextShown ==
    IInv /\ IInv' /\ Peers(msg) /\ [Next]_vars => [Gathered!Next]_(Gathered!vars) /\ Peers(msg)'
<1> SUFFICES ASSUME IInv, IInv', Peers(msg), [Next]_vars
             PROVE  Shown /\ Peers(msg')
    BY DEF Shown
<1>1. ASSUME NEW c \in Client, ReceivePlain(c) PROVE Shown /\ Peers(msg')
    BY <1>1, PlainShown DEF Shown
<1>2. ASSUME NEW c \in Client, NEW p \in 1..MaxParts, ReceiveSplit(c, p)
      PROVE  Shown /\ Peers(msg')
    BY <1>2, SplitShown DEF Shown
<1>3. ASSUME NEW c \in Client, client_close(c) PROVE Shown /\ Peers(msg')
    BY <1>3, ClientCloseShown DEF Shown
<1>4. ASSUME NEW c \in Client, core_send(c) PROVE Shown /\ Peers(msg')
    BY <1>4, LoopShown DEF core_send, Shown
<1>5. ASSUME NEW s \in Server, req_forward(s) PROVE Shown /\ Peers(msg')
    BY <1>5, ForwardShown DEF Shown
<1>6. ASSUME NEW s \in Server, rsp_filter_swallow(s) PROVE Shown /\ Peers(msg')
    BY <1>6, SwallowShown DEF Shown
<1>7. ASSUME NEW s \in Server, server_close(s) PROVE Shown /\ Peers(msg')
    BY <1>7, LoopShown DEF server_close, Shown
<1>8. ASSUME NEW s \in Server, ServerReplies(s) PROVE Shown /\ Peers(msg')
  <2> DEFINE failed == FALSE
  <2>1. rsp_forward(s, failed) /\ failed \in BOOLEAN
      BY <1>8 DEF ServerReplies
  <2> HIDE DEF failed
  <2> QED BY <2>1, ResponseShown DEF Shown
<1>9. ASSUME NEW s \in Server, ServerRepliesError(s) PROVE Shown /\ Peers(msg')
  <2> DEFINE failed == TRUE
  <2>1. rsp_forward(s, failed) /\ failed \in BOOLEAN
      BY <1>9 DEF ServerRepliesError
  <2> HIDE DEF failed
  <2> QED BY <2>1, ResponseShown DEF Shown
<1>10. CASE ForwardNowhere
    BY <1>10, NowhereShown DEF Shown
<1>11. CASE ForwardUnwritable
    BY <1>11, UnwritableShown DEF Shown
<1>12. CASE rsp_send_next
    BY <1>12, SendNextShown DEF Shown
<1>13. CASE rsp_send_next_empty
    BY <1>13, LoopShown DEF rsp_send_next_empty, Crash, Shown
<1>14. CASE rsp_send_next_wait
    BY <1>14, LoopShown DEF rsp_send_next_wait, Shown
<1>15. ASSUME NEW k \in 0..MaxMsg, NEW half \in BOOLEAN, SendChain(k, half)
       PROVE  Shown /\ Peers(msg')
    BY <1>15, SendChainShown
<1>16. CASE UNCHANGED vars
    BY <1>16, BothAsked, ToldIs, StutterStep DEF vars, AskedBefore, AskedAfter,
      Same, TellNone, Shown
<1> QED
    BY <1>1, <1>2, <1>3, <1>4, <1>5, <1>6, <1>7, <1>8, <1>9, <1>10, <1>11, <1>12, <1>13, <1>14,
       <1>15, <1>16 DEF Next

(* Fragments implements Gather for any clients, servers and bounds.        *)
THEOREM FragmentsImplementGather == Spec => ImplementsGather
<1>2. IInv /\ IInv' /\ Peers(msg) /\ [Next]_vars
        => [Gathered!Next]_(Gathered!vars) /\ Peers(msg)'
    BY NextShown
<1> QED
    BY InitShown, <1>2, FragmentsInvariant, PTL DEF Spec, ImplementsGather,
      Gathered!Spec

=============================================================================
