---------------------------- MODULE StreamProofs ----------------------------
(***************************************************************************)
(* Proofs about Stream, for any lengths of requests, any chunk size and    *)
(* any number of buffers to a writev.                                      *)
(*                                                                         *)
(* The argument: byte n of the stream is the number n, so a buffer of the  *)
(* bytes after a up to b is Run(a, b) and places in the stream say what    *)
(* every buffer holds.  imsg_q is requests that follow each other, request *)
(* k of the bytes after q[k - 1] up to q[k], written up to w (Queued);     *)
(* what is being received begins where the last of them ends (Reads); what *)
(* was written is Run(0, w).  Receiving, parsing, splitting and repairing  *)
(* move the places of one message (Held); a writev takes buffers that      *)
(* chain from w on, so its bytes follow those that were written, and the   *)
(* messages it frees are the first of the queue.  What is recursive in     *)
(* the model (FlattenSeq, Sum, Chosen) is reasoned about by induction over *)
(* sets of numbers.                                                        *)
(***************************************************************************)
EXTENDS Stream, FiniteSetTheorems, SequenceTheorems, WellFoundedInduction, TLAPS

(* Induction over the numbers, by a set: what holds of 0 and of the        *)
(* successor of what it holds of holds of all.                             *)
LEMMA SetInduction ==
    ASSUME NEW G, 0 \in G, \A n \in Nat : n \in G => n + 1 \in G
    PROVE  \A n \in Nat : n \in G
<1> DEFINE T == {n \in Nat : n \notin G}
           R == OpToRel(LAMBDA x, y : x < y, Nat)
<1> SUFFICES ASSUME T # {} PROVE FALSE
    OBVIOUS
<1>1. IsWellFoundedOn(R, Nat)
    BY NatLessThanWellFounded DEF OpToRel
<1>2. PICK x \in T : \A y \in T : <<y, x>> \notin R
  <2>1. T \subseteq Nat /\ T # {}
      OBVIOUS
  <2> HIDE DEF T, R
  <2> QED BY <1>1, <2>1, WFMin
<1>3. x # 0 /\ x \in Nat /\ x \notin G
    OBVIOUS
<1>4. x - 1 \in Nat /\ x - 1 < x /\ (x - 1) + 1 = x
    BY <1>3
<1>5. x - 1 \in G
  <2> SUFFICES ASSUME x - 1 \notin G PROVE FALSE
      OBVIOUS
  <2>1. x - 1 \in T
      BY <1>4
  <2>2. <<x - 1, x>>[1] = x - 1 /\ <<x - 1, x>>[2] = x /\ <<x - 1, x>> \in Nat \X Nat
      BY <1>3, <1>4
  <2>3. <<x - 1, x>> \notin R
      BY <1>2, <2>1
  <2> QED BY <1>4, <2>2, <2>3 DEF OpToRel
<1> QED
    BY <1>3, <1>4, <1>5

(* A function computed number by number, each value from the one before:   *)
(* there is one.                                                           *)
StepFun(n, V) == [1..n -> [V -> V]]
Computes(h, n, V, b, F) == /\ h \in [0..n -> V] /\ h[0] = b
                           /\ \A i \in 1..n : h[i] = F[i][h[i - 1]]

(* A value that is reached in n steps, each from the one before: the       *)
(* function of the values there are on the way.                            *)
LEMMA StepsExist ==
    ASSUME NEW n, n \in Nat, NEW V, NEW b, b \in V, NEW F, F \in StepFun(n, V)
    PROVE  \E h : Computes(h, n, V, b, F)
<1>0. F \in [1..n -> [V -> V]]
    BY DEF StepFun
<1> DEFINE G == {k \in Nat : k <= n => \E h \in [0..n -> V] :
                     h[0] = b /\ \A i \in 1..k : h[i] = F[i][h[i - 1]]}
<1>1. 0 \in G
  <2> DEFINE h == [i \in 0..n |-> b]
  <2>1. h \in [0..n -> V] /\ h[0] = b /\ \A i \in 1..0 : h[i] = F[i][h[i - 1]]
      OBVIOUS
  <2> HIDE DEF h
  <2> QED BY <2>1
<1>2. ASSUME NEW k \in Nat, k \in G PROVE k + 1 \in G
  <2> SUFFICES ASSUME k + 1 <= n
               PROVE  \E h \in [0..n -> V] :
                         h[0] = b /\ \A i \in 1..(k + 1) : h[i] = F[i][h[i - 1]]
      OBVIOUS
  <2>1. PICK h \in [0..n -> V] : h[0] = b /\ \A i \in 1..k : h[i] = F[i][h[i - 1]]
      BY <1>2
  <2> DEFINE g == [h EXCEPT ![k + 1] = F[k + 1][h[k]]]
  <2>2. F[k + 1][h[k]] \in V
      BY <1>0
  <2>3. g \in [0..n -> V] /\ g[0] = b
      BY <2>1, <2>2
  <2>4. ASSUME NEW i \in 1..(k + 1) PROVE g[i] = F[i][g[i - 1]]
    <3>1. CASE i = k + 1
      <4>1. g[k + 1] = F[k + 1][h[k]] /\ g[k] = h[k]
          BY <2>1
      <4>2. i - 1 = k
          BY <3>1
      <4> HIDE DEF g
      <4> QED BY <3>1, <4>1, <4>2
    <3>2. CASE i # k + 1
      <4>1. i \in 1..k /\ i - 1 \in 0..n /\ i - 1 # k + 1 /\ i \in 0..n
          BY <3>2
      <4>2. g[i] = h[i] /\ g[i - 1] = h[i - 1]
          BY <3>2, <4>1
      <4> HIDE DEF g
      <4> QED BY <2>1, <4>1, <4>2
    <3> QED BY <3>1, <3>2
  <2> HIDE DEF g
  <2> QED BY <2>3, <2>4
<1>3. \A k \in Nat : k \in G
  <2> HIDE DEF G
  <2>1. \A k \in Nat : k \in G => k + 1 \in G
      BY <1>2
  <2> QED BY ONLY <1>1, <2>1, SetInduction
<1>4. n \in G
    BY <1>3
<1>5. PICK h \in [0..n -> V] : h[0] = b /\ \A i \in 1..n : h[i] = F[i][h[i - 1]]
    BY <1>4
<1>6. Computes(h, n, V, b, F)
    BY <1>5 DEF Computes
<1> QED
    BY ONLY <1>6

(* The function FlattenSeq is computed by.                                 *)
IsFlat(g, s) == g = [i \in 1..Len(s) |-> IF i = 1 THEN s[i] ELSE g[i - 1] \o s[i]]

(* FlattenSeq adds its sequences one after the other.                      *)
LEMMA FlattenExists ==
    ASSUME NEW T, NEW n \in Nat, NEW s \in [1..n -> Seq(T)]
    PROVE  \E h \in [0..n -> Seq(T)] :
               /\ h[0] = <<>>
               /\ \A i \in 1..n : h[i] = h[i - 1] \o s[i]
               /\ FlattenSeq(s) = h[n]
<1> DEFINE F == [i \in 1..n |-> [v \in Seq(T) |-> v \o s[i]]]
           V == Seq(T)
           b == <<>>
           g == CHOOSE g : IsFlat(g, s)
<1>1. s \in Seq(V) /\ Len(s) = n
    OBVIOUS
<1>2. b \in V /\ F \in StepFun(n, V)
  <2>1. ASSUME NEW i \in 1..n, NEW v \in Seq(T) PROVE v \o s[i] \in Seq(T)
      OBVIOUS
  <2> QED BY <2>1 DEF StepFun
<1>3. PICK h : Computes(h, n, V, b, F)
  <2> HIDE DEF F, V, b
  <2> QED BY ONLY <1>2, n \in Nat, StepsExist
<1>4. /\ h \in [0..n -> Seq(T)] /\ h[0] = <<>>
      /\ \A i \in 1..n : h[i] = h[i - 1] \o s[i]
  <2>1. h \in [0..n -> V] /\ h[0] = b /\ \A i \in 1..n : h[i] = F[i][h[i - 1]]
    <3> HIDE DEF F, V, b
    <3> QED BY <1>3 DEF Computes
  <2>2. ASSUME NEW i \in 1..n PROVE h[i] = h[i - 1] \o s[i]
    <3>1. h[i - 1] \in Seq(T)
        BY <2>1
    <3>2. h[i] = F[i][h[i - 1]]
        BY <2>1
    <3> HIDE DEF g
    <3> QED BY <3>1, <3>2
  <2> QED BY <2>1, <2>2
<1>5. n = 0 => FlattenSeq(s) = h[n]
  <2> SUFFICES ASSUME n = 0 PROVE FlattenSeq(s) = h[n]
      OBVIOUS
  <2>1. s = <<>>
      BY <1>1
  <2>2. FlattenSeq(s) = s
      BY <1>1 DEF FlattenSeq
  <2> QED BY <2>1, <2>2, <1>4
<1>6. n # 0 => FlattenSeq(s) = g[n]
  <2> SUFFICES ASSUME n # 0 PROVE FlattenSeq(s) = g[n]
      OBVIOUS
  <2> QED BY <1>1 DEF FlattenSeq, IsFlat
<1> HIDE DEF F, V, b
<1>7. IsFlat([i \in 1..n |-> h[i]], s)
  <2> DEFINE f == [i \in 1..n |-> h[i]]
  <2>1. ASSUME NEW i \in 1..n PROVE f[i] = IF i = 1 THEN s[i] ELSE f[i - 1] \o s[i]
    <3>1. CASE i = 1
      <4>0. 1 \in 1..n /\ 1 - 1 = 0
          BY <3>1
      <4>1. h[1] = h[0] \o s[1]
        <5>1. h[1] = h[1 - 1] \o s[1]
            BY <4>0, <1>4
        <5> QED BY <5>1, <4>0
      <4>2. s[1] \in Seq(T)
          BY <3>1
      <4>3. <<>> \o s[1] = s[1]
          BY <4>2
      <4> QED BY <3>1, <4>1, <4>3, <1>4
    <3>2. CASE i # 1
      <4>1. i - 1 \in 1..n
          BY <3>2
      <4> QED BY <3>2, <4>1, <1>4
    <3> QED BY <3>1, <3>2
  <2>2. f = [i \in 1..n |-> IF i = 1 THEN s[i] ELSE f[i - 1] \o s[i]]
      BY <2>1
  <2> QED BY <2>2, <1>1 DEF IsFlat
<1>8. IsFlat(g, s)
    BY <1>7
<1> HIDE DEF g
<1>9. \A i \in 1..n : g[i] = IF i = 1 THEN s[i] ELSE g[i - 1] \o s[i]
    BY <1>1, <1>8 DEF IsFlat
<1> DEFINE K == {j \in Nat : j >= 1 /\ j <= n => g[j] = h[j]}
<1>10. 0 \in K
    OBVIOUS
<1>11. ASSUME NEW j \in Nat, j \in K PROVE j + 1 \in K
  <2> SUFFICES ASSUME j + 1 <= n PROVE g[j + 1] = h[j + 1]
      OBVIOUS
  <2>1. j + 1 \in 1..n /\ (j + 1) - 1 = j
      OBVIOUS
  <2>2. CASE j = 0
    <3>1. s[1] \in Seq(T)
        BY <2>1, <2>2
    <3>2. <<>> \o s[1] = s[1]
        BY <3>1
    <3>0. 1 \in 1..n /\ 1 - 1 = 0
        BY <2>1, <2>2
    <3>3. g[1] = s[1] /\ h[1] = h[0] \o s[1]
      <4>1. h[1] = h[1 - 1] \o s[1]
          BY <3>0, <1>4
      <4> QED BY <4>1, <3>0, <1>9
    <3> QED BY <2>2, <3>2, <3>3, <1>4
  <2>3. CASE j # 0
    <3> DEFINE i == j + 1
    <3>1. g[j] = h[j] /\ i # 1 /\ i \in 1..n /\ i - 1 = j
        BY <1>11, <2>1, <2>3
    <3> HIDE DEF i
    <3>2. h[i] = h[i - 1] \o s[i]
        BY <3>1, <1>4
    <3>3. g[i] = g[i - 1] \o s[i]
        BY <3>1, <1>9
    <3>4. g[i] = h[i]
        BY <3>1, <3>2, <3>3
    <3> QED BY <3>4 DEF i
  <2> QED BY <2>2, <2>3
<1>12. \A j \in Nat : j \in K
  <2> HIDE DEF K
  <2>1. \A j \in Nat : j \in K => j + 1 \in K
      BY <1>11
  <2> QED BY ONLY <1>10, <2>1, SetInduction
<1>13. n # 0 => g[n] = h[n]
    BY <1>12
<1>14. FlattenSeq(s) = h[n]
    BY <1>5, <1>6, <1>13
<1> QED
    BY <1>4, <1>14

(* The function Sum is computed by.                                        *)
IsSum(g, s) == g = [i \in 0..Len(s) |-> IF i = 0 THEN 0 ELSE g[i - 1] + s[i]]

(* Sum adds the numbers one after the other.                               *)
LEMMA SumExists ==
    ASSUME NEW n \in Nat, NEW s \in [1..n -> Nat]
    PROVE  \E g \in [0..n -> Nat] :
               /\ g[0] = 0
               /\ \A i \in 1..n : g[i] = g[i - 1] + s[i]
               /\ Sum(s) = g[n]
<1> DEFINE F == [i \in 1..n |-> [v \in Nat |-> v + s[i]]]
           V == Nat
           b == 0
           g == CHOOSE g : IsSum(g, s)
<1>1. Len(s) = n
    OBVIOUS
<1>2. b \in V /\ F \in StepFun(n, V)
    BY DEF StepFun
<1>3. PICK h : Computes(h, n, V, b, F)
  <2> HIDE DEF F, V, b
  <2> QED BY ONLY <1>2, n \in Nat, StepsExist
<1>4. h \in [0..n -> V] /\ h[0] = b /\ \A i \in 1..n : h[i] = F[i][h[i - 1]]
  <2> HIDE DEF F, V, b
  <2> QED BY <1>3 DEF Computes
<1>5. ASSUME NEW i \in 1..n PROVE h[i] = h[i - 1] + s[i]
  <2> HIDE DEF g
  <2>1. h[i - 1] \in Nat
      BY <1>4
  <2>2. h[i] = F[i][h[i - 1]]
      BY <1>4
  <2> QED BY <2>1, <2>2
<1>6. IsSum(h, s)
  <2> HIDE DEF g, F
  <2>1. \A i \in 0..n : h[i] = IF i = 0 THEN 0 ELSE h[i - 1] + s[i]
      BY <1>4, <1>5
  <2> QED BY <1>1, <1>4, <2>1 DEF IsSum
<1>7. Sum(s) = g[n] /\ IsSum(g, s)
    BY <1>1, <1>6 DEF Sum, IsSum
<1> HIDE DEF F, V, b, g
<1>8. \A i \in 0..n : g[i] = IF i = 0 THEN 0 ELSE g[i - 1] + s[i]
    BY <1>1, <1>7 DEF IsSum
<1>d. g = [i \in 0..n |-> g[i]]
    BY <1>1, <1>7 DEF IsSum
<1> DEFINE K == {j \in Nat : j <= n => g[j] \in Nat}
<1>9. 0 \in K
    BY <1>8
<1>10. ASSUME NEW j \in Nat, j \in K PROVE j + 1 \in K
  <2> SUFFICES ASSUME j + 1 <= n PROVE g[j + 1] \in Nat
      OBVIOUS
  <2>1. j + 1 \in 0..n /\ j + 1 # 0 /\ (j + 1) - 1 = j /\ g[j] \in Nat /\ s[j + 1] \in Nat
      BY <1>10
  <2> QED BY <2>1, <1>8
<1>11. \A j \in Nat : j \in K
  <2> HIDE DEF K
  <2>1. \A j \in Nat : j \in K => j + 1 \in K
      BY <1>10
  <2> QED BY ONLY <1>9, <2>1, SetInduction
<1>12. g \in [0..n -> Nat]
    BY <1>11, <1>d
<1>13. g[0] = 0 /\ \A i \in 1..n : g[i] = g[i - 1] + s[i]
    BY <1>8
<1> QED BY <1>7, <1>12, <1>13

(* The function Chosen is computed by.                                     *)
IsChosen(g, s, I) ==
    g = [i \in 0..Len(s) |-> IF i = 0 THEN <<>>
                             ELSE IF i \in I THEN Append(g[i - 1], s[i]) ELSE g[i - 1]]

(* The steps by which Chosen takes its elements, one after the other.      *)
Chooses(g, s, I, n, T) ==
    /\ g \in [0..n -> Seq(T)] /\ g[0] = <<>> /\ Chosen(s, I) = g[n]
    /\ \A i \in 1..n : g[i] = IF i \in I THEN Append(g[i - 1], s[i]) ELSE g[i - 1]

(* The steps of Chosen exist.                                              *)
LEMMA ChosenExists ==
    ASSUME NEW T, NEW n \in Nat, NEW s \in [1..n -> T], NEW I
    PROVE  \E g : Chooses(g, s, I, n, T)
<1> DEFINE F == [i \in 1..n |-> [v \in Seq(T) |-> IF i \in I THEN Append(v, s[i]) ELSE v]]
           V == Seq(T)
           b == <<>>
           g == CHOOSE g : IsChosen(g, s, I)
<1>1. Len(s) = n
    OBVIOUS
<1>2. b \in V /\ F \in StepFun(n, V)
  <2>1. ASSUME NEW i \in 1..n, NEW v \in Seq(T)
        PROVE (IF i \in I THEN Append(v, s[i]) ELSE v) \in Seq(T)
      BY AppendProperties
  <2> QED BY <2>1 DEF StepFun
<1>3. PICK h : Computes(h, n, V, b, F)
  <2> HIDE DEF F, V, b
  <2> QED BY ONLY <1>2, n \in Nat, StepsExist
<1>4. h \in [0..n -> V] /\ h[0] = b /\ \A i \in 1..n : h[i] = F[i][h[i - 1]]
  <2> HIDE DEF F, V, b
  <2> QED BY <1>3 DEF Computes
<1>5. ASSUME NEW i \in 1..n
      PROVE  h[i] = IF i \in I THEN Append(h[i - 1], s[i]) ELSE h[i - 1]
  <2> HIDE DEF g
  <2>1. h[i - 1] \in Seq(T)
      BY <1>4
  <2>2. h[i] = F[i][h[i - 1]]
      BY <1>4
  <2> QED BY <2>1, <2>2
<1>6. IsChosen(h, s, I)
  <2> HIDE DEF g, F
  <2>1. ASSUME NEW i \in 0..n
        PROVE  h[i] = IF i = 0 THEN <<>>
                      ELSE IF i \in I THEN Append(h[i - 1], s[i]) ELSE h[i - 1]
    <3>1. CASE i = 0
        BY <3>1, <1>4
    <3>2. CASE i # 0
      <4>1. i \in 1..n
          BY <3>2
      <4> QED BY <3>2, <4>1, <1>5
    <3> QED BY <3>1, <3>2
  <2> QED BY <1>1, <1>4, <2>1 DEF IsChosen
<1>7. Chosen(s, I) = g[n] /\ IsChosen(g, s, I)
    BY <1>1, <1>6 DEF Chosen, IsChosen
<1> HIDE DEF F, V, b, g
<1>8. \A i \in 0..n : g[i] = IF i = 0 THEN <<>>
                              ELSE IF i \in I THEN Append(g[i - 1], s[i]) ELSE g[i - 1]
    BY <1>1, <1>7 DEF IsChosen
<1>d. g = [i \in 0..n |-> g[i]]
    BY <1>1, <1>7 DEF IsChosen
<1> DEFINE K == {j \in Nat : j <= n => g[j] \in Seq(T)}
<1>9. 0 \in K
  <2>1. g[0] = <<>> /\ <<>> \in Seq(T)
      BY <1>8
  <2> QED BY <2>1
<1>10. ASSUME NEW j \in Nat, j \in K PROVE j + 1 \in K
  <2> SUFFICES ASSUME j + 1 <= n PROVE g[j + 1] \in Seq(T)
      OBVIOUS
  <2> DEFINE i == j + 1
  <2>1. i \in 0..n /\ i # 0 /\ i - 1 = j /\ g[j] \in Seq(T) /\ s[i] \in T
      BY <1>10
  <2> HIDE DEF i
  <2>2. Append(g[j], s[i]) \in Seq(T)
      BY <2>1, AppendProperties
  <2>3. g[i] = IF i \in I THEN Append(g[j], s[i]) ELSE g[j]
      BY <2>1, <1>8
  <2>4. g[i] \in Seq(T)
      BY <2>1, <2>2, <2>3
  <2> QED BY <2>4 DEF i
<1>11. \A j \in Nat : j \in K
  <2> HIDE DEF K
  <2>1. \A j \in Nat : j \in K => j + 1 \in K
      BY <1>10
  <2> QED BY ONLY <1>9, <2>1, SetInduction
<1>12. g \in [0..n -> Seq(T)]
    BY <1>11, <1>d
<1>13. g[0] = <<>> /\ \A i \in 1..n : g[i] = IF i \in I THEN Append(g[i - 1], s[i]) ELSE g[i - 1]
    BY <1>8
<1> QED BY <1>7, <1>12, <1>13 DEF Chooses

-----------------------------------------------------------------------------
(* The bytes after a up to b.                                              *)
Run(a, b) == [i \in 1..(b - a) |-> a + i]

(* The bytes of a run.                                                     *)
LEMMA RunFacts ==
    ASSUME NEW a \in Nat, NEW b \in Nat, a <= b
    PROVE  /\ Run(a, b) \in Seq(Nat) /\ Len(Run(a, b)) = b - a
           /\ DOMAIN Run(a, b) = 1..(b - a)
           /\ \A i \in 1..(b - a) : Run(a, b)[i] = a + i
           /\ Run(a, b) = <<>> <=> a = b
           /\ a < b => Run(a, b)[1] = a + 1 /\ Last(Run(a, b)) = b
<1> DEFINE n == b - a
<1>1. n \in Nat /\ \A i \in 1..n : a + i \in Nat
    OBVIOUS
<1>2. /\ Run(a, b) \in Seq(Nat) /\ Len(Run(a, b)) = n /\ DOMAIN Run(a, b) = 1..n
      /\ \A i \in 1..n : Run(a, b)[i] = a + i
    BY <1>1 DEF Run
<1>3. Run(a, b) = <<>> <=> n = 0
    BY <1>1, <1>2, EmptySeq
<1>4. ASSUME a < b PROVE Run(a, b)[1] = a + 1 /\ Last(Run(a, b)) = b
  <2>1. 1 \in 1..n /\ n \in 1..n /\ a + n = b
      BY <1>4
  <2> HIDE DEF n
  <2> QED BY <2>1, <1>2 DEF Last
<1> QED BY <1>1, <1>2, <1>3, <1>4

(* A run and the one after it are one.                                     *)
LEMMA RunJoin ==
    ASSUME NEW a \in Nat, NEW b \in Nat, NEW c \in Nat, a <= b, b <= c
    PROVE  Run(a, b) \o Run(b, c) = Run(a, c)
<1> DEFINE p == Run(a, b)
           q == Run(b, c)
           r == Run(a, c)
<1>1. /\ p \in Seq(Nat) /\ Len(p) = b - a /\ \A i \in 1..(b - a) : p[i] = a + i
      /\ q \in Seq(Nat) /\ Len(q) = c - b /\ \A i \in 1..(c - b) : q[i] = b + i
      /\ r \in Seq(Nat) /\ Len(r) = c - a /\ \A i \in 1..(c - a) : r[i] = a + i
  <2>1. p \in Seq(Nat) /\ Len(p) = b - a /\ \A i \in 1..(b - a) : p[i] = a + i
      BY RunFacts
  <2>2. q \in Seq(Nat) /\ Len(q) = c - b /\ \A i \in 1..(c - b) : q[i] = b + i
      BY RunFacts
  <2>3. a <= c
      OBVIOUS
  <2>4. r \in Seq(Nat) /\ Len(r) = c - a /\ \A i \in 1..(c - a) : r[i] = a + i
      BY <2>3, RunFacts
  <2> HIDE DEF p, q, r
  <2> QED BY <2>1, <2>2, <2>4
<1> HIDE DEF p, q, r
<1>2. /\ p \o q \in Seq(Nat) /\ Len(p \o q) = Len(p) + Len(q)
      /\ \A i \in 1..(Len(p) + Len(q)) :
            (p \o q)[i] = IF i <= Len(p) THEN p[i] ELSE q[i - Len(p)]
    BY <1>1, ConcatProperties
<1>3. Len(p \o q) = Len(r)
    BY <1>1, <1>2
<1>4. ASSUME NEW i \in 1..Len(r) PROVE (p \o q)[i] = r[i]
  <2>1. i \in 1..(c - a) /\ i \in 1..(Len(p) + Len(q)) /\ r[i] = a + i
      BY <1>1
  <2>2. CASE i <= b - a
    <3>1. i \in 1..(b - a) /\ (p \o q)[i] = p[i]
        BY <1>1, <1>2, <2>1, <2>2
    <3> QED BY <1>1, <2>1, <3>1
  <2>3. CASE ~(i <= b - a)
    <3> DEFINE j == i - (b - a)
    <3>1. j \in 1..(c - b) /\ b + j = a + i
        BY <2>1, <2>3
    <3>2. (p \o q)[i] = q[j]
        BY <1>1, <1>2, <2>1, <2>3
    <3> HIDE DEF j
    <3> QED BY <1>1, <2>1, <3>1, <3>2
  <2> QED BY <2>2, <2>3
<1>5. p \o q = r
    BY <1>1, <1>2, <1>3, <1>4, SeqEqual
<1> QED BY <1>5 DEF p, q, r

(* The elements i to j of s, a name the provers do not take apart.         *)
Slice(s, i, j) == SubSeq(s, i, j)

(* A part of a run.                                                        *)
LEMMA RunPart ==
    ASSUME NEW a \in Nat, NEW c \in Nat, a <= c,
           NEW x \in Nat, NEW y \in Nat, x <= y, y <= c - a,
           NEW z, z = x + 1, NEW u, u = a + x, NEW v, v = a + y
    PROVE  Slice(Run(a, c), z, y) = Run(u, v)
<1> DEFINE r == Run(a, c)
           t == SubSeq(r, z, y)
           w == Run(u, v)
<1>1. /\ r \in Seq(Nat) /\ Len(r) = c - a /\ \A i \in 1..(c - a) : r[i] = a + i
    BY RunFacts
<1>2. u \in Nat /\ v \in Nat /\ u <= v /\ v - u = y - x
    OBVIOUS
<1>3. w \in Seq(Nat) /\ Len(w) = y - x /\ \A i \in 1..(y - x) : w[i] = u + i
  <2>1. Len(w) = v - u /\ \A i \in 1..(v - u) : w[i] = u + i
      BY <1>2, RunFacts
  <2> QED BY <1>2, <2>1, RunFacts
<1>4. t = [i \in 1..(y - x) |-> r[z + i - 1]]
  <2> HIDE DEF r
  <2>1. y - z + 1 = y - x
      OBVIOUS
  <2>2. t = [i \in 1..(y - z + 1) |-> r[z + i - 1]]
      BY <1>1
  <2> QED BY <2>1, <2>2
<1>5. ASSUME NEW i \in 1..(y - x) PROVE r[z + i - 1] = w[i]
  <2> DEFINE k == z + i - 1
  <2>1. k \in 1..(c - a) /\ a + k = u + i
      OBVIOUS
  <2> HIDE DEF k, w, r
  <2> QED BY <1>1, <1>3, <2>1 DEF k
<1>6. w = [i \in 1..(y - x) |-> w[i]]
  <2> HIDE DEF w
  <2> QED BY <1>3
<1>7. t = w
  <2> HIDE DEF w, t, r
  <2> QED BY <1>4, <1>5, <1>6
<1> QED BY <1>2, <1>7 DEF Slice

-----------------------------------------------------------------------------
(* Places that follow each other.                                          *)
Rises(c, n) == c \in [0..n -> Nat] /\ \A i \in 1..n : c[i - 1] <= c[i]

(* Places that follow each other are in order.                             *)
LEMMA RisesAll ==
    ASSUME NEW n \in Nat, NEW c, Rises(c, n)
    PROVE  \A i, j \in 0..n : i <= j => c[i] <= c[j]
<1> DEFINE K == {k \in Nat : k <= n => \A i \in 0..k : c[i] <= c[k]}
<1>0. c \in [0..n -> Nat] /\ \A i \in 1..n : c[i - 1] <= c[i]
    BY DEF Rises
<1>1. 0 \in K
    BY <1>0
<1>2. ASSUME NEW k \in Nat, k \in K PROVE k + 1 \in K
  <2> DEFINE y == k + 1
  <2> SUFFICES ASSUME y <= n, NEW i \in 0..y PROVE c[i] <= c[y]
      OBVIOUS
  <2>1. y \in 1..n /\ y - 1 = k /\ y \in 0..n /\ k \in 0..n /\ k <= n /\ i \in 0..n
      OBVIOUS
  <2>2. c[k] <= c[y] /\ c[k] \in Nat /\ c[y] \in Nat /\ c[i] \in Nat
    <3> HIDE DEF y
    <3> QED BY <1>0, <2>1
  <2>3. CASE i = y
      BY <2>2, <2>3
  <2>4. CASE i # y
    <3>1. i \in 0..k
        BY <2>4
    <3>2. c[i] <= c[k]
        BY <3>1, <2>1, <1>2
    <3> HIDE DEF y
    <3> QED BY <2>2, <3>2
  <2> QED BY <2>3, <2>4
<1>3. \A k \in Nat : k \in K
  <2> HIDE DEF K
  <2>1. \A k \in Nat : k \in K => k + 1 \in K
      BY <1>2
  <2> QED BY ONLY <1>1, <2>1, SetInduction
<1> QED
  <2> TAKE i, j \in 0..n
  <2> HAVE i <= j
  <2>1. j \in Nat /\ j \in K /\ j <= n /\ i \in 0..j
      BY <1>3
  <2> QED BY <2>1

(* Runs that follow each other are one.                                    *)
LEMMA FlattenRuns ==
    ASSUME NEW n \in Nat, NEW c, Rises(c, n), NEW s,
           s = [i \in 1..n |-> Run(c[i - 1], c[i])]
    PROVE  FlattenSeq(s) = Run(c[0], c[n])
<1>0. c \in [0..n -> Nat] /\ \A i \in 1..n : c[i - 1] <= c[i]
    BY DEF Rises
<1>1. s \in [1..n -> Seq(Nat)]
  <2>1. ASSUME NEW i \in 1..n PROVE Run(c[i - 1], c[i]) \in Seq(Nat)
    <3>1. c[i - 1] \in Nat /\ c[i] \in Nat /\ c[i - 1] <= c[i]
        BY <1>0
    <3> QED BY <3>1, RunFacts
  <2> QED BY <2>1
<1>2. PICK h \in [0..n -> Seq(Nat)] :
          /\ h[0] = <<>>
          /\ \A i \in 1..n : h[i] = h[i - 1] \o s[i]
          /\ FlattenSeq(s) = h[n]
  <2> DEFINE T == Nat
  <2>1. s \in [1..n -> Seq(T)]
      BY <1>1
  <2> HIDE DEF T
  <2>2. \E h \in [0..n -> Seq(T)] :
            /\ h[0] = <<>>
            /\ \A i \in 1..n : h[i] = h[i - 1] \o s[i]
            /\ FlattenSeq(s) = h[n]
      BY ONLY <2>1, n \in Nat, FlattenExists
  <2> QED BY <2>2 DEF T
<1> DEFINE K == {k \in Nat : k <= n => h[k] = Run(c[0], c[k])}
<1>3. 0 \in K
  <2>1. PICK z : z = c[0] /\ z \in Nat /\ z <= z
      BY <1>0
  <2>2. Run(z, z) = <<>>
      BY <2>1, RunFacts
  <2> QED BY <2>1, <2>2, <1>2
<1>4. ASSUME NEW k \in Nat, k \in K PROVE k + 1 \in K
  <2> SUFFICES ASSUME k + 1 <= n PROVE h[k + 1] = Run(c[0], c[k + 1])
      OBVIOUS
  <2> DEFINE y == k + 1
  <2>1. y \in 1..n /\ y - 1 = k /\ 0 \in 0..n /\ k \in 0..n /\ y \in 0..n /\ k <= n /\ 0 <= k
      OBVIOUS
  <2>2. h[k] = Run(c[0], c[k])
      BY <1>4, <2>1
  <2> HIDE DEF y
  <2>3. h[y] = h[k] \o s[y] /\ s[y] = Run(c[k], c[y])
      BY <1>2, <2>1
  <2>4. c[0] \in Nat /\ c[k] \in Nat /\ c[y] \in Nat /\ c[k] <= c[y]
      BY <1>0, <2>1
  <2>5. c[0] <= c[k]
      BY <2>1, RisesAll
  <2>6. h[y] = Run(c[0], c[y])
    <3>1. Run(c[0], c[k]) \o Run(c[k], c[y]) = Run(c[0], c[y])
        BY <2>4, <2>5, RunJoin
    <3> QED BY <2>2, <2>3, <3>1
  <2> QED BY <2>6 DEF y
<1>5. \A k \in Nat : k \in K
  <2> HIDE DEF K
  <2>1. \A k \in Nat : k \in K => k + 1 \in K
      BY <1>4
  <2> QED BY ONLY <1>3, <2>1, SetInduction
<1> QED BY <1>2, <1>5

(* Gaps that follow each other add up.                                     *)
LEMMA SumGaps ==
    ASSUME NEW n \in Nat, NEW c, Rises(c, n), NEW s,
           s = [i \in 1..n |-> c[i] - c[i - 1]]
    PROVE  Sum(s) = c[n] - c[0]
<1>0. c \in [0..n -> Nat] /\ \A i \in 1..n : c[i - 1] <= c[i]
    BY DEF Rises
<1>1. s \in [1..n -> Nat]
  <2>1. ASSUME NEW i \in 1..n PROVE c[i] - c[i - 1] \in Nat
    <3>1. c[i - 1] \in Nat /\ c[i] \in Nat /\ c[i - 1] <= c[i]
        BY <1>0
    <3> QED BY <3>1
  <2> QED BY <2>1
<1>2. PICK h \in [0..n -> Nat] :
          /\ h[0] = 0
          /\ \A i \in 1..n : h[i] = h[i - 1] + s[i]
          /\ Sum(s) = h[n]
    BY <1>1, SumExists
<1> DEFINE K == {k \in Nat : k <= n => h[k] = c[k] - c[0]}
<1>3. 0 \in K
  <2>1. c[0] \in Nat
      BY <1>0
  <2> QED BY <2>1, <1>2
<1>4. ASSUME NEW k \in Nat, k \in K PROVE k + 1 \in K
  <2> SUFFICES ASSUME k + 1 <= n PROVE h[k + 1] = c[k + 1] - c[0]
      OBVIOUS
  <2> DEFINE y == k + 1
  <2>1. y \in 1..n /\ y - 1 = k /\ 0 \in 0..n /\ k \in 0..n /\ y \in 0..n /\ k <= n
      OBVIOUS
  <2>2. h[k] = c[k] - c[0]
      BY <1>4, <2>1
  <2> HIDE DEF y
  <2>3. h[y] = h[k] + s[y] /\ s[y] = c[y] - c[k]
      BY <1>2, <2>1
  <2>4. c[0] \in Nat /\ c[k] \in Nat /\ c[y] \in Nat
      BY <1>0, <2>1
  <2>6. h[y] = c[y] - c[0]
      BY <2>2, <2>3, <2>4
  <2> QED BY <2>6 DEF y
<1>5. \A k \in Nat : k \in K
  <2> HIDE DEF K
  <2>1. \A k \in Nat : k \in K => k + 1 \in K
      BY <1>4
  <2> QED BY ONLY <1>3, <2>1, SetInduction
<1> QED BY <1>2, <1>5

-----------------------------------------------------------------------------
(* The later of two places.                                                *)
Top(x, p) == IF x < p THEN p ELSE x

(* Message m holds the bytes after a up to b, buffer i those up to e[i],   *)
(* and what is up to p was written out.                                    *)
MessageIs(m, a, p, b, e) ==
    /\ m \in Message
    /\ Rises(e, Len(m.mhdr)) /\ e[0] = a /\ e[Len(m.mhdr)] = b
    /\ p \in Nat /\ a <= p /\ p <= b /\ m.mlen = b - a
    /\ \A i \in 1..Len(m.mhdr) :
          /\ m.mhdr[i].data = Run(e[i - 1], e[i])
          /\ e[i] - e[i - 1] <= CHUNK
          /\ m.mhdr[i].pos = Clip(p - e[i - 1], e[i] - e[i - 1])

(* What is written of a buffer, and what is left.                          *)
LEMMA ClipFacts ==
    ASSUME NEW x \in Nat, NEW y \in Nat, x <= y, NEW p \in Nat,
           NEW g, g = p - x, NEW n, n = y - x, NEW k, k = Clip(g, n)
    PROVE  /\ k \in Nat /\ n \in Nat /\ k <= n /\ x + n = y
           /\ n - k = Top(y, p) - Top(x, p)
           /\ Top(x, p) \in Nat /\ Top(y, p) \in Nat /\ Top(x, p) <= Top(y, p)
           /\ p <= x => Top(x, p) = x /\ Top(y, p) = y /\ k = 0
           /\ x <= p /\ p <= y => Top(x, p) = p /\ Top(y, p) = y /\ x + k = p
           /\ y <= p => Top(x, p) = p /\ Top(y, p) = p /\ x + k = y
BY DEF Clip, Top

(* What was written before and what is written now are what was written    *)
(* after, of a buffer.                                                     *)
LEMMA ClipMore ==
    ASSUME NEW x \in Nat, NEW y \in Nat, x <= y, NEW p \in Nat, NEW n \in Nat,
           NEW g, g = p - x, NEW j, j = y - x, NEW h, h = (p + n) - x,
           NEW f, f = n - (Top(x, p) - p), NEW d, d = Top(y, p) - Top(x, p)
    PROVE  Clip(g, j) + Clip(f, d) = Clip(h, j)
BY DEF Clip, Top

(* More bytes than a message has write no more of its buffers.             *)
LEMMA ClipOver ==
    ASSUME NEW x \in Nat, NEW y \in Nat, x <= y, NEW b \in Nat, y <= b, NEW n \in Nat, b <= n,
           NEW g, g = n - x, NEW h, h = b - x, NEW j, j = y - x
    PROVE  Clip(g, j) = Clip(h, j)
BY DEF Clip

(* What is left of a buffer after part of it was written.                  *)
LEMMA SliceRun ==
    ASSUME NEW x \in Nat, NEW y \in Nat, x <= y, NEW p \in Nat,
           NEW g, g = p - x, NEW n, n = y - x, NEW k, k = Clip(g, n), NEW z, z = k + 1
    PROVE  Slice(Run(x, y), z, n) = Run(Top(x, p), Top(y, p))
<1>1. /\ k \in Nat /\ k <= n /\ n \in Nat /\ x + n = y
      /\ p <= x => Top(x, p) = x /\ Top(y, p) = y /\ k = 0
      /\ x <= p /\ p <= y => Top(x, p) = p /\ Top(y, p) = y /\ x + k = p
      /\ y <= p => Top(x, p) = p /\ Top(y, p) = p /\ x + k = y
    BY DEF Clip, Top
<1>3. Slice(Run(x, y), z, n) = Run(x + k, y)
  <2>0. n <= y - x /\ y = x + n
      BY <1>1
  <2>1. PICK u : u = x + k
      OBVIOUS
  <2>2. Slice(Run(x, y), z, n) = Run(u, y)
    <3>1. x \in Nat /\ y \in Nat /\ k \in Nat /\ n \in Nat
        BY <1>1
    <3>2. x <= y /\ k <= n /\ n <= y - x
        BY <1>1, <2>0
    <3>3. z = k + 1 /\ u = x + k /\ y = x + n
        BY <1>1, <2>1
    <3> QED BY ONLY <3>1, <3>2, <3>3, RunPart
  <2> QED BY <2>1, <2>2
<1>4. CASE p <= y
  <2>1. x + k = Top(x, p) /\ y = Top(y, p)
      BY <1>1, <1>4
  <2> QED BY <1>3, <2>1
<1>5. CASE ~(p <= y)
  <2>1. x + k = y /\ Top(x, p) = p /\ Top(y, p) = p
      BY <1>1, <1>5
  <2>2. Run(y, y) = <<>> /\ Run(p, p) = <<>>
    <3>1. y <= y /\ p <= p
        OBVIOUS
    <3> QED BY <3>1, RunFacts
  <2> QED BY <1>3, <2>1, <2>2
<1> QED BY <1>4, <1>5

(* Nothing lies between places that are all the same.                      *)
LEMMA SamePlace ==
    ASSUME NEW n \in Nat, NEW c, Rises(c, n), \A i \in 1..n : c[i] = c[i - 1]
    PROVE  c[n] = c[0]
<1> DEFINE K == {k \in Nat : k <= n => c[k] = c[0]}
<1>1. 0 \in K
    OBVIOUS
<1>2. ASSUME NEW k \in Nat, k \in K PROVE k + 1 \in K
  <2> DEFINE y == k + 1
  <2> SUFFICES ASSUME y <= n PROVE c[y] = c[0]
      OBVIOUS
  <2>1. y \in 1..n /\ y - 1 = k /\ c[k] = c[0]
      BY <1>2
  <2> HIDE DEF y
  <2> QED BY <2>1
<1>3. \A k \in Nat : k \in K
  <2> HIDE DEF K
  <2>1. \A k \in Nat : k \in K => k + 1 \in K
      BY <1>2
  <2> QED BY ONLY <1>1, <2>1, SetInduction
<1> QED BY <1>3

(* The parts of MessageIs, buffer by buffer.                               *)
LEMMA BufferIs ==
    ASSUME NEW m, NEW a, NEW p, NEW b, NEW e, MessageIs(m, a, p, b, e),
           NEW i \in 1..Len(m.mhdr)
    PROVE  /\ e[i - 1] \in Nat /\ e[i] \in Nat /\ e[i - 1] <= e[i] /\ e[i] <= b
           /\ a <= e[i - 1] /\ p \in Nat
           /\ m.mhdr[i] \in Mbuf /\ e[i] - e[i - 1] <= CHUNK
           /\ m.mhdr[i].data = Run(e[i - 1], e[i])
           /\ Len(m.mhdr[i].data) = e[i] - e[i - 1]
           /\ m.mhdr[i].pos = Clip(p - e[i - 1], e[i] - e[i - 1])
           /\ mbuf_length(m.mhdr[i]) = Top(e[i], p) - Top(e[i - 1], p)
<1> DEFINE n == Len(m.mhdr)
<1>1. /\ m.mhdr \in Seq(Mbuf) /\ n \in Nat /\ Rises(e, n) /\ p \in Nat
      /\ e \in [0..n -> Nat] /\ e[0] = a /\ e[n] = b
      /\ \A j \in 1..n : /\ m.mhdr[j].data = Run(e[j - 1], e[j])
                         /\ e[j] - e[j - 1] <= CHUNK
                         /\ m.mhdr[j].pos = Clip(p - e[j - 1], e[j] - e[j - 1])
    BY DEF MessageIs, Message, Rises
<1> HIDE DEF n
<1>2. i \in 0..n /\ i - 1 \in 0..n /\ i \in 1..n /\ 0 \in 0..n /\ n \in 0..n
      /\ 0 <= i - 1 /\ i <= n /\ i - 1 <= i
    BY <1>1 DEF n
<1> DEFINE x == e[i - 1]
           y == e[i]
<1>3. x \in Nat /\ y \in Nat /\ x <= y /\ y <= b /\ a <= x
    BY <1>1, <1>2, RisesAll
<1>4. m.mhdr[i] \in Mbuf
    BY <1>1, <1>2 DEF n
<1>5. m.mhdr[i].data = Run(x, y) /\ y - x <= CHUNK /\ m.mhdr[i].pos = Clip(p - x, y - x)
    BY <1>1, <1>2
<1> HIDE DEF x, y
<1>6. Len(m.mhdr[i].data) = y - x
    BY <1>3, <1>5, RunFacts
<1>7. mbuf_length(m.mhdr[i]) = Top(y, p) - Top(x, p)
  <2>1. PICK g, j, k : g = p - x /\ j = y - x /\ k = Clip(g, j)
      OBVIOUS
  <2>2. j - k = Top(y, p) - Top(x, p)
      BY <2>1, <1>1, <1>3, ClipFacts
  <2> QED BY <1>5, <1>6, <2>1, <2>2 DEF mbuf_length
<1> QED BY <1>1, <1>3, <1>4, <1>5, <1>6, <1>7 DEF x, y

(* Where the bytes still to be written end, buffer by buffer.              *)
LeftOf(m, p, e) == [i \in 0..Len(m.mhdr) |-> Top(e[i], p)]

(* The places where bytes are still to be written follow each other.       *)
LEMMA LeftRises ==
    ASSUME NEW m, NEW a, NEW p, NEW b, NEW e, MessageIs(m, a, p, b, e), NEW c, c = LeftOf(m, p, e)
    PROVE  /\ Len(m.mhdr) \in Nat
           /\ Rises(c, Len(m.mhdr)) /\ c[0] = p /\ c[Len(m.mhdr)] = b
           /\ \A i \in 1..Len(m.mhdr) : mbuf_length(m.mhdr[i]) = c[i] - c[i - 1]
           /\ p \in Nat /\ a \in Nat /\ b \in Nat /\ a <= p /\ p <= b
           /\ Rises(e, Len(m.mhdr)) /\ e[0] = a /\ e[Len(m.mhdr)] = b
<1> DEFINE n == Len(m.mhdr)
<1>1. /\ n \in Nat /\ Rises(e, n) /\ p \in Nat
      /\ e \in [0..n -> Nat] /\ e[0] = a /\ e[n] = b /\ a <= p /\ p <= b
    BY DEF MessageIs, Message, Rises
<1>2. ASSUME NEW i \in 0..n PROVE Top(e[i], p) \in Nat
    BY <1>1 DEF Top
<1>3. ASSUME NEW i \in 1..n
      PROVE  c[i - 1] <= c[i] /\ mbuf_length(m.mhdr[i]) = c[i] - c[i - 1]
  <2>1. /\ e[i - 1] \in Nat /\ e[i] \in Nat /\ e[i - 1] <= e[i]
        /\ mbuf_length(m.mhdr[i]) = Top(e[i], p) - Top(e[i - 1], p)
      BY BufferIs
  <2>2. c[i] = Top(e[i], p) /\ c[i - 1] = Top(e[i - 1], p)
      BY <1>1 DEF LeftOf
  <2>3. Top(e[i - 1], p) <= Top(e[i], p)
      BY <2>1, <1>1 DEF Top
  <2> QED BY <2>1, <2>2, <2>3
<1>4. c \in [0..n -> Nat]
    BY <1>2 DEF LeftOf
<1>5. c[0] = p /\ c[n] = b
  <2>1. Top(a, p) = p /\ Top(b, p) = b /\ a \in Nat /\ b \in Nat
      BY <1>1 DEF Top
  <2> QED BY <1>1, <2>1
<1>6. a \in Nat /\ b \in Nat
    BY <1>1
<1> QED BY <1>1, <1>3, <1>4, <1>5, <1>6 DEF Rises

(* The bytes of a message, and those still to be written.                  *)
LEMMA ContentIs ==
    ASSUME NEW m, NEW a, NEW p, NEW b, NEW e, MessageIs(m, a, p, b, e)
    PROVE  Content(m) = Run(a, b) /\ Unsent(m) = Run(p, b)
<1>1. PICK n : n = Len(m.mhdr)
    OBVIOUS
<1>2. PICK c : c = LeftOf(m, p, e)
    OBVIOUS
<1>3. /\ n \in Nat /\ Rises(c, n) /\ c[0] = p /\ c[n] = b
      /\ Rises(e, n) /\ e[0] = a /\ e[n] = b
    BY <1>1, <1>2, LeftRises
<1>4. DOMAIN m.mhdr = 1..n
    BY <1>1 DEF MessageIs, Message
<1>5. Content(m) = Run(a, b)
  <2> DEFINE s == [i \in DOMAIN m.mhdr |-> m.mhdr[i].data]
  <2>1. s = [i \in 1..n |-> Run(e[i - 1], e[i])]
      BY <1>1, <1>4, BufferIs
  <2>2. Content(m) = FlattenSeq(s)
      BY DEF Content
  <2> HIDE DEF s
  <2> QED BY <2>1, <2>2, <1>3, FlattenRuns
<1>6. Unsent(m) = Run(p, b)
  <2> DEFINE part(d) == SubSeq(d.data, d.pos + 1, Len(d.data))
             s == [i \in DOMAIN m.mhdr |-> part(m.mhdr[i])]
  <2>1. ASSUME NEW i \in 1..n PROVE part(m.mhdr[i]) = Run(c[i - 1], c[i])
    <3>1. PICK x, y, g, j, d, k, z : /\ x = e[i - 1] /\ y = e[i] /\ d = m.mhdr[i]
                                  /\ g = p - x /\ j = y - x /\ k = Clip(g, j) /\ z = k + 1
        OBVIOUS
    <3>2. /\ x \in Nat /\ y \in Nat /\ x <= y /\ p \in Nat /\ d.data = Run(x, y)
          /\ Len(d.data) = j /\ d.pos = k
        BY <1>1, <3>1, BufferIs
    <3>3. Slice(Run(x, y), z, j) = Run(Top(x, p), Top(y, p))
      <4>1. x \in Nat /\ y \in Nat /\ x <= y /\ p \in Nat
          BY <3>2
      <4>2. g = p - x /\ j = y - x /\ k = Clip(g, j) /\ z = k + 1
          BY <3>1
      <4> QED BY ONLY <4>1, <4>2, SliceRun
    <3>4. c[i - 1] = Top(x, p) /\ c[i] = Top(y, p)
        BY <1>1, <1>2, <1>3, <3>1 DEF LeftOf
    <3>5. part(m.mhdr[i]) = Slice(Run(x, y), z, j)
        BY <3>1, <3>2 DEF Slice
    <3> HIDE DEF part
    <3> QED BY <3>3, <3>4, <3>5
  <2>2. s = [i \in 1..n |-> Run(c[i - 1], c[i])]
    <3> HIDE DEF part
    <3> QED BY <2>1, <1>4
  <2>3. Unsent(m) = FlattenSeq(s)
      BY DEF Unsent
  <2> HIDE DEF s
  <2> QED BY <2>2, <2>3, <1>3, FlattenRuns
<1> QED BY <1>5, <1>6

(* A message is sent when all of its bytes are.                            *)
LEMMA SentAllIs ==
    ASSUME NEW m, NEW a, NEW p, NEW b, NEW e, MessageIs(m, a, p, b, e)
    PROVE  SentAll(m) <=> p = b
<1>1. PICK n : n = Len(m.mhdr)
    OBVIOUS
<1>2. PICK c : c = LeftOf(m, p, e)
    OBVIOUS
<1>3. /\ n \in Nat /\ Rises(c, n) /\ c[0] = p /\ c[n] = b
      /\ \A i \in 1..n : mbuf_length(m.mhdr[i]) = c[i] - c[i - 1]
    BY <1>1, <1>2, LeftRises
<1>4. DOMAIN m.mhdr = 1..n /\ c \in [0..n -> Nat]
    BY <1>1, <1>3 DEF MessageIs, Message, Rises
<1>5. SentAll(m) <=> \A i \in 1..n : c[i] - c[i - 1] = 0
    BY <1>3, <1>4 DEF SentAll
<1>6. ASSUME NEW i \in 1..n
      PROVE  /\ c[i] \in Nat /\ c[i - 1] \in Nat
             /\ c[0] <= c[i - 1] /\ c[i - 1] <= c[i] /\ c[i] <= c[n]
             /\ c[0] \in Nat /\ c[n] \in Nat
  <2>1. i \in 0..n /\ i - 1 \in 0..n /\ 0 \in 0..n /\ n \in 0..n /\ 0 <= i - 1 /\ i <= n /\ i - 1 <= i
      BY <1>3
  <2> QED BY <2>1, <1>3, <1>4, RisesAll
<1>7. ASSUME \A i \in 1..n : c[i] - c[i - 1] = 0 PROVE p = b
  <2>1. \A i \in 1..n : c[i] = c[i - 1]
      BY <1>6, <1>7
  <2> QED BY <2>1, <1>3, SamePlace
<1>8. ASSUME p = b, NEW i \in 1..n PROVE c[i] - c[i - 1] = 0
    BY <1>3, <1>6, <1>8
<1> QED BY <1>5, <1>7, <1>8

(* Writing moves a message on, and no further than its end.                *)
LEMMA AdvancedIs ==
    ASSUME NEW m, NEW a, NEW p, NEW b, NEW e, MessageIs(m, a, p, b, e),
           NEW k \in Nat, NEW v, v = IF p + k < b THEN p + k ELSE b
    PROVE  MessageIs(Advanced(m, k), a, v, b, e)
<1>1. PICK n : n = Len(m.mhdr)
    OBVIOUS
<1>2. PICK c : c = LeftOf(m, p, e)
    OBVIOUS
<1>3. /\ n \in Nat /\ Rises(c, n) /\ c[0] = p /\ c[n] = b
      /\ \A i \in 1..n : mbuf_length(m.mhdr[i]) = c[i] - c[i - 1]
      /\ p \in Nat /\ a \in Nat /\ b \in Nat /\ a <= p /\ p <= b
    BY <1>1, <1>2, LeftRises
<1>4. /\ m \in Message /\ m.mhdr \in Seq(Mbuf) /\ DOMAIN m.mhdr = 1..n /\ c \in [0..n -> Nat]
      /\ Rises(e, n) /\ e[0] = a /\ e[n] = b /\ m.mlen = b - a
    BY <1>1, <1>3 DEF MessageIs, Message, Rises
<1> DEFINE before(i) == Sum([j \in 1..(i - 1) |-> mbuf_length(m.mhdr[j])])
           buf(i) == [m.mhdr[i] EXCEPT !.pos = @ + Clip(k - before(i), mbuf_length(m.mhdr[i]))]
           h == [i \in DOMAIN m.mhdr |-> buf(i)]
           w == [m EXCEPT !.mhdr = h]
<1>5. Advanced(m, k) = w
    BY DEF Advanced, before, buf, h, w
<1>6. ASSUME NEW i \in 1..n PROVE before(i) = c[i - 1] - p
  <2>1. PICK y : y = i - 1
      OBVIOUS
  <2>2. PICK s : s = [j \in 1..(i - 1) |-> mbuf_length(m.mhdr[j])]
      OBVIOUS
  <2>3. PICK d : d = [j \in 0..y |-> c[j]]
      OBVIOUS
  <2>4. y \in Nat /\ y \in 0..n /\ \A j \in 1..y : j \in 1..n /\ j - 1 \in 0..y /\ j \in 0..y
      BY <2>1, <1>3
  <2>5. d[0] = p /\ d[y] = c[i - 1]
      BY <2>1, <2>3, <2>4, <1>3
  <2>6. Rises(d, y)
    <3>1. \A j \in 1..y : d[j] = c[j] /\ d[j - 1] = c[j - 1]
        BY <2>3, <2>4
    <3>2. d \in [0..y -> Nat]
      <4>1. \A j \in 0..y : c[j] \in Nat
          BY <1>4, <2>4, <1>3
      <4> QED BY <4>1, <2>3
    <3>3. \A j \in 1..y : c[j - 1] <= c[j]
        BY <2>4, <1>3 DEF Rises
    <3> QED BY <3>1, <3>2, <3>3 DEF Rises
  <2>7. s = [j \in 1..y |-> d[j] - d[j - 1]]
    <3>1. \A j \in 1..y : d[j] = c[j] /\ d[j - 1] = c[j - 1] /\ mbuf_length(m.mhdr[j]) = c[j] - c[j - 1]
        BY <2>3, <2>4, <1>3
    <3> QED BY <2>1, <2>2, <3>1
  <2>8. Sum(s) = d[y] - d[0]
      BY <2>4, <2>6, <2>7, SumGaps
  <2> QED BY <2>2, <2>5, <2>8
<1> HIDE DEF before
<1>7. v \in Nat /\ a <= v /\ v <= b
    BY <1>3
<1>8. ASSUME NEW i \in 1..n
      PROVE  /\ buf(i) \in Mbuf /\ buf(i).data = m.mhdr[i].data
             /\ buf(i).pos = Clip(v - e[i - 1], e[i] - e[i - 1])
  <2>1. PICK x, y, d : x = e[i - 1] /\ y = e[i] /\ d = m.mhdr[i]
      OBVIOUS
  <2>2. /\ x \in Nat /\ y \in Nat /\ x <= y /\ y <= b /\ d \in Mbuf /\ y - x <= CHUNK
        /\ d.pos = Clip(p - x, y - x) /\ mbuf_length(d) = Top(y, p) - Top(x, p)
      BY <2>1, <1>1, BufferIs
  <2>3. c[i - 1] = Top(x, p)
      BY <1>1, <1>2, <1>3, <2>1 DEF LeftOf
  <2>4. PICK z : z = d.pos + Clip(k - before(i), mbuf_length(d))
      OBVIOUS
  <2>5. z = Clip((p + k) - x, y - x)
    <3>1. z = Clip(p - x, y - x) + Clip(k - (Top(x, p) - p), Top(y, p) - Top(x, p))
        BY <2>2, <2>3, <2>4, <1>6
    <3>2. PICK g, j, l, f, t : /\ g = p - x /\ j = y - x /\ l = (p + k) - x
                               /\ f = k - (Top(x, p) - p) /\ t = Top(y, p) - Top(x, p)
        OBVIOUS
    <3>3. Clip(g, j) + Clip(f, t) = Clip(l, j)
        BY ONLY <3>2, <2>2, <1>3, k \in Nat, ClipMore
    <3> QED BY <3>1, <3>2, <3>3
  <2>6. z = Clip(v - x, y - x)
    <3>1. CASE p + k < b
        BY <3>1, <2>5
    <3>2. CASE ~(p + k < b)
      <4>1. PICK u : u = p + k /\ u \in Nat /\ b <= u
          BY <3>2, <1>3
      <4>2. v = b
          BY <3>2
      <4>3. PICK g, l, j : g = u - x /\ l = b - x /\ j = y - x
          OBVIOUS
      <4>4. Clip(g, j) = Clip(l, j)
          BY <4>1, <4>3, <2>2, <1>3 DEF Clip
      <4> QED BY <4>1, <4>2, <4>3, <4>4, <2>5
    <3> QED BY <3>1, <3>2
  <2>7. z \in 0..CHUNK
    <3>1. z \in Nat /\ z <= y - x
      <4>1. PICK g, j : g = v - x /\ j = y - x
          OBVIOUS
      <4>2. z = Clip(g, j)
          BY <4>1, <2>6
      <4>3. z \in Nat /\ z <= j
          BY ONLY <4>1, <4>2, <2>2, <1>7, ClipFacts
      <4> QED BY <4>1, <4>3
    <3> QED BY <3>1, <2>2, StreamAssumption
  <2>8. buf(i) = [d EXCEPT !.pos = z]
      BY <2>1, <2>4
  <2> HIDE DEF buf
  <2> QED BY <2>1, <2>2, <2>6, <2>7, <2>8 DEF Mbuf
<1>9. h \in Seq(Mbuf) /\ Len(h) = n /\ \A i \in 1..n : h[i] = buf(i)
  <2> HIDE DEF buf
  <2>1. h \in [1..n -> Mbuf]
      BY <1>4, <1>8
  <2> QED BY <2>1, <1>3, <1>4
<1> HIDE DEF h, buf
<1>10. w \in Message /\ w.mhdr = h /\ w.mlen = b - a
    BY <1>4, <1>9 DEF Message
<1>11. ASSUME NEW i \in 1..n
       PROVE  /\ h[i].data = Run(e[i - 1], e[i])
              /\ e[i] - e[i - 1] <= CHUNK
              /\ h[i].pos = Clip(v - e[i - 1], e[i] - e[i - 1])
    BY <1>1, <1>8, <1>9, BufferIs
<1> HIDE DEF w
<1> QED BY <1>3, <1>4, <1>5, <1>7, <1>9, <1>10, <1>11 DEF MessageIs

-----------------------------------------------------------------------------
(* What is still to be written of a buffer.                                *)
Remains(d) == SubSeq(d.data, d.pos + 1, Len(d.data))

(* Buffer d has the bytes after x up to y to write.                        *)
Holds(d, x, y) == /\ d \in Mbuf /\ x \in Nat /\ y \in Nat /\ x <= y
                  /\ mbuf_length(d) = y - x /\ Remains(d) = Run(x, y)

(* Buffers s have the bytes after a up to b to write, buffer i those up to *)
(* c[i].                                                                   *)
Chained(s, c) == /\ s \in Seq(Mbuf) /\ c \in [0..Len(s) -> Nat]
                 /\ \A i \in 1..Len(s) : Holds(s[i], c[i - 1], c[i])
Chain(s, a, b) == \E c : Chained(s, c) /\ c[0] = a /\ c[Len(s)] = b

(* The places of a chain follow each other.                                *)
LEMMA ChainRises ==
    ASSUME NEW s, NEW c, Chained(s, c)
    PROVE  Rises(c, Len(s)) /\ Len(s) \in Nat /\ DOMAIN s = 1..Len(s)
           /\ c[0] \in Nat /\ c[Len(s)] \in Nat /\ c[0] <= c[Len(s)]
<1>1. s \in Seq(Mbuf) /\ c \in [0..Len(s) -> Nat] /\ \A i \in 1..Len(s) : Holds(s[i], c[i - 1], c[i])
    BY DEF Chained
<1>2. \A i \in 1..Len(s) : c[i - 1] <= c[i]
    BY <1>1 DEF Holds
<1>3. Rises(c, Len(s))
    BY <1>1, <1>2 DEF Rises
<1>4. Len(s) \in Nat /\ DOMAIN s = 1..Len(s)
    BY <1>1
<1>5. 0 \in 0..Len(s) /\ Len(s) \in 0..Len(s) /\ 0 <= Len(s)
    BY <1>4
<1>6. c[0] <= c[Len(s)]
    BY <1>3, <1>4, <1>5, RisesAll
<1> QED BY <1>1, <1>3, <1>4, <1>5, <1>6

(* No buffers have nothing to write.                                       *)
LEMMA ChainEmpty ==
    ASSUME NEW a \in Nat
    PROVE  Chain(<<>>, a, a)
<1> DEFINE c == [i \in 0..0 |-> a]
<1>1. Len(<<>>) = 0 /\ <<>> \in Seq(Mbuf) /\ 1..0 = {}
    OBVIOUS
<1>2. c \in [0..0 -> Nat] /\ c[0] = a
    OBVIOUS
<1> HIDE DEF c
<1>3. Chained(<<>>, c)
    BY <1>1, <1>2 DEF Chained
<1> QED BY <1>1, <1>2, <1>3 DEF Chain

(* A chain with a buffer more.                                             *)
LEMMA ChainAppend ==
    ASSUME NEW s, NEW a, NEW x, Chain(s, a, x), NEW d, NEW y, Holds(d, x, y)
    PROVE  Chain(Append(s, d), a, y)
<1>1. PICK c : Chained(s, c) /\ c[0] = a /\ c[Len(s)] = x
    BY DEF Chain
<1>2. PICK n : n = Len(s)
    OBVIOUS
<1>3. /\ s \in Seq(Mbuf) /\ c \in [0..n -> Nat] /\ \A i \in 1..n : Holds(s[i], c[i - 1], c[i])
      /\ n \in Nat /\ d \in Mbuf /\ y \in Nat
    BY <1>1, <1>2 DEF Chained, Holds
<1>4. PICK t : t = Append(s, d)
    OBVIOUS
<1>5. PICK l : l = n + 1
    OBVIOUS
<1>6. t \in Seq(Mbuf) /\ Len(t) = l /\ t[l] = d /\ \A i \in 1..n : t[i] = s[i]
    BY <1>2, <1>3, <1>4, <1>5
<1>7. PICK g : g = [i \in 0..l |-> IF i <= n THEN c[i] ELSE y]
    OBVIOUS
<1>8. /\ g \in [0..l -> Nat] /\ g[l] = y /\ \A i \in 0..n : g[i] = c[i]
  <2>1. \A i \in 0..l : i <= n => i \in 0..n
      BY <1>3, <1>5
  <2>2. \A i \in 0..n : i \in 0..l /\ i <= n
      BY <1>3, <1>5
  <2>3. l \in 0..l /\ ~(l <= n)
      BY <1>3, <1>5
  <2> QED BY <1>3, <1>7, <2>1, <2>2, <2>3
<1>9. ASSUME NEW i \in 1..l PROVE Holds(t[i], g[i - 1], g[i])
  <2>1. CASE i \in 1..n
    <3>1. i \in 0..n /\ i - 1 \in 0..n
        BY <2>1, <1>3
    <3> QED BY <3>1, <2>1, <1>3, <1>6, <1>8
  <2>2. CASE i \notin 1..n
    <3>1. i = l /\ i - 1 = n /\ n \in 0..n
        BY <2>2, <1>3, <1>5
    <3>2. t[i] = d /\ g[i] = y /\ g[i - 1] = x
        BY <3>1, <1>1, <1>2, <1>6, <1>8
    <3> QED BY <3>2
  <2> QED BY <2>1, <2>2
<1>10. Chained(t, g)
    BY <1>6, <1>8, <1>9 DEF Chained
<1>11. g[0] = a
  <2>1. 0 \in 0..n
      BY <1>3
  <2> QED BY <2>1, <1>1, <1>8
<1> QED BY <1>4, <1>6, <1>8, <1>10, <1>11 DEF Chain

(* The buffers of a message that a writev takes.                           *)
LEMMA BuffersChain ==
    ASSUME NEW m, NEW a, NEW p, NEW b, NEW e, MessageIs(m, a, p, b, e)
    PROVE  Chain(Buffers(m), p, b)
<1>1. PICK n : n = Len(m.mhdr)
    OBVIOUS
<1>2. PICK c : c = LeftOf(m, p, e)
    OBVIOUS
<1>3. /\ n \in Nat /\ Rises(c, n) /\ c[0] = p /\ c[n] = b /\ p \in Nat
      /\ \A i \in 1..n : mbuf_length(m.mhdr[i]) = c[i] - c[i - 1]
    BY <1>1, <1>2, LeftRises
<1>4. m.mhdr \in [1..n -> Mbuf] /\ DOMAIN m.mhdr = 1..n /\ c \in [0..n -> Nat]
      /\ \A i \in 1..n : c[i - 1] <= c[i]
    BY <1>1, <1>3 DEF MessageIs, Message, Rises
<1>5. PICK I : I = {i \in DOMAIN m.mhdr : mbuf_length(m.mhdr[i]) > 0}
    OBVIOUS
<1>5a. PICK g : Chooses(g, m.mhdr, I, n, Mbuf)
    BY ONLY <1>3, <1>4, ChosenExists
<1>6. /\ g \in [0..n -> Seq(Mbuf)] /\ g[0] = <<>> /\ Chosen(m.mhdr, I) = g[n]
      /\ \A i \in 1..n : g[i] = IF i \in I THEN Append(g[i - 1], m.mhdr[i]) ELSE g[i - 1]
    BY <1>5a DEF Chooses
<1> DEFINE G == {k \in Nat : k <= n => Chain(g[k], p, c[k])}
<1>7. 0 \in G
    BY <1>3, <1>6, ChainEmpty
<1>8. ASSUME NEW i \in 1..n, Chain(g[i - 1], p, c[i - 1]) PROVE Chain(g[i], p, c[i])
  <2>1. i \in 0..n /\ i - 1 \in 0..n
      BY <1>3
  <2>2. PICK x, y, d : x = c[i - 1] /\ y = c[i] /\ d = m.mhdr[i]
      OBVIOUS
  <2>3. x \in Nat /\ y \in Nat /\ x <= y /\ mbuf_length(d) = y - x /\ d \in Mbuf
      BY <2>1, <2>2, <1>3, <1>4
  <2>4. CASE i \in I
    <3>1. Remains(d) = Run(x, y)
      <4>1. PICK u, v, f, j, k, z : /\ u = e[i - 1] /\ v = e[i]
                                    /\ f = p - u /\ j = v - u /\ k = Clip(f, j) /\ z = k + 1
          OBVIOUS
      <4>2. /\ u \in Nat /\ v \in Nat /\ u <= v /\ d.data = Run(u, v)
            /\ Len(d.data) = j /\ d.pos = k
          BY <1>1, <2>2, <4>1, BufferIs
      <4>3. Slice(Run(u, v), z, j) = Run(Top(u, p), Top(v, p))
        <5>1. u \in Nat /\ v \in Nat /\ u <= v /\ p \in Nat
            BY <4>2, <1>3
        <5>2. f = p - u /\ j = v - u /\ k = Clip(f, j) /\ z = k + 1
            BY <4>1
        <5> QED BY ONLY <5>1, <5>2, SliceRun
      <4>4. x = Top(u, p) /\ y = Top(v, p)
          BY <1>1, <1>2, <2>1, <2>2, <4>1 DEF LeftOf
      <4>5. Remains(d) = Slice(Run(u, v), z, j)
          BY <4>1, <4>2 DEF Slice, Remains
      <4> QED BY <4>3, <4>4, <4>5
    <3>2. Holds(d, x, y)
        BY <2>3, <3>1 DEF Holds
    <3>3. g[i] = Append(g[i - 1], d)
        BY <2>2, <2>4, <1>6
    <3>4. Chain(g[i - 1], p, x)
        BY <1>8, <2>2
    <3>5. Chain(Append(g[i - 1], d), p, y)
        BY ONLY <3>2, <3>4, ChainAppend
    <3> QED BY <3>3, <3>5, <2>2
  <2>5. CASE i \notin I
    <3>1. ~(mbuf_length(d) > 0)
        BY <2>2, <2>5, <1>4, <1>5
    <3>2. x = y
        BY <3>1, <2>3
    <3>3. g[i] = g[i - 1]
        BY <2>5, <1>6
    <3> QED BY <3>2, <3>3, <2>2, <1>8
  <2> QED BY <2>4, <2>5
<1>9. ASSUME NEW k \in Nat, k \in G PROVE k + 1 \in G
  <2> DEFINE i == k + 1
  <2> SUFFICES ASSUME i <= n PROVE Chain(g[i], p, c[i])
      OBVIOUS
  <2>0. i \in 1..n /\ i - 1 = k /\ k <= n
      BY <1>3
  <2>1. Chain(g[k], p, c[k])
      BY <1>9, <2>0, Zenon
  <2> HIDE DEF i
  <2> QED BY <2>0, <2>1, <1>8
<1>10. \A k \in Nat : k \in G
  <2> HIDE DEF G
  <2>1. \A k \in Nat : k \in G => k + 1 \in G
      BY <1>9
  <2> QED BY ONLY <1>7, <2>1, SetInduction
<1>11. Chain(g[n], p, b)
    BY <1>3, <1>10
<1> QED BY <1>5, <1>6, <1>11 DEF Buffers

(* A chain and the one after it are one.                                   *)
LEMMA ChainJoin ==
    ASSUME NEW s, NEW r, NEW a, NEW x, NEW b, Chain(s, a, x), Chain(r, x, b)
    PROVE  Chain(s \o r, a, b)
<1>1. PICK c : Chained(s, c) /\ c[0] = a /\ c[Len(s)] = x
    BY DEF Chain
<1>2. PICK d : Chained(r, d) /\ d[0] = x /\ d[Len(r)] = b
    BY DEF Chain
<1>3. PICK n, k, l : n = Len(s) /\ k = Len(r) /\ l = n + k
    OBVIOUS
<1>4. /\ s \in Seq(Mbuf) /\ c \in [0..n -> Nat] /\ \A i \in 1..n : Holds(s[i], c[i - 1], c[i])
      /\ n \in Nat
    BY <1>1, <1>3 DEF Chained
<1>5. /\ r \in Seq(Mbuf) /\ d \in [0..k -> Nat] /\ \A i \in 1..k : Holds(r[i], d[i - 1], d[i])
      /\ k \in Nat
    BY <1>2, <1>3 DEF Chained
<1>6. PICK t : t = s \o r
    OBVIOUS
<1>7. /\ t \in Seq(Mbuf) /\ Len(t) = l /\ l \in Nat
      /\ \A i \in 1..n : t[i] = s[i]
      /\ \A i \in 1..k : t[n + i] = r[i]
    BY <1>3, <1>4, <1>5, <1>6
<1>8. PICK g : g = [i \in 0..l |-> IF i <= n THEN c[i] ELSE d[i - n]]
    OBVIOUS
<1>9. /\ g \in [0..l -> Nat] /\ \A i \in 0..n : g[i] = c[i]
      /\ \A i \in 0..l : i >= n => g[i] = d[i - n]
  <2>1. \A i \in 0..l : i <= n => i \in 0..n
      BY <1>4
  <2>2. \A i \in 0..n : i \in 0..l /\ i <= n
      BY <1>3, <1>4, <1>5
  <2>3. \A i \in 0..l : i >= n => i - n \in 0..k
      BY <1>3, <1>4, <1>5
  <2>4. c[n] = d[n - n]
      BY <1>1, <1>2, <1>3, <1>4
  <2>5. ASSUME NEW i \in 0..l PROVE g[i] \in Nat
    <3>1. CASE i <= n
        BY <3>1, <2>1, <1>4, <1>8
    <3>2. CASE ~(i <= n)
        BY <3>2, <2>3, <1>4, <1>5, <1>8
    <3> QED BY <3>1, <3>2
  <2>6. \A i \in 0..n : g[i] = c[i]
      BY <2>2, <1>8
  <2>7. ASSUME NEW i \in 0..l, i >= n PROVE g[i] = d[i - n]
    <3>1. CASE i = n
        BY <3>1, <2>4, <2>6, <1>4
    <3>2. CASE i # n
      <4>1. ~(i <= n)
          BY <3>2, <2>7, <1>4
      <4> QED BY <4>1, <1>8
    <3> QED BY <3>1, <3>2
  <2> QED BY <2>5, <2>6, <2>7, <1>8
<1>10. ASSUME NEW i \in 1..l PROVE Holds(t[i], g[i - 1], g[i])
  <2>1. CASE i <= n
    <3>1. i \in 1..n /\ i \in 0..n /\ i - 1 \in 0..n
        BY <2>1, <1>4
    <3> QED BY <3>1, <1>4, <1>7, <1>9
  <2>2. CASE ~(i <= n)
    <3>1. PICK j : j = i - n
        OBVIOUS
    <3>2. /\ j \in 1..k /\ i = n + j /\ i \in 0..l /\ i - 1 \in 0..l /\ i >= n /\ i - 1 >= n
          /\ (i - 1) - n = j - 1 /\ i - n = j
        BY <2>2, <3>1, <1>3, <1>4, <1>5
    <3>3. g[i] = d[j] /\ g[i - 1] = d[j - 1] /\ t[i] = r[j]
      <4>1. g[i] = d[i - n] /\ g[i - 1] = d[(i - 1) - n]
          BY <3>2, <1>9
      <4>2. t[n + j] = r[j]
          BY <3>2, <1>7
      <4> QED BY <3>2, <4>1, <4>2
    <3> QED BY <3>2, <3>3, <1>5
  <2> QED BY <2>1, <2>2
<1>11. Chained(t, g)
    BY <1>7, <1>9, <1>10 DEF Chained
<1>12. g[0] = a /\ g[l] = b
  <2>1. 0 \in 0..n /\ l \in 0..l /\ l >= n /\ l - n = k
      BY <1>3, <1>4, <1>5
  <2> QED BY <2>1, <1>1, <1>2, <1>3, <1>9
<1> QED BY <1>6, <1>7, <1>11, <1>12 DEF Chain

(* The buffers of messages that follow each other, as msg_send_chain       *)
(* collects them.                                                          *)
LEMMA ChainFlatten ==
    ASSUME NEW n \in Nat, NEW s \in [1..n -> Seq(Mbuf)], NEW t \in [0..n -> Nat],
           \A i \in 1..n : Chain(s[i], t[i - 1], t[i])
    PROVE  Chain(FlattenSeq(s), t[0], t[n])
<1>1. PICK h \in [0..n -> Seq(Mbuf)] :
         /\ h[0] = <<>>
         /\ \A i \in 1..n : h[i] = h[i - 1] \o s[i]
         /\ FlattenSeq(s) = h[n]
    BY FlattenExists
<1> DEFINE G == {k \in Nat : k <= n => Chain(h[k], t[0], t[k])}
<1>2. 0 \in G
  <2>1. t[0] \in Nat
      OBVIOUS
  <2> QED BY <1>1, <2>1, ChainEmpty
<1>3. ASSUME NEW k \in Nat, k \in G PROVE k + 1 \in G
  <2> DEFINE i == k + 1
  <2> SUFFICES ASSUME i <= n PROVE Chain(h[i], t[0], t[i])
      OBVIOUS
  <2>1. i \in 1..n /\ i - 1 = k /\ k <= n
      OBVIOUS
  <2>2. Chain(h[k], t[0], t[k])
      BY <1>3, <2>1, Zenon
  <2> HIDE DEF i
  <2>3. Chain(s[i], t[k], t[i]) /\ h[i] = h[k] \o s[i]
      BY <1>1, <2>1
  <2> QED BY <2>2, <2>3, ChainJoin
<1>4. \A k \in Nat : k \in G
  <2> HIDE DEF G
  <2>1. \A k \in Nat : k \in G => k + 1 \in G
      BY <1>3
  <2> QED BY ONLY <1>2, <2>1, SetInduction
<1> QED BY <1>1, <1>4

(* The first buffers of a chain are one.                                   *)
LEMMA ChainStart ==
    ASSUME NEW s, NEW a, NEW b, Chain(s, a, b), NEW l \in Nat, l <= Len(s)
    PROVE  \E x \in Nat : Chain(SubSeq(s, 1, l), a, x) /\ a <= x /\ x <= b
<1>1. PICK c : Chained(s, c) /\ c[0] = a /\ c[Len(s)] = b
    BY DEF Chain
<1>2. PICK n : n = Len(s)
    OBVIOUS
<1>3. /\ s \in Seq(Mbuf) /\ c \in [0..n -> Nat] /\ \A i \in 1..n : Holds(s[i], c[i - 1], c[i])
      /\ n \in Nat /\ l <= n
    BY <1>1, <1>2 DEF Chained
<1>4. Rises(c, n)
    BY <1>1, <1>2, ChainRises
<1>5. PICK t, d : t = SubSeq(s, 1, l) /\ d = [i \in 0..l |-> c[i]]
    OBVIOUS
<1>6. \A i \in 0..l : i \in 0..n
    BY <1>3
<1>7. t \in Seq(Mbuf) /\ Len(t) = l /\ \A i \in 1..l : t[i] = s[i]
    BY <1>3, <1>5
<1>8. d \in [0..l -> Nat] /\ \A i \in 0..l : d[i] = c[i]
    BY <1>3, <1>5, <1>6
<1>9. ASSUME NEW i \in 1..l PROVE Holds(t[i], d[i - 1], d[i])
  <2>1. i \in 1..n /\ i \in 0..l /\ i - 1 \in 0..l
      BY <1>3
  <2> QED BY <2>1, <1>3, <1>7, <1>8
<1>10. Chained(t, d)
    BY <1>7, <1>8, <1>9 DEF Chained
<1>11. /\ 0 \in 0..l /\ l \in 0..l /\ l \in 0..n /\ 0 \in 0..n /\ n \in 0..n /\ 0 <= l
    BY <1>3
<1>12. c[0] <= c[l] /\ c[l] <= c[n] /\ c[l] \in Nat
    BY <1>3, <1>4, <1>11, RisesAll
<1>13. Chain(t, a, c[l])
    BY <1>1, <1>7, <1>8, <1>10, <1>11 DEF Chain
<1> QED BY <1>1, <1>2, <1>5, <1>12, <1>13

(* What a chain writes.                                                    *)
LEMMA ChainWrites ==
    ASSUME NEW s, NEW a, NEW b, Chain(s, a, b)
    PROVE  /\ a \in Nat /\ b \in Nat /\ a <= b
           /\ Sum([i \in DOMAIN s |-> mbuf_length(s[i])]) = b - a
           /\ FlattenSeq([i \in DOMAIN s |-> Remains(s[i])]) = Run(a, b)
<1>1. PICK c : Chained(s, c) /\ c[0] = a /\ c[Len(s)] = b
    BY DEF Chain
<1>2. PICK n : n = Len(s)
    OBVIOUS
<1>3. /\ \A i \in 1..n : Holds(s[i], c[i - 1], c[i])
      /\ Rises(c, n) /\ n \in Nat /\ DOMAIN s = 1..n
      /\ c[0] \in Nat /\ c[n] \in Nat /\ c[0] <= c[n]
    BY <1>1, <1>2, ChainRises DEF Chained
<1>4. Sum([i \in DOMAIN s |-> mbuf_length(s[i])]) = c[n] - c[0]
  <2>1. PICK t : t = [i \in DOMAIN s |-> mbuf_length(s[i])]
      OBVIOUS
  <2>2. t = [i \in 1..n |-> c[i] - c[i - 1]]
      BY <2>1, <1>3 DEF Holds
  <2>3. Sum(t) = c[n] - c[0]
      BY ONLY <2>2, <1>3, SumGaps
  <2> QED BY <2>1, <2>3
<1>5. FlattenSeq([i \in DOMAIN s |-> Remains(s[i])]) = Run(c[0], c[n])
  <2>1. PICK t : t = [i \in DOMAIN s |-> Remains(s[i])]
      OBVIOUS
  <2>2. t = [i \in 1..n |-> Run(c[i - 1], c[i])]
      BY <2>1, <1>3 DEF Holds
  <2>3. FlattenSeq(t) = Run(c[0], c[n])
      BY ONLY <2>2, <1>3, FlattenRuns
  <2> QED BY <2>1, <2>3
<1> QED BY <1>1, <1>2, <1>3, <1>4, <1>5

-----------------------------------------------------------------------------
(* A buffer of the bytes after x up to y, of which none was written.       *)
Fresh(x, y) == [data |-> Run(x, y), pos |-> 0]

(* Buffers s hold the bytes after a up to b, buffer i those up to e[i].    *)
Buffered(s, a, b, e) ==
    /\ s \in Seq(Mbuf) /\ Rises(e, Len(s)) /\ e[0] = a /\ e[Len(s)] = b
    /\ \A i \in 1..Len(s) : s[i] = Fresh(e[i - 1], e[i]) /\ e[i] - e[i - 1] <= CHUNK

(* Message m is being received: it holds the bytes after a up to b, the    *)
(* last buffer those after x.                                              *)
Held(m, a, b, x) ==
    /\ m \in Message /\ m.mlen = b - a /\ Len(m.mhdr) >= 1 /\ b <= Total
    /\ \E e : Buffered(m.mhdr, a, b, e) /\ e[Len(m.mhdr) - 1] = x

(* Places e with another last one, or with one more; buffers s with other  *)
(* bytes in the last one.                                                  *)
Ending(e, n, y) == [e EXCEPT ![n] = y]
Longer(e, n, y) == [i \in 0..(n + 1) |-> IF i <= n THEN e[i] ELSE y]
More(s, x, y) == Append(s, Fresh(x, y))
Refilled(s, n, x, y) == [s EXCEPT ![n].data = Run(x, y)]

(* A run within the stream is of bytes.                                    *)
LEMMA RunBytes ==
    ASSUME NEW x \in Nat, NEW y \in Nat, x <= y, y <= Total, Total \in Nat
    PROVE  Run(x, y) \in Seq(Byte)
<1>1. \A i \in 1..(y - x) : x + i \in 1..Total
    OBVIOUS
<1>2. y - x \in Nat
    OBVIOUS
<1>3. Run(x, y) \in [1..(y - x) -> Byte]
    BY <1>1 DEF Run, Byte
<1> QED BY <1>2, <1>3

(* A new buffer is of its type.                                            *)
LEMMA FreshIs ==
    ASSUME NEW x \in Nat, NEW y \in Nat, x <= y, y <= Total, Total \in Nat
    PROVE  /\ Fresh(x, y) \in Mbuf /\ Len(Fresh(x, y).data) = y - x
           /\ mbuf_length(Fresh(x, y)) = y - x
<1>1. Run(x, y) \in Seq(Byte) /\ 0 \in 0..CHUNK
    BY RunBytes, StreamAssumption
<1>2. Len(Run(x, y)) = y - x
    BY RunFacts
<1>3. Fresh(x, y) \in Mbuf
    BY <1>1 DEF Fresh, Mbuf
<1>4. Fresh(x, y).data = Run(x, y) /\ Fresh(x, y).pos = 0
    BY DEF Fresh
<1>5. mbuf_length(Fresh(x, y)) = y - x
    BY <1>2, <1>4 DEF mbuf_length
<1> QED BY <1>2, <1>3, <1>4, <1>5

(* What Buffered says.                                                     *)
LEMMA BufferedFacts ==
    ASSUME NEW s, NEW a, NEW b, NEW e, Buffered(s, a, b, e), NEW n, n = Len(s)
    PROVE  /\ n \in Nat /\ DOMAIN s = 1..n /\ e \in [0..n -> Nat]
           /\ s \in Seq(Mbuf) /\ Rises(e, n) /\ e[0] = a /\ e[n] = b
           /\ a \in Nat /\ b \in Nat /\ a <= b
           /\ \A i \in 1..n : /\ s[i] = Fresh(e[i - 1], e[i]) /\ e[i] - e[i - 1] <= CHUNK
                              /\ e[i - 1] \in Nat /\ e[i] \in Nat
                              /\ a <= e[i - 1] /\ e[i - 1] <= e[i] /\ e[i] <= b
<1>1. /\ s \in Seq(Mbuf) /\ Rises(e, n) /\ e[0] = a /\ e[n] = b
      /\ \A i \in 1..n : s[i] = Fresh(e[i - 1], e[i]) /\ e[i] - e[i - 1] <= CHUNK
    BY DEF Buffered
<1>2. n \in Nat /\ DOMAIN s = 1..n /\ e \in [0..n -> Nat]
    BY <1>1 DEF Rises
<1>3. 0 \in 0..n /\ n \in 0..n /\ 0 <= n
    BY <1>2
<1>4. ASSUME NEW i \in 1..n
      PROVE  /\ e[i - 1] \in Nat /\ e[i] \in Nat
             /\ a <= e[i - 1] /\ e[i - 1] <= e[i] /\ e[i] <= b
  <2>1. i \in 0..n /\ i - 1 \in 0..n /\ 0 <= i - 1 /\ i <= n /\ i - 1 <= i
      BY <1>2
  <2>2. \A j, k \in 0..n : j <= k => e[j] <= e[k]
      BY <1>1, <1>2, RisesAll
  <2> QED BY <2>1, <2>2, <1>1, <1>2, <1>3
<1>5. a <= b
    BY <1>1, <1>2, <1>3, RisesAll
<1> QED BY <1>1, <1>2, <1>3, <1>4, <1>5

(* A buffer more (mbuf_insert).                                            *)
LEMMA BufferedAppend ==
    ASSUME NEW s, NEW a, NEW b, NEW e, Buffered(s, a, b, e), Total \in Nat,
           NEW y \in Nat, b <= y, y - b <= CHUNK, y <= Total,
           NEW n, n = Len(s), NEW l, l = n + 1, NEW t, t = More(s, b, y),
           NEW g, g = Longer(e, n, y)
    PROVE  Buffered(t, a, y, g) /\ Len(t) = l /\ g[l - 1] = b
<1>1. /\ n \in Nat /\ e \in [0..n -> Nat] /\ s \in Seq(Mbuf) /\ e[0] = a /\ e[n] = b
      /\ a \in Nat /\ b \in Nat
      /\ \A i \in 1..n : /\ s[i] = Fresh(e[i - 1], e[i]) /\ e[i] - e[i - 1] <= CHUNK
                         /\ e[i - 1] <= e[i]
    BY BufferedFacts
<1>2. PICK d : d = Fresh(b, y)
    OBVIOUS
<1>3. d \in Mbuf
    BY <1>1, <1>2, FreshIs
<1>4. t \in Seq(Mbuf) /\ Len(t) = l /\ t[l] = d /\ \A i \in 1..n : t[i] = s[i]
    BY <1>1, <1>2, <1>3 DEF More
<1>5. g \in [0..l -> Nat] /\ g[l] = y /\ \A i \in 0..n : g[i] = e[i]
  <2>0. g = [i \in 0..l |-> IF i <= n THEN e[i] ELSE y]
      BY DEF Longer
  <2>1. \A i \in 0..l : i <= n => i \in 0..n
      BY <1>1
  <2>2. \A i \in 0..n : i \in 0..l /\ i <= n
      BY <1>1
  <2>3. l \in 0..l /\ ~(l <= n)
      BY <1>1
  <2> QED BY <1>1, <2>0, <2>1, <2>2, <2>3
<1>6. ASSUME NEW i \in 1..l
      PROVE  t[i] = Fresh(g[i - 1], g[i]) /\ g[i] - g[i - 1] <= CHUNK /\ g[i - 1] <= g[i]
  <2>1. CASE i \in 1..n
    <3>1. i \in 0..n /\ i - 1 \in 0..n
        BY <2>1, <1>1
    <3> QED BY <2>1, <3>1, <1>1, <1>4, <1>5
  <2>2. CASE i \notin 1..n
    <3>1. i = l /\ i - 1 = n /\ n \in 0..n
        BY <2>2, <1>1
    <3>2. t[i] = d /\ g[i] = y /\ g[i - 1] = b
        BY <3>1, <1>1, <1>4, <1>5
    <3> QED BY <3>2, <1>2
  <2> QED BY <2>1, <2>2
<1>7. Rises(g, l)
    BY <1>5, <1>6 DEF Rises
<1>8. g[0] = a /\ g[l - 1] = b
  <2>1. 0 \in 0..n /\ n \in 0..n /\ l - 1 = n
      BY <1>1
  <2> QED BY <2>1, <1>1, <1>5
<1> QED BY <1>4, <1>5, <1>6, <1>7, <1>8 DEF Buffered

(* Other bytes in the last buffer: conn_recv adds, mbuf_split takes away.  *)
LEMMA BufferedLast ==
    ASSUME NEW s, NEW a, NEW b, NEW e, Buffered(s, a, b, e), Total \in Nat,
           NEW n, n = Len(s), n >= 1, NEW x, x = e[n - 1],
           NEW y \in Nat, x <= y, y - x <= CHUNK, y <= Total,
           NEW t, t = Refilled(s, n, x, y),
           NEW g, g = Ending(e, n, y)
    PROVE  Buffered(t, a, y, g) /\ Len(t) = n /\ g[n - 1] = x
<1>1. /\ n \in Nat /\ e \in [0..n -> Nat] /\ s \in Seq(Mbuf) /\ e[0] = a /\ e[n] = b
      /\ a \in Nat /\ b \in Nat /\ DOMAIN s = 1..n
      /\ \A i \in 1..n : /\ s[i] = Fresh(e[i - 1], e[i]) /\ e[i] - e[i - 1] <= CHUNK
                         /\ e[i - 1] <= e[i]
    BY BufferedFacts
<1>2. n \in 1..n /\ n \in 0..n /\ n - 1 \in 0..n /\ n - 1 # n /\ 0 \in 0..n /\ 0 # n
    BY <1>1
<1>3. x \in Nat
    BY <1>1, <1>2
<1>4. PICK d : d = Fresh(x, y)
    OBVIOUS
<1>5. d \in Mbuf
    BY <1>3, <1>4, FreshIs
<1>6. t = [s EXCEPT ![n] = d]
  <2>1. s[n] = Fresh(x, e[n])
      BY <1>1, <1>2
  <2>2. [s[n] EXCEPT !.data = Run(x, y)] = d
      BY <2>1, <1>4 DEF Fresh
  <2>3. t = [s EXCEPT ![n] = [s[n] EXCEPT !.data = Run(x, y)]]
      BY DEF Refilled
  <2> QED BY <2>2, <2>3
<1>7. t \in Seq(Mbuf) /\ Len(t) = n /\ t[n] = d /\ \A i \in 1..n : i # n => t[i] = s[i]
    BY <1>1, <1>2, <1>5, <1>6
<1>8. g \in [0..n -> Nat] /\ g[n] = y /\ \A i \in 0..n : i # n => g[i] = e[i]
    BY <1>1, <1>2 DEF Ending
<1>9. ASSUME NEW i \in 1..n
      PROVE  t[i] = Fresh(g[i - 1], g[i]) /\ g[i] - g[i - 1] <= CHUNK /\ g[i - 1] <= g[i]
  <2>1. CASE i # n
    <3>1. i \in 0..n /\ i - 1 \in 0..n /\ i - 1 # n
        BY <1>1
    <3>2. t[i] = s[i] /\ g[i] = e[i] /\ g[i - 1] = e[i - 1]
        BY <2>1, <3>1, <1>7, <1>8
    <3> QED BY <3>2, <1>1
  <2>2. CASE i = n
    <3>1. t[i] = d /\ g[i] = y /\ g[i - 1] = x
        BY <2>2, <1>2, <1>7, <1>8
    <3> QED BY <3>1, <1>4
  <2> QED BY <2>1, <2>2
<1>10. Rises(g, n)
    BY <1>8, <1>9 DEF Rises
<1>11. g[0] = a /\ g[n - 1] = x
    BY <1>1, <1>2, <1>8
<1> QED BY <1>7, <1>8, <1>9, <1>10, <1>11 DEF Buffered

(* What Held says.                                                         *)
LEMMA HeldFacts ==
    ASSUME NEW m, NEW a, NEW b, NEW x, Held(m, a, b, x)
    PROVE  /\ m \in Message /\ m.mhdr \in Seq(Mbuf) /\ Len(m.mhdr) \in Nat /\ Len(m.mhdr) >= 1
           /\ m.mlen = b - a /\ b <= Total
           /\ a \in Nat /\ b \in Nat /\ x \in Nat /\ a <= x /\ x <= b /\ b - x <= CHUNK
           /\ LastBuf(m) = Fresh(x, b) /\ m.mhdr # <<>>
<1>1. PICK e : Buffered(m.mhdr, a, b, e) /\ e[Len(m.mhdr) - 1] = x
    BY DEF Held
<1>2. PICK n : n = Len(m.mhdr)
    OBVIOUS
<1>3. m \in Message /\ m.mlen = b - a /\ n >= 1 /\ b <= Total
    BY <1>2 DEF Held
<1>4. /\ n \in Nat /\ m.mhdr \in Seq(Mbuf) /\ e[n] = b /\ e[n - 1] = x
      /\ a \in Nat /\ b \in Nat
      /\ \A i \in 1..n : /\ m.mhdr[i] = Fresh(e[i - 1], e[i]) /\ e[i] - e[i - 1] <= CHUNK
                         /\ e[i - 1] \in Nat
                         /\ a <= e[i - 1] /\ e[i - 1] <= e[i]
    BY <1>1, <1>2, BufferedFacts
<1>5. n \in 1..n
    BY <1>3, <1>4
<1>6. m.mhdr[n] = Fresh(x, b) /\ b - x <= CHUNK /\ x \in Nat /\ a <= x /\ x <= b
    BY <1>4, <1>5
<1>7. LastBuf(m) = Fresh(x, b)
    BY <1>2, <1>6 DEF LastBuf, Last
<1>8. m.mhdr # <<>>
  <2>1. Len(<<>>) = 0
      OBVIOUS
  <2> QED BY <2>1, <1>2, <1>3, <1>4
<1> QED BY <1>2, <1>3, <1>4, <1>6, <1>7, <1>8

(* A message that is being received is a message of which nothing was      *)
(* written.                                                                *)
LEMMA HeldIs ==
    ASSUME NEW m, NEW a, NEW b, NEW x, Held(m, a, b, x)
    PROVE  \E e : MessageIs(m, a, a, b, e)
<1>1. PICK e : Buffered(m.mhdr, a, b, e)
    BY DEF Held
<1>2. PICK n : n = Len(m.mhdr)
    OBVIOUS
<1>3. m \in Message /\ m.mlen = b - a
    BY DEF Held
<1>4. /\ n \in Nat /\ Rises(e, n) /\ e[0] = a /\ e[n] = b
      /\ a \in Nat /\ b \in Nat /\ a <= b
      /\ \A i \in 1..n : /\ m.mhdr[i] = Fresh(e[i - 1], e[i]) /\ e[i] - e[i - 1] <= CHUNK
                         /\ e[i - 1] \in Nat /\ e[i] \in Nat
                         /\ a <= e[i - 1] /\ e[i - 1] <= e[i]
    BY <1>1, <1>2, BufferedFacts
<1>5. ASSUME NEW i \in 1..n
      PROVE  /\ m.mhdr[i].data = Run(e[i - 1], e[i])
             /\ e[i] - e[i - 1] <= CHUNK
             /\ m.mhdr[i].pos = Clip(a - e[i - 1], e[i] - e[i - 1])
  <2>1. PICK u, v : u = e[i - 1] /\ v = e[i]
      OBVIOUS
  <2>2. m.mhdr[i] = Fresh(u, v) /\ v - u <= CHUNK /\ u \in Nat /\ v \in Nat /\ a <= u /\ u <= v
      BY <2>1, <1>4
  <2>3. Clip(a - u, v - u) = 0
      BY <2>2, <1>4 DEF Clip
  <2> QED BY <2>1, <2>2, <2>3 DEF Fresh
<1> QED BY <1>2, <1>3, <1>4, <1>5 DEF MessageIs

(* Where parsing got to is no part of what a message holds.                *)
LEMMA HeldAt ==
    ASSUME NEW m, NEW a, NEW b, NEW x, Held(m, a, b, x), NEW q \in 0..CHUNK,
           NEW w, w = [m EXCEPT !.pos = q]
    PROVE  Held(w, a, b, x) /\ w.pos = q /\ w.mhdr = m.mhdr
<1>1. m \in Message
    BY DEF Held
<1>2. w \in Message /\ w.mhdr = m.mhdr /\ w.mlen = m.mlen /\ w.pos = q
    BY <1>1 DEF Message
<1> QED BY <1>2 DEF Held

(* The last buffer ends elsewhere.                                         *)
LEMMA HeldLast ==
    ASSUME NEW m, NEW a, NEW b, NEW x, Held(m, a, b, x), Total \in Nat,
           NEW y \in Nat, x <= y, y - x <= CHUNK, y <= Total, NEW q \in 0..CHUNK,
           NEW l, l = y - a,
           NEW h, h = Refilled(m.mhdr, Len(m.mhdr), x, y),
           NEW w, w = [mhdr |-> h, pos |-> q, mlen |-> l]
    PROVE  Held(w, a, y, x)
<1>1. PICK e : Buffered(m.mhdr, a, b, e) /\ e[Len(m.mhdr) - 1] = x
    BY DEF Held
<1>2. PICK n, s : n = Len(m.mhdr) /\ s = m.mhdr
    OBVIOUS
<1>3. n >= 1 /\ Buffered(s, a, b, e) /\ x = e[n - 1] /\ n = Len(s)
      /\ h = Refilled(s, n, x, y) /\ a \in Nat /\ a <= x
    BY <1>1, <1>2, HeldFacts
<1>4. PICK g : g = Ending(e, n, y)
    OBVIOUS
<1>5. Buffered(h, a, y, g) /\ Len(h) = n /\ g[n - 1] = x
  <2>1. Buffered(s, a, b, e) /\ Total \in Nat /\ n = Len(s) /\ n >= 1 /\ x = e[n - 1]
      BY <1>3
  <2>2. y \in Nat /\ x <= y /\ y - x <= CHUNK /\ y <= Total
      OBVIOUS
  <2>3. h = Refilled(s, n, x, y) /\ g = Ending(e, n, y)
      BY <1>3, <1>4
  <2> QED BY ONLY <2>1, <2>2, <2>3, BufferedLast
<1>6. h \in Seq(Mbuf) /\ l \in 0..Total
  <2>1. a <= y /\ x \in Nat
      BY <1>3, HeldFacts
  <2>2. l \in 0..Total
      BY ONLY <2>1, <1>3, y \in Nat, y <= Total, Total \in Nat, l = y - a
  <2> QED BY <2>2, <1>5 DEF Buffered
<1>7. w \in Message /\ w.mhdr = h /\ w.mlen = l
    BY <1>6 DEF Message
<1> QED BY <1>3, <1>5, <1>7 DEF Held

(* A buffer more.                                                          *)
LEMMA HeldMore ==
    ASSUME NEW m, NEW a, NEW b, NEW x, Held(m, a, b, x), Total \in Nat,
           NEW y \in Nat, b <= y, y - b <= CHUNK, y <= Total, NEW q \in 0..CHUNK,
           NEW l, l = y - a,
           NEW w, w = [mhdr |-> More(m.mhdr, b, y), pos |-> q, mlen |-> l]
    PROVE  Held(w, a, y, b)
<1>1. PICK e : Buffered(m.mhdr, a, b, e)
    BY DEF Held
<1>2. PICK n, s, h : n = Len(m.mhdr) /\ s = m.mhdr /\ h = More(s, b, y)
    OBVIOUS
<1>3. Buffered(s, a, b, e) /\ n = Len(s) /\ a \in Nat /\ b \in Nat /\ a <= b /\ n \in Nat
    BY <1>1, <1>2, HeldFacts
<1>4. PICK k : k = n + 1
    OBVIOUS
<1>5. PICK g : g = Longer(e, n, y)
    OBVIOUS
<1>6. Buffered(h, a, y, g) /\ Len(h) = k /\ g[k - 1] = b
  <2>1. Buffered(s, a, b, e) /\ Total \in Nat /\ n = Len(s) /\ k = n + 1
      BY <1>3, <1>4
  <2>2. y \in Nat /\ b <= y /\ y - b <= CHUNK /\ y <= Total
      OBVIOUS
  <2>3. h = More(s, b, y) /\ g = Longer(e, n, y)
      BY <1>2, <1>5
  <2> QED BY ONLY <2>1, <2>2, <2>3, BufferedAppend
<1>7. h \in Seq(Mbuf) /\ l \in 0..Total
    BY <1>3, <1>6 DEF Buffered
<1>8. w \in Message /\ w.mhdr = h /\ w.mlen = l
    BY <1>2, <1>7 DEF Message
<1>9. k >= 1
    BY <1>3, <1>4
<1> QED BY <1>6, <1>8, <1>9 DEF Held

(* A message of one buffer.                                                *)
LEMMA HeldOne ==
    ASSUME NEW a \in Nat, NEW y \in Nat, a <= y, y - a <= CHUNK, y <= Total, Total \in Nat,
           NEW q \in 0..CHUNK, NEW l, l = y - a,
           NEW w, w = [mhdr |-> More(<<>>, a, y), pos |-> q, mlen |-> l]
    PROVE  Held(w, a, y, a)
<1>1. PICK d, h : d = Fresh(a, y) /\ h = Append(<<>>, d)
    OBVIOUS
<1>2. d \in Mbuf
    BY <1>1, FreshIs
<1>2a. h = More(<<>>, a, y)
    BY <1>1 DEF More
<1>3. h = <<d>> /\ h \in Seq(Mbuf) /\ Len(h) = 1 /\ h[1] = d
    BY <1>1, <1>2
<1>4. PICK e : e = [i \in 0..1 |-> IF i = 0 THEN a ELSE y]
    OBVIOUS
<1>5. e \in [0..1 -> Nat] /\ e[0] = a /\ e[1] = y
    BY <1>4
<1>6. \A i \in 1..1 : i = 1 /\ i - 1 = 0
    OBVIOUS
<1>7. Rises(e, 1)
    BY <1>5, <1>6 DEF Rises
<1>8. Buffered(h, a, y, e)
    BY <1>1, <1>3, <1>5, <1>6, <1>7 DEF Buffered
<1>9. l \in 0..Total
    OBVIOUS
<1>10. w \in Message /\ w.mhdr = h /\ w.mlen = l
    BY <1>2a, <1>3, <1>9 DEF Message
<1>11. Len(h) - 1 = 0
    BY <1>3
<1>12. \E f : Buffered(w.mhdr, a, y, f) /\ f[Len(w.mhdr) - 1] = a
    BY ONLY <1>5, <1>8, <1>10, <1>11, Zenon
<1>13. w.mlen = y - a /\ Len(w.mhdr) >= 1
  <2>1. 1 >= 1
      OBVIOUS
  <2>2. Len(w.mhdr) = 1 /\ w.mlen = l
      BY ONLY <1>3, <1>10, Zenon
  <2>3. l = y - a
      OBVIOUS
  <2> QED BY ONLY <2>1, <2>2, <2>3, Zenon
<1> QED BY <1>10, <1>12, <1>13 DEF Held

-----------------------------------------------------------------------------
(* A set of numbers that is not empty has a least one.                     *)
LEMMA LeastExists ==
    ASSUME NEW S, S \subseteq Nat, NEW a \in S
    PROVE  \E e \in S : \A k \in S : e <= k
<1> DEFINE G == {n \in Nat : (\E s \in S : s <= n) => \E e \in S : \A k \in S : e <= k}
<1>1. 0 \in G
  <2> SUFFICES ASSUME NEW s \in S, s <= 0 PROVE \E e \in S : \A k \in S : e <= k
      OBVIOUS
  <2>1. \A k \in S : s <= k
      OBVIOUS
  <2> QED BY <2>1
<1>2. ASSUME NEW n \in Nat, n \in G PROVE n + 1 \in G
  <2> SUFFICES ASSUME NEW s \in S, s <= n + 1, ~(\E t \in S : t <= n)
               PROVE  \E e \in S : \A k \in S : e <= k
      BY <1>2
  <2>1. \A k \in S : s <= k
      OBVIOUS
  <2> QED BY <2>1
<1>3. \A n \in Nat : n \in G
  <2> HIDE DEF G
  <2>1. \A n \in Nat : n \in G => n + 1 \in G
      BY <1>2
  <2> QED BY ONLY <1>1, <2>1, SetInduction
<1>4. a \in G /\ a <= a
    BY <1>3
<1> QED BY <1>4

(* A sum is a number.                                                      *)
LEMMA SumNat ==
    ASSUME NEW s \in Seq(Nat)
    PROVE  Sum(s) \in Nat
<1>1. PICK n : n = Len(s)
    OBVIOUS
<1>2. n \in Nat /\ s \in [1..n -> Nat]
    BY <1>1
<1>3. PICK g \in [0..n -> Nat] : Sum(s) = g[n]
    BY ONLY <1>2, SumExists
<1>4. n \in 0..n
    BY <1>2
<1> QED BY <1>3, <1>4

(* The places where requests end.                                          *)
LEMMA EndsAre ==
    /\ Total \in Nat /\ Ends \subseteq Nat
    /\ Total > 0 => Total \in Ends
<1>1. Lengths \in Seq(Nat)
    BY StreamAssumption
<1>2. Total \in Nat
    BY <1>1, SumNat DEF Total
<1>3. ASSUME NEW k \in DOMAIN Lengths PROVE Sum(SubSeq(Lengths, 1, k)) \in Nat
  <2>1. PICK s : s = SubSeq(Lengths, 1, k)
      OBVIOUS
  <2>2. s \in Seq(Nat)
      BY <1>1, <2>1
  <2> QED BY <2>1, <2>2, SumNat
<1>4. Ends \subseteq Nat
    BY <1>3 DEF Ends
<1>5. ASSUME Total > 0 PROVE Total \in Ends
  <2>1. PICK n : n = Len(Lengths)
      OBVIOUS
  <2>2. n \in Nat /\ DOMAIN Lengths = 1..n /\ Lengths \in [1..n -> Nat]
      BY <1>1, <2>1
  <2>3. n # 0
    <3> SUFFICES ASSUME n = 0 PROVE FALSE
        OBVIOUS
    <3>1. PICK g \in [0..n -> Nat] : g[0] = 0 /\ Sum(Lengths) = g[n]
        BY ONLY <2>2, SumExists
    <3> QED BY <3>1, <1>5 DEF Total
  <2>4. SubSeq(Lengths, 1, n) = Lengths
      BY <1>1, <2>1
  <2>5. n \in DOMAIN Lengths
      BY <2>2, <2>3
  <2> QED BY <2>4, <2>5 DEF Total, Ends
<1> QED BY <1>2, <1>4, <1>5

-----------------------------------------------------------------------------
(* No request ends after a up to b.                                        *)
NoEnd(a, b) == \A k \in Ends : ~(a < k /\ k <= b)

(* Where the request that is being received ends.                          *)
LEMMA EndIs ==
    ASSUME NEW m, NEW a, NEW b, NEW x, Held(m, a, b, x), a < b, NoEnd(a, x)
    PROVE  /\ \A i \in EndOf(m) : /\ i \in 1..(b - x) /\ x + i \in Ends
                                  /\ \A k \in Ends : ~(a < k /\ k < x + i)
           /\ EndOf(m) = {} => NoEnd(a, b)
<1>1. /\ a \in Nat /\ b \in Nat /\ x \in Nat /\ a <= x /\ x <= b /\ b <= Total
      /\ LastBuf(m) = Fresh(x, b)
    BY HeldFacts
<1>2. Content(m)[1] = a + 1
  <2>1. PICK e : MessageIs(m, a, a, b, e)
      BY HeldIs
  <2>2. Content(m) = Run(a, b)
      BY <2>1, ContentIs
  <2>3. a \in Nat /\ b \in Nat /\ a <= b
      BY <1>1
  <2>4. Run(a, b)[1] = a + 1
      BY ONLY <2>3, a < b, RunFacts
  <2> QED BY <2>2, <2>4
<1> DEFINE P(k) == k >= a + 1 /\ \A j \in Ends : j >= a + 1 => k <= j
<1>3. \E k \in Ends : P(k)
  <2> DEFINE S == {k \in Ends : k >= a + 1}
  <2>0. Total >= a + 1 /\ Total > 0 /\ Total \in Nat
      BY <1>1, EndsAre
  <2>1. S \subseteq Nat /\ Total \in S
      BY <2>0, EndsAre
  <2> HIDE DEF S
  <2>2. \E e \in S : \A k \in S : e <= k
      BY <2>1, LeastExists
  <2> QED BY <2>2 DEF S
<1>4. PICK e : e = CHOOSE k \in Ends : P(k)
    OBVIOUS
<1>5. e \in Ends /\ P(e)
    BY <1>3, <1>4
<1>6. e \in Nat
    BY <1>5, EndsAre
<1>7. EndOf(m) = {i \in 1..(b - x) : x + i = e}
  <2>1. EndOf(m) = {i \in DOMAIN LastBuf(m).data : LastBuf(m).data[i] = e}
      BY <1>2, <1>4 DEF EndOf
  <2>2. LastBuf(m).data = Run(x, b)
      BY <1>1 DEF Fresh
  <2>3. DOMAIN Run(x, b) = 1..(b - x) /\ \A i \in 1..(b - x) : Run(x, b)[i] = x + i
      BY <1>1, RunFacts
  <2> QED BY <2>1, <2>2, <2>3
<1>8. ASSUME NEW i \in EndOf(m)
      PROVE  i \in 1..(b - x) /\ x + i \in Ends /\ \A k \in Ends : ~(a < k /\ k < x + i)
  <2>1. i \in 1..(b - x) /\ x + i = e
      BY <1>7
  <2>2. \A k \in Ends : ~(a < k /\ k < e)
      BY <1>1, <1>5, <1>6, EndsAre
  <2> QED BY <2>1, <2>2, <1>5
<1>9. ASSUME EndOf(m) = {} PROVE NoEnd(a, b)
  <2> SUFFICES ASSUME NEW k \in Ends, a < k, k <= b PROVE FALSE
      BY DEF NoEnd
  <2>1. k \in Nat /\ e <= k /\ a < e
      BY <1>1, <1>5, <1>6, EndsAre
  <2>2. x < e
      BY <2>1, <1>1, <1>5, <1>6 DEF NoEnd
  <2>3. e - x \in 1..(b - x) /\ x + (e - x) = e
      BY <2>1, <2>2, <1>1, <1>6
  <2> QED BY <2>3, <1>7, <1>9
<1> QED BY <1>8, <1>9

(* What is being received begins where the last request that was forwarded *)
(* ends, and unless it is being parsed no request ends in it.              *)
Reads(r) ==
    /\ r \in Nat /\ r <= nread
    /\ \/ rmsg = <<>> /\ pc # "parse" /\ (~eof => r = nread)
       \/ \E m, x : rmsg = <<m>> /\ Held(m, r, nread, x) /\ NoEnd(r, x)
    /\ pc # "parse" \/ eof => NoEnd(r, nread)
    /\ eof => ~recv_ready /\ pc # "read"

(* The scalars.                                                            *)
Fields ==
    /\ arrived \in 0..Total /\ nread \in 0..arrived
    /\ fin \in BOOLEAN /\ eof \in BOOLEAN /\ recv_ready \in BOOLEAN
    /\ pc \in {"idle", "read", "parse", "send"}

(* msg_recv_chain finds room for a byte in the last buffer, which may be a *)
(* new one.                                                                *)
LEMMA RoomIs ==
    ASSUME NEW m, NEW a, NEW b, NEW x, Held(m, a, b, x)
    PROVE  \E z \in {x, b} : /\ Held(Room(m), a, b, z) /\ b - z < CHUNK
                             /\ mbuf_size(LastBuf(Room(m))) = CHUNK - (b - z)
<1>1. /\ m \in Message /\ m.mhdr # <<>> /\ m.mlen = b - a
      /\ a \in Nat /\ b \in Nat /\ x \in Nat /\ a <= x /\ x <= b /\ b - x <= CHUNK /\ b <= Total
      /\ LastBuf(m) = Fresh(x, b)
    BY HeldFacts
<1>2. CHUNK \in Nat /\ CHUNK > 0 /\ Total \in Nat
    BY StreamAssumption, EndsAre
<1>3. ASSUME NEW w, NEW z, Held(w, a, b, z) PROVE mbuf_size(LastBuf(w)) = CHUNK - (b - z)
  <2>1. LastBuf(w) = Fresh(z, b) /\ z \in Nat /\ z <= b
      BY <1>3, HeldFacts
  <2>2. Len(Run(z, b)) = b - z
      BY <2>1, <1>1, RunFacts
  <2>3. Fresh(z, b).data = Run(z, b)
      BY DEF Fresh
  <2> QED BY <2>1, <2>2, <2>3 DEF mbuf_size
<1>4. mbuf_full(LastBuf(m)) <=> b - x = CHUNK
    BY <1>1, <1>2, <1>3 DEF mbuf_full
<1>5. CASE b - x = CHUNK
  <2>1. PICK w : w = [mhdr |-> More(m.mhdr, b, b), pos |-> 0, mlen |-> m.mlen]
      OBVIOUS
  <2>2. mbuf_get = Fresh(b, b)
    <3>1. b <= b
        BY <1>1
    <3>2. Run(b, b) = <<>>
        BY <1>1, <3>1, RunFacts
    <3> QED BY <3>2 DEF mbuf_get, Fresh
  <2>3. Room(m) = [[m EXCEPT !.mhdr = Append(m.mhdr, Fresh(b, b))] EXCEPT !.pos = 0]
      BY <1>4, <1>5, <2>2 DEF Room, mbuf_insert
  <2>4. Room(m) = w
      BY <2>1, <2>3, <1>1 DEF More, Message
  <2>5. b <= b /\ b - b <= CHUNK /\ 0 \in 0..CHUNK /\ b - b < CHUNK
      BY <1>1, <1>2
  <2>6. Held(w, a, b, b)
      BY ONLY <2>1, <2>5, <1>1, <1>2, Held(m, a, b, x), HeldMore
  <2> QED BY <1>3, <2>4, <2>5, <2>6
<1>6. CASE b - x # CHUNK
  <2>1. Room(m) = m
      BY <1>1, <1>4, <1>6 DEF Room
  <2>2. b - x < CHUNK
      BY <1>1, <1>2, <1>6
  <2> QED BY <1>3, <2>1, <2>2
<1> QED BY <1>5, <1>6

(* A new message gets its first buffer.                                    *)
LEMMA RoomNew ==
    ASSUME NEW a \in Nat, a <= Total
    PROVE  Held(Room(msg_get), a, a, a)
<1>1. CHUNK \in Nat /\ Total \in Nat /\ a <= a /\ a - a <= CHUNK /\ 0 \in 0..CHUNK
    BY StreamAssumption, EndsAre
<1>2. PICK w, l : l = a - a /\ w = [mhdr |-> More(<<>>, a, a), pos |-> 0, mlen |-> l]
    OBVIOUS
<1>3. Held(w, a, a, a)
    BY ONLY <1>1, <1>2, a \in Nat, a <= Total, HeldOne
<1>4. mbuf_get = Fresh(a, a)
  <2>1. Run(a, a) = <<>>
      BY <1>1, RunFacts
  <2> QED BY <2>1 DEF mbuf_get, Fresh
<1>5. Room(msg_get) = [mbuf_insert(msg_get, mbuf_get) EXCEPT !.pos = 0]
    BY DEF Room, msg_get
<1>6. mbuf_insert(msg_get, mbuf_get) = [mhdr |-> Append(<<>>, mbuf_get), pos |-> 0, mlen |-> 0]
    BY DEF mbuf_insert, msg_get
<1>7. l = 0
    BY <1>2
<1>8. Room(msg_get) = w
    BY <1>2, <1>4, <1>5, <1>6, <1>7 DEF More
<1> QED BY <1>3, <1>8

(* The message that msg_recv_chain receives into.                          *)
LEMMA ReceivingIs ==
    ASSUME NEW r, Reads(r), Fields, pc = "read"
    PROVE  \E z : /\ Held(Room(Receiving), r, nread, z) /\ NoEnd(r, z) /\ nread - z < CHUNK
                  /\ mbuf_size(LastBuf(Room(Receiving))) = CHUNK - (nread - z)
<1>1. r \in Nat /\ r <= nread /\ nread \in Nat /\ nread <= Total /\ NoEnd(r, nread) /\ ~eof
    BY EndsAre DEF Reads, Fields
<1>2. CASE rmsg = <<>>
  <2>1. Receiving = msg_get /\ r = nread
    <3>1. <<>> # <<CHOOSE m : TRUE>>
        OBVIOUS
    <3>2. \A m : <<>> # <<m>>
        OBVIOUS
    <3> QED BY <1>1, <1>2, <3>2 DEF Receiving, Reads
  <2>2. Held(Room(Receiving), r, nread, r)
      BY <1>1, <2>1, RoomNew
  <2>3. PICK w : w = Room(Receiving)
      OBVIOUS
  <2>4. LastBuf(w) = Fresh(r, r)
      BY <2>1, <2>2, <2>3, HeldFacts
  <2>5. Len(Run(r, r)) = r - r
    <3>1. r <= r
        BY <1>1
    <3> QED BY <1>1, <3>1, RunFacts
  <2>6. mbuf_size(LastBuf(w)) = CHUNK - (r - r)
      BY <2>4, <2>5 DEF mbuf_size, Fresh
  <2>7. NoEnd(r, r)
      BY <1>1, <2>1
  <2>8. r - r < CHUNK
      BY <1>1, StreamAssumption
  <2> QED BY <2>1, <2>2, <2>3, <2>6, <2>7, <2>8
<1>3. CASE rmsg # <<>>
  <2>1. PICK m, x : rmsg = <<m>> /\ Held(m, r, nread, x) /\ NoEnd(r, x)
      BY <1>3 DEF Reads
  <2>2. Receiving = m
      BY <2>1 DEF Receiving
  <2>3. PICK z \in {x, nread} : /\ Held(Room(m), r, nread, z) /\ nread - z < CHUNK
                                /\ mbuf_size(LastBuf(Room(m))) = CHUNK - (nread - z)
      BY <2>1, RoomIs
  <2>4. NoEnd(r, z)
      BY <2>1, <2>3, <1>1
  <2> QED BY <2>2, <2>3, <2>4
<1> QED BY <1>2, <1>3

(* No request ends in a part of where none does.                           *)
LEMMA NoEndIs ==
    ASSUME NEW a \in Nat, NEW b \in Nat, NEW c \in Nat, c <= b, NoEnd(a, b)
    PROVE  NoEnd(a, c)
BY EndsAre DEF NoEnd

(* msg_recv_chain: conn_recv returns bytes.                                *)
LEMMA ReadsRecv ==
    ASSUME NEW r, Reads(r), Fields, conn_recv
    PROVE  Reads(r)' /\ Fields'
<1>1. pc = "read" /\ arrived > nread /\ ~eof /\ eof' = eof /\ arrived' = arrived /\ fin' = fin /\ pc' = "parse"
    BY DEF conn_recv, Reads
<1>2. PICK z : /\ Held(Room(Receiving), r, nread, z) /\ NoEnd(r, z) /\ nread - z < CHUNK
               /\ mbuf_size(LastBuf(Room(Receiving))) = CHUNK - (nread - z)
    BY <1>1, ReceivingIs
<1>3. PICK m, b, size : m = Room(Receiving) /\ b = nread /\ size = mbuf_size(LastBuf(m))
    OBVIOUS
<1>4. PICK n : n = IF arrived - b < size THEN arrived - b ELSE size
    OBVIOUS
<1>5. PICK w : w = [m EXCEPT !.mhdr[Len(m.mhdr)].data = @ \o [i \in 1..n |-> b + i],
                             !.mlen = @ + n]
    OBVIOUS
<1>6. rmsg' = <<w>> /\ nread' = b + n /\ recv_ready' = (n = size)
    BY <1>3, <1>4, <1>5 DEF conn_recv
<1>7. Held(m, r, b, z) /\ size = CHUNK - (b - z)
    BY <1>2, <1>3
<1>8. /\ m \in Message /\ m.mhdr \in Seq(Mbuf) /\ Len(m.mhdr) \in Nat /\ Len(m.mhdr) >= 1 /\ m.mlen = b - r
      /\ r \in Nat /\ b \in Nat /\ z \in Nat /\ r <= z /\ z <= b /\ b - z <= CHUNK /\ b <= Total
      /\ LastBuf(m) = Fresh(z, b)
    BY <1>7, HeldFacts
<1>9. CHUNK \in Nat /\ Total \in Nat /\ arrived \in Nat /\ arrived <= Total /\ b < arrived
    BY <1>1, <1>3, StreamAssumption, EndsAre DEF Fields
<1>10. n \in Nat /\ n <= arrived - b /\ n <= CHUNK - (b - z)
  <2>1. b - z < CHUNK
      BY <1>2, <1>3
  <2> QED BY <1>4, <1>7, <1>8, <1>9, <2>1
<1>11. PICK y, l : y = b + n /\ l = y - r
    OBVIOUS
<1>12. y \in Nat /\ z <= y /\ b <= y /\ y <= arrived /\ y <= Total /\ y - z <= CHUNK /\ r <= y /\ (b - r) + n = l
       /\ y - b = n
    BY <1>8, <1>9, <1>10, <1>11
<1>13. m.mhdr[Len(m.mhdr)].data \o [i \in 1..n |-> b + i] = Run(z, y)
  <2>1. m.mhdr[Len(m.mhdr)].data = Run(z, b)
      BY <1>8 DEF LastBuf, Last, Fresh
  <2>2. Run(b, y) = [i \in 1..n |-> b + i]
      BY <1>12 DEF Run
  <2>3. Run(z, b) \o Run(b, y) = Run(z, y)
      BY <1>8, <1>12, RunJoin
  <2> QED BY <2>1, <2>2, <2>3
<1>14. PICK h, q : h = Refilled(m.mhdr, Len(m.mhdr), z, y) /\ q = m.pos
    OBVIOUS
<1>15. w = [mhdr |-> h, pos |-> q, mlen |-> l]
  <2>1. w = [mhdr |-> [m.mhdr EXCEPT ![Len(m.mhdr)].data = @ \o [i \in 1..n |-> b + i]],
             pos |-> m.pos, mlen |-> m.mlen + n]
      BY <1>5, <1>8 DEF Message
  <2>2. [m.mhdr EXCEPT ![Len(m.mhdr)].data = @ \o [i \in 1..n |-> b + i]] = h
      BY <1>13, <1>14 DEF Refilled
  <2>3. m.mlen + n = l
      BY <1>8, <1>12
  <2> QED BY <2>1, <2>2, <2>3, <1>14
<1>16. q \in 0..CHUNK
    BY <1>8, <1>14 DEF Message
<1>17. Held(w, r, y, z)
  <2>1. Held(m, r, b, z) /\ Total \in Nat /\ y \in Nat /\ z <= y /\ y - z <= CHUNK /\ y <= Total
      BY <1>7, <1>9, <1>12
  <2> QED BY ONLY <2>1, <1>11, <1>14, <1>15, <1>16, HeldLast
<1>18. nread' = y /\ pc' = "parse" /\ ~eof'
    BY <1>1, <1>6, <1>11
<1>19. Reads(r)'
    BY <1>2, <1>6, <1>8, <1>12, <1>17, <1>18 DEF Reads
<1>20. Fields'
    BY <1>1, <1>6, <1>12, <1>18 DEF Fields
<1> QED BY <1>19, <1>20

(* msg_recv_chain: there is nothing to read, or no more will come.         *)
LEMMA ReadsAgain ==
    ASSUME NEW r, Reads(r), Fields, conn_recv_again \/ conn_recv_eof
    PROVE  Reads(r)' /\ Fields'
<1>1. /\ pc = "read" /\ arrived' = arrived /\ fin' = fin /\ nread' = nread /\ recv_ready' = FALSE
      /\ rmsg' = <<Room(Receiving)>> /\ pc' \in {"idle", "parse"}
      /\ eof' \in BOOLEAN /\ (pc' = "parse" \/ ~eof')
  <2>1. ASSUME conn_recv_again
        PROVE  pc' \in {"idle", "parse"} /\ eof' \in BOOLEAN /\ (pc' = "parse" \/ ~eof')
    <3>1. pc' = "idle" /\ eof' = eof
        BY <2>1 DEF conn_recv_again
    <3>2. ~eof /\ eof \in BOOLEAN
        BY <2>1 DEF conn_recv_again, Reads, Fields
    <3> QED BY <3>1, <3>2
  <2>2. ASSUME conn_recv_eof
        PROVE  pc' \in {"idle", "parse"} /\ eof' \in BOOLEAN /\ (pc' = "parse" \/ ~eof')
      BY <2>2 DEF conn_recv_eof
  <2>3. /\ pc = "read" /\ arrived' = arrived /\ fin' = fin /\ nread' = nread
        /\ rmsg' = <<Room(Receiving)>>
      BY DEF conn_recv_again, conn_recv_eof
  <2>4. recv_ready' = FALSE
      BY DEF conn_recv_again, conn_recv_eof
  <2> QED BY <2>1, <2>2, <2>3, <2>4, Zenon
<1>2. PICK z : Held(Room(Receiving), r, nread, z) /\ NoEnd(r, z)
    BY <1>1, ReceivingIs
<1>3. PICK m : m = Room(Receiving)
    OBVIOUS
<1>4. rmsg' = <<m>> /\ Held(m, r, nread', z)
    BY <1>1, <1>2, <1>3
<1>5. NoEnd(r, nread') /\ r \in Nat /\ r <= nread'
    BY <1>1 DEF Reads
<1>6. Reads(r)'
  <2>1. pc' # "read" /\ ~recv_ready'
      BY <1>1
  <2>2. rmsg' = <<m>> /\ Held(m, r, nread', z) /\ NoEnd(r, z)
      BY <1>2, <1>4
  <2> QED BY <1>5, <2>1, <2>2 DEF Reads
<1>7. Fields'
    BY <1>1 DEF Fields
<1> QED BY <1>6, <1>7

(* After parsing: nmsg is what is left of bytes after r.                   *)
LEMMA ReadsOn ==
    ASSUME NEW r \in Nat, NEW nmsg, NEW more \in BOOLEAN, ParseOn(nmsg, more), Fields,
           eof => ~recv_ready, r <= nread,
           nmsg = <<>> => r = nread /\ ~more,
           nmsg # <<>> => \E m, x : nmsg = <<m>> /\ Held(m, r, nread, x) /\ NoEnd(r, x),
           ~more \/ eof => NoEnd(r, nread),
           UNCHANGED <<arrived, fin, nread, eof, recv_ready>>
    PROVE  Reads(r)' /\ Fields'
<1>1. /\ rmsg' = (IF eof THEN <<>> ELSE nmsg)
      /\ pc' = IF ~eof /\ more THEN "parse" ELSE IF recv_ready THEN "read" ELSE "idle"
    BY DEF ParseOn
<1>2. /\ arrived' = arrived /\ fin' = fin /\ nread' = nread /\ eof' = eof /\ recv_ready' = recv_ready
    OBVIOUS
<1>3. Fields'
    BY <1>1, <1>2 DEF Fields
<1>4. CASE eof
  <2>1. rmsg' = <<>> /\ pc' = "idle" /\ eof'
      BY <1>1, <1>2, <1>4
  <2>2. NoEnd(r, nread')
      BY <1>2, <1>4
  <2> QED BY <1>2, <1>3, <2>1, <2>2 DEF Reads
<1>5. CASE ~eof
  <2>1. rmsg' = nmsg /\ ~eof' /\ (pc' = "parse" <=> more)
      BY <1>1, <1>2, <1>5
  <2>2. ~more => NoEnd(r, nread')
      BY <1>2
  <2>3. CASE nmsg = <<>>
    <3>1. rmsg' = <<>> /\ r = nread' /\ pc' # "parse" /\ NoEnd(r, nread')
        BY <2>1, <2>2, <2>3, <1>2
    <3> QED BY <3>1, <1>2, <1>3, <2>1 DEF Reads
  <2>4. CASE nmsg # <<>>
    <3>1. PICK m, x : rmsg' = <<m>> /\ Held(m, r, nread', x) /\ NoEnd(r, x)
        BY <2>1, <2>4, <1>2
    <3> QED BY <3>1, <2>1, <2>2, <1>2, <1>3 DEF Reads
  <2> QED BY <2>3, <2>4
<1> QED BY <1>4, <1>5

(* The message that msg_parse parses.                                      *)
LEMMA ReadsParsing ==
    ASSUME NEW r, Reads(r), Fields, pc = "parse"
    PROVE  \E m, x : /\ rmsg = <<m>> /\ rmsg[1] = m /\ Held(m, r, nread, x) /\ NoEnd(r, x)
                     /\ (eof => ~recv_ready /\ NoEnd(r, nread)) /\ r \in Nat /\ r <= nread
<1>1. PICK m, x : rmsg = <<m>> /\ Held(m, r, nread, x) /\ NoEnd(r, x)
    BY DEF Reads
<1>2. rmsg[1] = m
    BY <1>1
<1>3. (eof => ~recv_ready /\ NoEnd(r, nread)) /\ r \in Nat /\ r <= nread
    BY DEF Reads
<1> QED BY <1>1, <1>2, <1>3

(* msg_parse of a message without bytes.                                   *)
LEMMA ReadsParseEmpty ==
    ASSUME NEW r, Reads(r), Fields, msg_parse_empty
    PROVE  Reads(r)' /\ Fields'
<1>1. pc = "parse" /\ rmsg[1].mlen = 0 /\ ParseOn(<<>>, FALSE)
      /\ UNCHANGED <<arrived, fin, nread, eof, recv_ready>>
    BY DEF msg_parse_empty
<1>2. PICK m, x : /\ rmsg = <<m>> /\ rmsg[1] = m /\ Held(m, r, nread, x) /\ NoEnd(r, x)
                  /\ (eof => ~recv_ready /\ NoEnd(r, nread)) /\ r \in Nat /\ r <= nread
    BY <1>1, ReadsParsing
<1>3. r = nread
  <2>1. m.mlen = nread - r /\ nread \in Nat
      BY <1>2, HeldFacts
  <2> QED BY <2>1, <1>1, <1>2
<1>4. NoEnd(r, nread)
    BY <1>2, <1>3, EndsAre DEF NoEnd
<1>5. PICK nmsg, more : nmsg = <<>> /\ more = FALSE
    OBVIOUS
<1>6. ParseOn(nmsg, more) /\ more \in BOOLEAN /\ (nmsg = <<>> => r = nread /\ ~more)
    BY <1>1, <1>3, <1>5
<1>7. nmsg # <<>> => \E mm, xx : nmsg = <<mm>> /\ Held(mm, r, nread, xx) /\ NoEnd(r, xx)
    BY <1>5
<1> QED BY <1>1, <1>2, <1>4, <1>5, <1>6, <1>7, ReadsOn

(* msg_parse: the request is not complete.                                 *)
LEMMA ReadsParseAgain ==
    ASSUME NEW r, Reads(r), Fields, msg_parse_again
    PROVE  Reads(r)' /\ Fields'
<1>1. /\ pc = "parse" /\ rmsg[1].mlen > 0 /\ EndOf(rmsg[1]) = {}
      /\ ParseOn(<<[rmsg[1] EXCEPT !.pos = Len(LastBuf(rmsg[1]).data)]>>, FALSE)
      /\ UNCHANGED <<arrived, fin, nread, eof, recv_ready>>
    BY DEF msg_parse_again, Incomplete
<1>2. PICK m, x : /\ rmsg = <<m>> /\ rmsg[1] = m /\ Held(m, r, nread, x) /\ NoEnd(r, x)
                  /\ (eof => ~recv_ready /\ NoEnd(r, nread)) /\ r \in Nat /\ r <= nread
    BY <1>1, ReadsParsing
<1>3. /\ m.mlen = nread - r /\ nread \in Nat /\ x \in Nat /\ x <= nread /\ nread - x <= CHUNK
      /\ LastBuf(m) = Fresh(x, nread)
    BY <1>2, HeldFacts
<1>4. r < nread
    BY <1>1, <1>2, <1>3
<1>5. NoEnd(r, nread)
    BY <1>1, <1>2, <1>4, EndIs
<1>6. PICK q : q = Len(LastBuf(m).data)
    OBVIOUS
<1>7. q \in 0..CHUNK
  <2>1. q = Len(Run(x, nread))
      BY <1>3, <1>6 DEF Fresh
  <2>2. q = nread - x
      BY <2>1, <1>3, RunFacts
  <2> QED BY <2>2, <1>3, StreamAssumption
<1>8. PICK w : w = [m EXCEPT !.pos = q]
    OBVIOUS
<1>9. Held(w, r, nread, x)
    BY ONLY <1>2, <1>7, <1>8, HeldAt
<1>10. PICK nmsg, more : nmsg = <<w>> /\ more = FALSE
    OBVIOUS
<1>11. ParseOn(nmsg, more)
    BY <1>1, <1>2, <1>6, <1>8, <1>10
<1>12. nmsg # <<>> /\ more \in BOOLEAN /\ ~more
    BY <1>10
<1>13. \E mm, xx : nmsg = <<mm>> /\ Held(mm, r, nread, xx) /\ NoEnd(r, xx)
    BY <1>2, <1>9, <1>10
<1> QED BY <1>1, <1>2, <1>5, <1>11, <1>12, <1>13, ReadsOn

(* mbuf_split, of a message whose last buffer holds the bytes after x and  *)
(* that was parsed up to its byte y.                                       *)
LEMMA SplitIs ==
    ASSUME NEW m, NEW a, NEW b, NEW x, Held(m, a, b, x),
           NEW y \in Nat, x <= y, y <= b, NEW q, q = y - x, m.pos = q
    PROVE  /\ mbuf_split(m).kept = [m EXCEPT !.mhdr = Refilled(m.mhdr, Len(m.mhdr), x, y)]
           /\ mbuf_split(m).rest = Fresh(y, b)
<1>1. /\ m \in Message /\ m.mhdr \in Seq(Mbuf) /\ Len(m.mhdr) \in Nat /\ Len(m.mhdr) >= 1
      /\ a \in Nat /\ b \in Nat /\ x \in Nat /\ x <= b
      /\ LastBuf(m) = Fresh(x, b)
    BY HeldFacts
<1>2. LastBuf(m).data = Run(x, b) /\ m.mhdr[Len(m.mhdr)].data = Run(x, b)
    BY <1>1 DEF Fresh, LastBuf, Last
<1>3. PICK n, z, o, zero, u : n = b - x /\ z = q + 1 /\ o = 1 /\ zero = 0 /\ u = Len(m.mhdr)
    OBVIOUS
<1>4. Len(Run(x, b)) = n /\ n \in Nat /\ q \in Nat /\ q <= n
    BY <1>1, <1>3, RunFacts
<1>5. Slice(Run(x, b), z, n) = Run(y, b)
  <2>1. q <= n /\ n <= b - x /\ y = x + q /\ b = x + n
      BY <1>1, <1>3, <1>4
  <2> QED BY ONLY <1>1, <1>3, <1>4, <2>1, y \in Nat, RunPart
<1>6. Slice(Run(x, b), o, q) = Run(x, y)
  <2>1. zero \in Nat /\ zero <= q /\ q <= b - x /\ o = zero + 1 /\ y = x + q
      BY <1>1, <1>3, <1>4
  <2>2. PICK v : v = x + zero
      OBVIOUS
  <2>3. Slice(Run(x, b), o, q) = Run(v, y)
      BY ONLY <1>1, <1>4, <2>1, <2>2, y \in Nat, RunPart
  <2>4. v = x
      BY <1>1, <1>3, <2>2
  <2> QED BY <2>3, <2>4
<1>7. mbuf_split(m).rest = Fresh(y, b)
  <2>1. mbuf_split(m).rest = [mbuf_get EXCEPT !.data = SubSeq(LastBuf(m).data, m.pos + 1, Len(LastBuf(m).data))]
      BY DEF mbuf_split
  <2>2. SubSeq(LastBuf(m).data, m.pos + 1, Len(LastBuf(m).data)) = Run(y, b)
      BY <1>2, <1>3, <1>4, <1>5 DEF Slice
  <2> QED BY <2>1, <2>2 DEF mbuf_get, Fresh
<1>8. mbuf_split(m).kept = [m EXCEPT !.mhdr = Refilled(m.mhdr, u, x, y)]
  <2>1. mbuf_split(m).kept = [m EXCEPT !.mhdr = [m.mhdr EXCEPT ![u] =
                                 [m.mhdr[u] EXCEPT !.data = SubSeq(m.mhdr[u].data, 1, m.pos)]]]
      BY <1>1, <1>3 DEF mbuf_split, Message
  <2>2. SubSeq(m.mhdr[u].data, 1, m.pos) = Run(x, y)
      BY <1>2, <1>3, <1>6 DEF Slice
  <2> QED BY <2>1, <2>2 DEF Refilled
<1> QED BY <1>3, <1>7, <1>8

(* msg_repair splits the last buffer where the token began.                *)
LEMMA ReadsRepair ==
    ASSUME NEW r, Reads(r), Fields, NEW pos, msg_repair(pos)
    PROVE  Reads(r)' /\ Fields'
<1>1. /\ pc = "parse" /\ rmsg[1].mlen > 0 /\ EndOf(rmsg[1]) = {}
      /\ mbuf_full(LastBuf(rmsg[1])) /\ pos \in 1..(CHUNK - 1)
      /\ ParseOn(<<Repaired([rmsg[1] EXCEPT !.pos = pos])>>, FALSE)
      /\ UNCHANGED <<arrived, fin, nread, eof, recv_ready>>
    BY DEF msg_repair, Incomplete
<1>2. PICK m, x : /\ rmsg = <<m>> /\ rmsg[1] = m /\ Held(m, r, nread, x) /\ NoEnd(r, x)
                  /\ (eof => ~recv_ready /\ NoEnd(r, nread)) /\ r \in Nat /\ r <= nread
    BY <1>1, ReadsParsing
<1>3. PICK b : b = nread
    OBVIOUS
<1>4. /\ m \in Message /\ m.mlen = b - r /\ b \in Nat /\ x \in Nat /\ r <= x /\ x <= b
      /\ b - x <= CHUNK /\ b <= Total /\ LastBuf(m) = Fresh(x, b)
    BY <1>2, <1>3, HeldFacts
<1>5. CHUNK \in Nat /\ Total \in Nat
    BY StreamAssumption, EndsAre
<1>6. b - x = CHUNK
  <2>1. Len(Run(x, b)) = b - x
      BY <1>4, RunFacts
  <2>2. CHUNK - Len(LastBuf(m).data) = 0
      BY <1>1, <1>2 DEF mbuf_full, mbuf_size
  <2>3. Len(LastBuf(m).data) = b - x
      BY <1>4, <2>1 DEF Fresh
  <2> QED BY <2>2, <2>3, <1>4, <1>5
<1>7. NoEnd(r, nread)
  <2>1. r < b
      BY <1>1, <1>2, <1>4
  <2> QED BY <2>1, <1>1, <1>2, <1>3, EndIs
<1>8. PICK y, l, k : y = x + pos /\ l = y - r /\ k = b - r
    OBVIOUS
<1>9. /\ y \in Nat /\ x <= y /\ y <= b /\ pos = y - x /\ y - x <= CHUNK /\ b - y <= CHUNK
      /\ y <= Total /\ pos \in 0..CHUNK /\ 0 \in 0..CHUNK
    BY <1>1, <1>4, <1>5, <1>6, <1>8
<1>10. PICK v : v = [m EXCEPT !.pos = pos]
    OBVIOUS
<1>11. Held(v, r, b, x) /\ v.pos = pos /\ v.mhdr = m.mhdr
    BY ONLY <1>2, <1>3, <1>9, <1>10, HeldAt
<1>12. v \in Message /\ v.mlen = k
  <2>1. v.mlen = m.mlen
      BY <1>4, <1>10 DEF Message
  <2> QED BY <2>1, <1>4, <1>8, <1>11, HeldFacts
<1>13. /\ mbuf_split(v).kept = [v EXCEPT !.mhdr = Refilled(v.mhdr, Len(v.mhdr), x, y)]
       /\ mbuf_split(v).rest = Fresh(y, b)
    BY ONLY <1>9, <1>11, SplitIs
<1>14. PICK h, zero : h = Refilled(v.mhdr, Len(v.mhdr), x, y) /\ zero = 0
    OBVIOUS
<1>15. PICK t : t = [mhdr |-> h, pos |-> zero, mlen |-> l]
    OBVIOUS
<1>16. Held(t, r, y, x) /\ t.mhdr = h
  <2>1. zero \in 0..CHUNK
      BY <1>9, <1>14
  <2> QED BY ONLY <2>1, <1>5, <1>8, <1>9, <1>11, <1>14, <1>15, HeldLast
<1>17. PICK w : w = [mhdr |-> More(h, y, b), pos |-> zero, mlen |-> k]
    OBVIOUS
<1>18. Held(w, r, b, y)
  <2>1. zero \in 0..CHUNK
      BY <1>9, <1>14
  <2>2. w = [mhdr |-> More(t.mhdr, y, b), pos |-> zero, mlen |-> k]
      BY <1>16, <1>17
  <2> QED BY ONLY <2>1, <2>2, <1>4, <1>5, <1>8, <1>9, <1>16, HeldMore
<1>19. Repaired(v) = w
  <2>1. Repaired(v) = [mbuf_insert(mbuf_split(v).kept, mbuf_split(v).rest) EXCEPT !.pos = 0]
      BY DEF Repaired
  <2>2. mbuf_split(v).kept = [mhdr |-> h, pos |-> v.pos, mlen |-> k]
      BY <1>12, <1>13, <1>14 DEF Message
  <2>3. PICK kept, rest, whole : /\ kept = mbuf_split(v).kept /\ rest = mbuf_split(v).rest
                                 /\ whole = Append(h, rest)
      OBVIOUS
  <2>4. mbuf_insert(kept, rest) = [mhdr |-> whole, pos |-> v.pos, mlen |-> k]
      BY <2>2, <2>3 DEF mbuf_insert
  <2>5. [mbuf_insert(kept, rest) EXCEPT !.pos = 0] = [mhdr |-> whole, pos |-> zero, mlen |-> k]
      BY <2>4, <1>14
  <2>6. whole = More(h, y, b)
      BY <2>3, <1>13 DEF More
  <2> QED BY <2>1, <2>3, <2>5, <2>6, <1>17
<1>20. PICK nmsg, more : nmsg = <<w>> /\ more = FALSE
    OBVIOUS
<1>21. ParseOn(nmsg, more)
    BY <1>1, <1>2, <1>10, <1>19, <1>20
<1>22. nmsg # <<>> /\ more \in BOOLEAN /\ ~more
    BY <1>20
<1>23. \E mm, xx : nmsg = <<mm>> /\ Held(mm, r, nread, xx) /\ NoEnd(r, xx)
  <2>1. NoEnd(r, y)
      BY <1>3, <1>4, <1>7, <1>9, <1>2, NoEndIs
  <2> QED BY <2>1, <1>3, <1>18, <1>20
<1> QED BY <1>1, <1>2, <1>7, <1>21, <1>22, <1>23, ReadsOn

(* msg_parsed appends the next request, whole, to the queue and begins     *)
(* where it ends.                                                          *)
LEMMA ReadsParsed ==
    ASSUME NEW r, Reads(r), Fields, msg_parsed
    PROVE  \E u, w, x : /\ u \in Ends /\ imsg_q' = Append(imsg_q, w) /\ Held(w, r, u, x)
                        /\ r < u /\ \A k \in Ends : ~(r < k /\ k < u)
                        /\ Reads(u)' /\ Fields'
<1>1. /\ pc = "parse" /\ rmsg[1].mlen > 0 /\ EndOf(rmsg[1]) # {}
      /\ UNCHANGED <<arrived, fin, nread, eof, recv_ready>>
    BY DEF msg_parsed
<1>2. PICK m, x : /\ rmsg = <<m>> /\ rmsg[1] = m /\ Held(m, r, nread, x) /\ NoEnd(r, x)
                  /\ (eof => ~recv_ready /\ NoEnd(r, nread)) /\ r \in Nat /\ r <= nread
    BY <1>1, ReadsParsing
<1>3. PICK b : b = nread
    OBVIOUS
<1>4. /\ m \in Message /\ m.mlen = b - r /\ b \in Nat /\ x \in Nat /\ r <= x /\ x <= b
      /\ b - x <= CHUNK /\ b <= Total /\ LastBuf(m) = Fresh(x, b)
    BY <1>2, <1>3, HeldFacts
<1>5. CHUNK \in Nat /\ Total \in Nat
    BY StreamAssumption, EndsAre
<1>6. PICK i : i = CHOOSE k \in EndOf(m) : TRUE
    OBVIOUS
<1>7. i \in EndOf(m)
    BY <1>1, <1>2, <1>6
<1>8. r < b
    BY <1>1, <1>2, <1>4
<1>9. i \in 1..(b - x) /\ x + i \in Ends /\ \A k \in Ends : ~(r < k /\ k < x + i)
    BY <1>2, <1>3, <1>7, <1>8, EndIs
<1>10. PICK u : u = x + i
    OBVIOUS
<1>11. /\ u \in Nat /\ u \in Ends /\ \A k \in Ends : ~(r < k /\ k < u)
       /\ r < u /\ x <= u /\ u <= b /\ i = u - x /\ u - x <= CHUNK /\ b - u <= CHUNK
       /\ u <= Total /\ i \in 0..CHUNK /\ 0 \in 0..CHUNK
    BY <1>2, <1>4, <1>5, <1>9, <1>10
<1>12. ~eof
    BY <1>2, <1>3, <1>11 DEF NoEnd
<1>13. PICK v : v = [m EXCEPT !.pos = i]
    OBVIOUS
<1>14. Held(v, r, b, x) /\ v.pos = i /\ v.mhdr = m.mhdr
    BY ONLY <1>2, <1>3, <1>11, <1>13, HeldAt
<1>15. v \in Message /\ v.mlen = b - r /\ LastBuf(v) = Fresh(x, b)
    BY <1>14, HeldFacts
<1>16. Len(LastBuf(v).data) = b - x
  <2>1. Len(Run(x, b)) = b - x
      BY <1>4, RunFacts
  <2> QED BY <2>1, <1>15 DEF Fresh
<1>17. /\ mbuf_split(v).kept = [v EXCEPT !.mhdr = Refilled(v.mhdr, Len(v.mhdr), x, u)]
       /\ mbuf_split(v).rest = Fresh(u, b)
    BY ONLY <1>11, <1>14, SplitIs
<1>18. u <= nread /\ (eof => ~recv_ready)
    BY <1>2, <1>3, <1>11
<1>19. CASE i = b - x
  <2>1. imsg_q' = Append(imsg_q, v) /\ ParseOn(<<>>, FALSE)
      BY <1>2, <1>6, <1>13, <1>14, <1>16, <1>19 DEF msg_parsed
  <2>2. u = b
      BY <1>4, <1>10, <1>19
  <2>3. Reads(u)' /\ Fields'
    <3>1. PICK nmsg, more : nmsg = <<>> /\ more = FALSE
        OBVIOUS
    <3>2. ParseOn(nmsg, more) /\ more \in BOOLEAN /\ (nmsg = <<>> => u = nread /\ ~more)
        BY <2>1, <2>2, <3>1, <1>3
    <3>3. nmsg # <<>> => \E mm, xx : nmsg = <<mm>> /\ Held(mm, u, nread, xx) /\ NoEnd(u, xx)
        BY <3>1
    <3>4. NoEnd(u, nread)
        BY <2>2, <1>3, <1>4, EndsAre DEF NoEnd
    <3> QED BY <3>2, <3>3, <3>4, <1>1, <1>11, <1>18, ReadsOn
  <2>4. Held(v, r, u, x)
      BY <2>2, <1>14
  <2> QED BY <2>1, <2>3, <2>4, <1>11
<1>20. CASE i # b - x
  <2>1. PICK kept, rest, w, nmsg : /\ kept = mbuf_split(v).kept /\ rest = mbuf_split(v).rest
                                   /\ w = CutOff(kept, rest)
                                   /\ nmsg = [mbuf_insert(msg_get, rest) EXCEPT !.mlen = mbuf_length(rest)]
      OBVIOUS
  <2>2. imsg_q' = Append(imsg_q, w) /\ ParseOn(<<nmsg>>, TRUE)
      BY <2>1, <1>2, <1>6, <1>13, <1>14, <1>16, <1>20 DEF msg_parsed
  <2>3. rest = Fresh(u, b) /\ mbuf_length(rest) = b - u
      BY <2>1, <1>4, <1>5, <1>11, <1>17, FreshIs
  <2>4. PICK h, l : h = Refilled(v.mhdr, Len(v.mhdr), x, u) /\ l = u - r
      OBVIOUS
  <2>5. w = [mhdr |-> h, pos |-> i, mlen |-> l]
    <3>1. kept = [mhdr |-> h, pos |-> i, mlen |-> b - r]
        BY <2>1, <2>4, <1>14, <1>15, <1>17 DEF Message
    <3>2. (b - r) - (b - u) = l
        BY <2>4, <1>2, <1>4, <1>11
    <3> QED BY <3>1, <3>2, <2>1, <2>3 DEF CutOff
  <2>6. Held(w, r, u, x)
      BY ONLY <2>4, <2>5, <1>5, <1>11, <1>14, HeldLast
  <2>7. PICK j, zero : j = b - u /\ zero = 0
      OBVIOUS
  <2>8. nmsg = [mhdr |-> More(<<>>, u, b), pos |-> zero, mlen |-> j]
      BY <2>1, <2>3, <2>7 DEF mbuf_insert, msg_get, More
  <2>9. Held(nmsg, u, b, u)
    <3>1. zero \in 0..CHUNK
        BY <2>7, <1>11
    <3> QED BY ONLY <3>1, <2>7, <2>8, <1>4, <1>5, <1>11, HeldOne
  <2>10. Reads(u)' /\ Fields'
    <3>1. PICK after, more : after = <<nmsg>> /\ more = TRUE
        OBVIOUS
    <3>2. ParseOn(after, more) /\ more \in BOOLEAN /\ after # <<>> /\ more
        BY <2>2, <3>1
    <3>3. \E mm, xx : after = <<mm>> /\ Held(mm, u, nread, xx) /\ NoEnd(u, xx)
      <4>1. NoEnd(u, u)
          BY <1>11, EndsAre DEF NoEnd
      <4> QED BY <4>1, <3>1, <2>9, <1>3
    <3> QED BY <3>2, <3>3, <1>1, <1>11, <1>12, <1>18, ReadsOn
  <2> QED BY <2>2, <2>6, <2>10, <1>11
<1> QED BY <1>19, <1>20

(* The other steps.                                                        *)
LEMMA ReadsOthers ==
    ASSUME NEW r, Reads(r), Fields,
           \/ \E n \in Byte : ClientWrites(n)
           \/ ClientCloses
           \/ core_recv
           \/ req_send_next_empty
           \/ \E n \in 0..Total : msg_send_chain(n)
    PROVE  Reads(r)' /\ Fields'
<1>1. CASE \E n \in Byte : ClientWrites(n)
  <2>1. PICK n \in Byte : ClientWrites(n)
      BY <1>1
  <2>2. Fields'
      BY <2>1, EndsAre DEF ClientWrites, Fields, Byte
  <2>3. UNCHANGED <<nread, eof, recv_ready, rmsg, pc>>
      BY <2>1 DEF ClientWrites
  <2> QED BY <2>2, <2>3 DEF Reads
<1>2. CASE ClientCloses
  <2>1. UNCHANGED <<arrived, nread, eof, recv_ready, rmsg, pc>> /\ fin' = TRUE
      BY <1>2 DEF ClientCloses
  <2> QED BY <2>1 DEF Reads, Fields
<1>3. CASE core_recv
  <2>1. UNCHANGED <<arrived, fin, nread, eof, rmsg>> /\ pc' = "read" /\ recv_ready' = TRUE /\ ~eof
        /\ pc = "idle"
      BY <1>3 DEF core_recv
  <2>2. Fields'
      BY <2>1 DEF Fields
  <2> QED BY <2>1, <2>2 DEF Reads
<1>4. CASE req_send_next_empty \/ \E n \in 0..Total : msg_send_chain(n)
  <2>1. UNCHANGED <<arrived, fin, nread, eof, recv_ready, rmsg>>
        /\ pc \in {"send", "idle"} /\ pc' \in {"send", "idle"}
      BY <1>4 DEF req_send_next_empty, msg_send_chain
  <2>2. Fields'
      BY <2>1 DEF Fields
  <2> QED BY <2>1, <2>2 DEF Reads
<1> QED BY <1>1, <1>2, <1>3, <1>4

-----------------------------------------------------------------------------
(* Message m is the request of the bytes after a up to b, written up to p. *)
Whole(m, a, p, b) ==
    /\ a < b /\ b \in Ends /\ \A k \in Ends : ~(a < k /\ k < b)
    /\ \E e : MessageIs(m, a, p, b, e)

(* Messages s are requests that follow each other, number k of the bytes   *)
(* up to q[k], and what is up to w was written: part of the first at most. *)
Queued(s, q, w) ==
    /\ s \in Seq(Message) /\ q \in [0..Len(s) -> Nat] /\ w \in Nat
    /\ q[0] \in Ends \cup {0} /\ q[0] <= w
    /\ Len(s) = 0 => w = q[0]
    /\ Len(s) > 0 => w < q[1]
    /\ \A k \in 1..Len(s) : Whole(s[k], q[k - 1], Top(q[k - 1], w), q[k])

IInv ==
    /\ Fields
    /\ \E w, q, r : /\ wire = Run(0, w) /\ Queued(imsg_q, q, w)
                    /\ r = q[Len(imsg_q)] /\ Reads(r)

(* What Queued says.                                                       *)
LEMMA QueuedFacts ==
    ASSUME NEW s, NEW q, NEW w, Queued(s, q, w), NEW n, n = Len(s)
    PROVE  /\ n \in Nat /\ DOMAIN s = 1..n /\ q \in [0..n -> Nat] /\ w \in Nat
           /\ Rises(q, n) /\ w <= q[n]
           /\ \A k \in 0..n : q[k] \in Ends \cup {0}
           /\ \A k \in 1..n : /\ q[k - 1] \in Nat /\ q[k] \in Nat /\ q[k - 1] < q[k] /\ w < q[k]
                              /\ Top(q[k - 1], w) <= q[k] /\ Top(q[k], w) = q[k]
                              /\ k > 1 => Top(q[k - 1], w) = q[k - 1] /\ w < q[k - 1]
                              /\ k = 1 => Top(q[k - 1], w) = w
<1>1. /\ s \in Seq(Message) /\ q \in [0..n -> Nat] /\ w \in Nat
      /\ q[0] \in Ends \cup {0} /\ q[0] <= w
      /\ n = 0 => w = q[0]
      /\ n > 0 => w < q[1]
      /\ \A k \in 1..n : Whole(s[k], q[k - 1], Top(q[k - 1], w), q[k])
    BY DEF Queued
<1>2. n \in Nat /\ DOMAIN s = 1..n
    BY <1>1
<1>3. \A k \in 1..n : q[k - 1] < q[k] /\ q[k] \in Ends
    BY <1>1 DEF Whole
<1>4. \A k \in 1..n : k \in 0..n /\ k - 1 \in 0..n
    BY <1>2
<1>5. Rises(q, n)
  <2>1. q \in [0..n -> Nat]
      BY <1>1
  <2>2. \A k \in 1..n : q[k - 1] <= q[k]
      BY <2>1, <1>3, <1>4
  <2> QED BY <2>1, <2>2 DEF Rises
<1>6. ASSUME NEW k \in 1..n PROVE w < q[k]
  <2>1. 1 \in 0..n /\ k \in 0..n /\ 1 <= k /\ n > 0
      BY <1>2
  <2>2. q[1] <= q[k]
      BY <2>1, <1>2, <1>5, RisesAll
  <2> QED BY <2>1, <2>2, <1>1, <1>4
<1>7. ASSUME NEW k \in 1..n
      PROVE  /\ q[k - 1] \in Nat /\ q[k] \in Nat /\ q[k - 1] < q[k] /\ w < q[k]
             /\ Top(q[k - 1], w) <= q[k] /\ Top(q[k], w) = q[k]
             /\ k > 1 => Top(q[k - 1], w) = q[k - 1] /\ w < q[k - 1]
             /\ k = 1 => Top(q[k - 1], w) = w
  <2>1. q[k - 1] \in Nat /\ q[k] \in Nat /\ q[k - 1] < q[k] /\ w < q[k]
      BY <1>1, <1>3, <1>4, <1>6
  <2>2. Top(q[k - 1], w) <= q[k] /\ Top(q[k], w) = q[k]
      BY <2>1, <1>1 DEF Top
  <2>3. ASSUME k > 1 PROVE Top(q[k - 1], w) = q[k - 1] /\ w < q[k - 1]
    <3>1. k - 1 \in 1..n
        BY <2>3, <1>2
    <3>2. w < q[k - 1]
        BY <3>1, <1>6
    <3> QED BY <3>2, <2>1, <1>1 DEF Top
  <2>4. ASSUME k = 1 PROVE Top(q[k - 1], w) = w
    <3>1. q[k - 1] = q[0]
        BY <2>4
    <3> QED BY <3>1, <1>1, <2>1 DEF Top
  <2> QED BY <2>1, <2>2, <2>3, <2>4
<1>8. w <= q[n]
  <2>1. CASE n = 0
      BY <2>1, <1>1
  <2>2. CASE n # 0
    <3>1. n \in 1..n
        BY <2>2, <1>2
    <3> QED BY <3>1, <1>7, <1>1
  <2> QED BY <2>1, <2>2
<1>9. ASSUME NEW k \in 0..n PROVE q[k] \in Ends \cup {0}
  <2>1. CASE k = 0
      BY <2>1, <1>1
  <2>2. CASE k # 0
    <3>1. k \in 1..n
        BY <2>2, <1>2
    <3> QED BY <3>1, <1>3
  <2> QED BY <2>1, <2>2
<1> QED BY <1>1, <1>2, <1>5, <1>7, <1>8, <1>9

(* Append, a name the provers do not take apart.                           *)
Joined(s, m) == Append(s, m)

(* A request more in the queue.                                            *)
LEMMA QueuedAppend ==
    ASSUME NEW s, NEW q, NEW w, Queued(s, q, w), NEW n, n = Len(s),
           NEW m, NEW u, NEW a, a = q[n], Whole(m, a, a, u), NEW l, l = n + 1,
           NEW t, t = Joined(s, m), NEW g, g = Longer(q, n, u)
    PROVE  Queued(t, g, w) /\ Len(t) = l /\ g[l] = u
<1>1. /\ s \in Seq(Message) /\ q \in [0..n -> Nat] /\ w \in Nat
      /\ q[0] \in Ends \cup {0} /\ q[0] <= w
      /\ n = 0 => w = q[0]
      /\ n > 0 => w < q[1]
      /\ \A k \in 1..n : Whole(s[k], q[k - 1], Top(q[k - 1], w), q[k])
    BY DEF Queued
<1>2. n \in Nat /\ w <= q[n]
    BY QueuedFacts
<1>3. a < u /\ u \in Nat /\ m \in Message
    BY EndsAre DEF Whole, MessageIs
<1>4. t \in Seq(Message) /\ Len(t) = l /\ t[l] = m /\ \A i \in 1..n : t[i] = s[i]
    BY <1>1, <1>2, <1>3 DEF Joined
<1>5. g \in [0..l -> Nat] /\ g[l] = u /\ \A i \in 0..n : g[i] = q[i]
  <2>0. g = [i \in 0..l |-> IF i <= n THEN q[i] ELSE u]
      BY DEF Longer
  <2>1. \A i \in 0..l : i <= n => i \in 0..n
      BY <1>2
  <2>2. \A i \in 0..n : i \in 0..l /\ i <= n
      BY <1>2
  <2>3. l \in 0..l /\ ~(l <= n)
      BY <1>2
  <2> QED BY <1>1, <1>3, <2>0, <2>1, <2>2, <2>3
<1>6. ASSUME NEW k \in 1..l PROVE Whole(t[k], g[k - 1], Top(g[k - 1], w), g[k])
  <2>1. CASE k \in 1..n
    <3>1. k \in 0..n /\ k - 1 \in 0..n
        BY <2>1, <1>2
    <3>2. t[k] = s[k] /\ g[k - 1] = q[k - 1] /\ g[k] = q[k]
        BY <2>1, <3>1, <1>4, <1>5
    <3> QED BY <2>1, <3>2, <1>1
  <2>2. CASE k \notin 1..n
    <3>1. k = l /\ k - 1 = n /\ n \in 0..n
        BY <2>2, <1>2
    <3>2. t[k] = m /\ g[k - 1] = a /\ g[k] = u
        BY <3>1, <1>4, <1>5
    <3>3. a \in Nat /\ w <= a
        BY <3>1, <1>1, <1>2
    <3>4. Top(a, w) = a
        BY <3>3, <1>1 DEF Top
    <3> QED BY <3>2, <3>4
  <2> QED BY <2>1, <2>2
<1>7. g[0] = q[0] /\ l > 0 /\ w < g[1]
  <2>1. g[0] = q[0] /\ l > 0
      BY <1>2, <1>5
  <2>2. CASE n = 0
    <3>1. g[1] = u /\ w = a
        BY <2>2, <1>1, <1>5
    <3> QED BY <2>1, <3>1, <1>3
  <2>3. CASE n # 0
    <3>1. 1 \in 0..n /\ n > 0
        BY <2>3, <1>2
    <3> QED BY <2>1, <3>1, <1>1, <1>5
  <2> QED BY <2>2, <2>3
<1> QED BY <1>1, <1>4, <1>5, <1>6, <1>7 DEF Queued

-----------------------------------------------------------------------------
(* Choosing all places after f leaves the elements after f.                *)
After(I, f, n) == \A i \in 1..n : i \in I <=> f < i
RestOf(r, s, f, l) == /\ r \in Seq(Message) /\ Len(r) = l
                      /\ \A j \in 1..l : r[j] = s[f + j]

(* What Chosen leaves when it drops the first elements.                    *)
LEMMA ChosenRest ==
    ASSUME NEW n \in Nat, NEW s \in [1..n -> Message], NEW f \in 0..n, NEW I,
           After(I, f, n), NEW r, r = Chosen(s, I), NEW l, l = n - f
    PROVE  RestOf(r, s, f, l)
<1>a. \A i \in 1..n : i \in I <=> f < i
    BY DEF After
<1>0. PICK g : Chooses(g, s, I, n, Message)
    BY ChosenExists
<1>1. /\ g \in [0..n -> Seq(Message)]
      /\ g[0] = <<>>
      /\ \A i \in 1..n : g[i] = IF i \in I THEN Append(g[i - 1], s[i]) ELSE g[i - 1]
      /\ Chosen(s, I) = g[n]
    BY <1>0 DEF Chooses
<1> DEFINE Is(k) == IF k <= f THEN g[k] = <<>>
                    ELSE Len(g[k]) = k - f /\ \A j \in 1..(k - f) : g[k][j] = s[f + j]
           G == {k \in Nat : k <= n => Is(k)}
<1>2. 0 \in G
    BY <1>1
<1>3. ASSUME NEW i \in 1..n, Is(i - 1) PROVE Is(i)
  <2>1. i \in Nat /\ f \in Nat /\ i - 1 \in 0..n
      OBVIOUS
  <2>2. g[i - 1] \in Seq(Message) /\ s[i] \in Message
    <3>1. g \in [0..n -> Seq(Message)]
        BY <1>1
    <3> QED BY <3>1, <2>1
  <2>3. CASE i <= f
    <3>1. i - 1 <= f /\ i \notin I
        BY <2>1, <2>3, <1>a
    <3> QED BY <3>1, <2>3, <1>1, <1>3
  <2>4. CASE ~(i <= f)
    <3>0. f < i
        BY <2>1, <2>4
    <3>1a. i \in I
        BY <3>0, <1>a
    <3>1. i \in I /\ g[i] = Append(g[i - 1], s[i])
        BY <3>1a, <1>1
    <3>2. Len(g[i]) = Len(g[i - 1]) + 1 /\ g[i][Len(g[i - 1]) + 1] = s[i]
          /\ \A j \in 1..Len(g[i - 1]) : g[i][j] = g[i - 1][j]
        BY <2>2, <3>1
    <3>3. Len(g[i - 1]) = (i - 1) - f /\ \A j \in 1..((i - 1) - f) : g[i - 1][j] = s[f + j]
      <4>1. CASE i - 1 <= f
        <5>1. i - 1 = f /\ g[i - 1] = <<>>
            BY <4>1, <2>1, <2>4, <1>3
        <5>2. Len(<<>>) = 0 /\ 1..0 = {}
            OBVIOUS
        <5> QED BY <5>1, <5>2, <2>1
      <4>2. CASE ~(i - 1 <= f)
          BY <4>2, <1>3
      <4> QED BY <4>1, <4>2
    <3>4. Len(g[i]) = i - f
        BY <3>2, <3>3, <2>1
    <3>5. ASSUME NEW j \in 1..(i - f) PROVE g[i][j] = s[f + j]
      <4>1. CASE j = i - f
        <5>1. j = Len(g[i - 1]) + 1 /\ f + j = i
            BY <4>1, <3>3, <2>1
        <5> QED BY <5>1, <3>2
      <4>2. CASE j # i - f
        <5>1. j \in 1..((i - 1) - f)
            BY <4>2, <2>1
        <5> QED BY <5>1, <3>2, <3>3
      <4> QED BY <4>1, <4>2
    <3> QED BY <2>4, <3>4, <3>5
  <2> QED BY <2>3, <2>4
<1>4. ASSUME NEW k \in Nat, k \in G PROVE k + 1 \in G
  <2> DEFINE i == k + 1
  <2> SUFFICES ASSUME i <= n PROVE Is(i)
      OBVIOUS
  <2>1. i \in 1..n /\ i - 1 = k /\ k <= n
      OBVIOUS
  <2>2. Is(k)
    <3> HIDE DEF Is
    <3> QED BY <1>4, <2>1
  <2> HIDE DEF i, Is
  <2> QED BY <2>1, <2>2, <1>3
<1>5. \A k \in Nat : k \in G
  <2> HIDE DEF G
  <2>1. \A k \in Nat : k \in G => k + 1 \in G
      BY <1>4
  <2> QED BY ONLY <1>2, <2>1, SetInduction
<1>6. Is(n) /\ r = g[n] /\ r \in Seq(Message)
  <2>1. Is(n)
    <3> HIDE DEF Is
    <3> QED BY <1>5
  <2>2. n \in 0..n
      OBVIOUS
  <2> QED BY <2>1, <2>2, <1>1
<1>7. CASE n <= f
  <2>1. l = 0 /\ r = <<>>
      BY <1>6, <1>7
  <2>2. Len(<<>>) = 0 /\ 1..0 = {}
      OBVIOUS
  <2> QED BY <2>1, <2>2, <1>6 DEF RestOf
<1>8. CASE ~(n <= f)
    BY <1>6, <1>8 DEF RestOf
<1> QED BY <1>7, <1>8

(* The bytes still to be written up to request y.                          *)
LeftOver(q, w, y) == [j \in 0..y |-> Top(q[j], w)]

(* The bytes still to be written of the first messages, and their buffers. *)
LEMMA LeftUpTo ==
    ASSUME NEW s, NEW q, NEW w, Queued(s, q, w), NEW y \in 0..Len(s),
           NEW d, d = LeftOver(q, w, y)
    PROVE  /\ y \in Nat /\ d \in [0..y -> Nat] /\ Rises(d, y) /\ d[0] = w /\ d[y] = Top(q[y], w)
           /\ \A j \in 1..y : /\ d[j - 1] = Top(q[j - 1], w) /\ d[j] = q[j]
                              /\ Unsent(s[j]) = Run(d[j - 1], d[j])
                              /\ Chain(Buffers(s[j]), d[j - 1], d[j])
<1>1. PICK n : n = Len(s)
    OBVIOUS
<1>2. /\ n \in Nat /\ q \in [0..n -> Nat] /\ w \in Nat
      /\ \A k \in 1..n : /\ q[k - 1] \in Nat /\ q[k] \in Nat /\ w < q[k]
                         /\ Top(q[k - 1], w) <= q[k] /\ Top(q[k], w) = q[k]
    BY <1>1, QueuedFacts
<1>3. q[0] <= w /\ \A k \in 1..n : \E e : MessageIs(s[k], q[k - 1], Top(q[k - 1], w), q[k], e)
    BY <1>1 DEF Queued, Whole
<1>4. y \in Nat /\ y <= n
    BY <1>1, <1>2
<1>5. \A j \in 0..y : j \in 0..n
    BY <1>2, <1>4
<1>6. \A j \in 1..y : j \in 1..n /\ j \in 0..y /\ j - 1 \in 0..y
    BY <1>2, <1>4
<1>7. d \in [0..y -> Nat]
  <2>1. \A j \in 0..y : Top(q[j], w) \in Nat
      BY <1>2, <1>5 DEF Top
  <2> QED BY <2>1 DEF LeftOver
<1>8. d[0] = w /\ d[y] = Top(q[y], w)
  <2>1. 0 \in 0..y /\ y \in 0..y /\ 0 \in 0..n
      BY <1>2, <1>4
  <2>2. Top(q[0], w) = w
      BY <2>1, <1>2, <1>3 DEF Top
  <2> QED BY <2>1, <2>2 DEF LeftOver
<1>9. ASSUME NEW j \in 1..y
      PROVE  /\ d[j - 1] = Top(q[j - 1], w) /\ d[j] = q[j] /\ d[j - 1] <= d[j]
             /\ Unsent(s[j]) = Run(d[j - 1], d[j])
             /\ Chain(Buffers(s[j]), d[j - 1], d[j])
  <2>1. d[j - 1] = Top(q[j - 1], w) /\ d[j] = q[j] /\ d[j - 1] <= d[j]
      BY <1>2, <1>6 DEF LeftOver
  <2>2. PICK e : MessageIs(s[j], q[j - 1], d[j - 1], d[j], e)
      BY <2>1, <1>3, <1>6
  <2>3. Unsent(s[j]) = Run(d[j - 1], d[j])
      BY <2>2, ContentIs
  <2>4. Chain(Buffers(s[j]), d[j - 1], d[j])
      BY <2>2, BuffersChain
  <2> QED BY <2>1, <2>3, <2>4
<1>10. Rises(d, y)
    BY <1>7, <1>9 DEF Rises
<1> QED BY <1>4, <1>7, <1>8, <1>9, <1>10

(* How many bytes are to be written before message i.                      *)
LEMMA BeforeIs ==
    ASSUME NEW s, NEW q, NEW w, Queued(s, q, w), NEW i \in 1..Len(s)
    PROVE  Sum([j \in 1..(i - 1) |-> Len(Unsent(s[j]))]) = Top(q[i - 1], w) - w
<1>1. PICK y : y = i - 1
    OBVIOUS
<1>2. PICK d : d = LeftOver(q, w, y)
    OBVIOUS
<1>3. y \in 0..Len(s)
    BY <1>1, QueuedFacts
<1>4. /\ y \in Nat /\ d \in [0..y -> Nat] /\ Rises(d, y) /\ d[0] = w /\ d[y] = Top(q[y], w)
      /\ \A j \in 1..y : Unsent(s[j]) = Run(d[j - 1], d[j])
  <2>1. Queued(s, q, w) /\ y \in 0..Len(s) /\ d = LeftOver(q, w, y)
      BY <1>2, <1>3
  <2>2. y \in Nat /\ d \in [0..y -> Nat]
      BY ONLY <2>1, LeftUpTo
  <2>3. Rises(d, y) /\ d[0] = w /\ d[y] = Top(q[y], w)
      BY ONLY <2>1, LeftUpTo
  <2>4. \A j \in 1..y : Unsent(s[j]) = Run(d[j - 1], d[j])
      BY ONLY <2>1, LeftUpTo
  <2> QED BY ONLY <2>2, <2>3, <2>4
<1>5. PICK t : t = [j \in 1..(i - 1) |-> Len(Unsent(s[j]))]
    OBVIOUS
<1>6. ASSUME NEW j \in 1..y PROVE Len(Unsent(s[j])) = d[j] - d[j - 1]
  <2>1. PICK u, v : u = d[j - 1] /\ v = d[j]
      OBVIOUS
  <2>2. u \in Nat /\ v \in Nat /\ u <= v
    <3>1. j \in 0..y /\ j - 1 \in 0..y
        BY <1>4
    <3> QED BY <2>1, <3>1, <1>4 DEF Rises
  <2>3. Len(Run(u, v)) = v - u
      BY <2>2, RunFacts
  <2> QED BY <2>1, <2>3, <1>4
<1>7. t = [j \in 1..y |-> d[j] - d[j - 1]]
    BY <1>1, <1>5, <1>6
<1>8. Sum(t) = d[y] - d[0]
    BY ONLY <1>4, <1>7, SumGaps
<1> QED BY <1>1, <1>4, <1>5, <1>8

-----------------------------------------------------------------------------
(* One writev covers whole messages but for the last, and its bytes follow *)
(* what was written.                                                       *)
LEMMA SendvIs ==
    ASSUME NEW q, NEW w, Queued(imsg_q, q, w), imsg_q # <<>>
    PROVE  /\ send_msgq \in 1..Len(imsg_q)
           /\ \E x \in Nat : Chain(sendv, w, x) /\ x <= q[send_msgq]
<1>1. PICK n : n = Len(imsg_q)
    OBVIOUS
<1>2. n \in Nat /\ DOMAIN imsg_q = 1..n /\ imsg_q \in Seq(Message)
    BY <1>1 DEF Queued
<1>3. n # 0
    BY <1>1, <1>2, EmptySeq
<1> DEFINE nbuf(k) == Len(FlattenSeq([i \in 1..k |-> Buffers(imsg_q[i])]))
           full == {k \in DOMAIN imsg_q : nbuf(k) >= IOV_MAX}
<1>4. send_msgq \in 1..n
  <2>1. send_msgq = IF full = {} THEN Len(imsg_q)
                    ELSE CHOOSE k \in full : \A j \in full : k <= j
      BY DEF send_msgq
  <2>2. full \subseteq 1..n /\ full \subseteq Nat
      BY <1>2
  <2> HIDE DEF full
  <2>3. CASE full = {}
      BY <2>1, <2>3, <1>1, <1>2, <1>3
  <2>4. CASE full # {}
    <3>1. PICK a : a \in full
        BY <2>4
    <3>2. \E k \in full : \A j \in full : k <= j
        BY ONLY <2>2, <3>1, LeastExists
    <3>3. (CHOOSE k \in full : \A j \in full : k <= j) \in full
        BY <3>2
    <3> QED BY <2>1, <2>2, <2>4, <3>3
  <2> QED BY <2>3, <2>4
<1> HIDE DEF full, nbuf
<1>5. PICK k : k = send_msgq
    OBVIOUS
<1>6. PICK d : d = LeftOver(q, w, k)
    OBVIOUS
<1>7. /\ k \in Nat /\ d \in [0..k -> Nat] /\ d[0] = w /\ d[k] = Top(q[k], w)
      /\ \A j \in 1..k : Chain(Buffers(imsg_q[j]), d[j - 1], d[j])
  <2>1. k \in 0..Len(imsg_q)
      BY <1>1, <1>2, <1>4, <1>5
  <2> QED BY <1>6, <2>1, LeftUpTo
<1>8. d[k] = q[k]
    BY <1>1, <1>4, <1>5, <1>7, QueuedFacts
<1>9. PICK s : s = [i \in 1..k |-> Buffers(imsg_q[i])]
    OBVIOUS
<1>10. s \in [1..k -> Seq(Mbuf)]
  <2>1. \A j \in 1..k : Buffers(imsg_q[j]) \in Seq(Mbuf)
      BY <1>7 DEF Chain, Chained
  <2> QED BY <2>1, <1>9
<1>11. \A j \in 1..k : Chain(s[j], d[j - 1], d[j])
    BY <1>7, <1>9
<1>12. PICK all : all = FlattenSeq(s)
    OBVIOUS
<1>13. Chain(all, d[0], d[k])
    BY ONLY <1>7, <1>10, <1>11, <1>12, ChainFlatten
<1>14. Len(all) \in Nat
    BY <1>13 DEF Chain, Chained
<1>15. PICK l : l = IF Len(all) < IOV_MAX THEN Len(all) ELSE IOV_MAX
    OBVIOUS
<1>16. l \in Nat /\ l <= Len(all)
    BY <1>14, <1>15, StreamAssumption
<1>17. sendv = SubSeq(all, 1, l)
    BY <1>5, <1>9, <1>12, <1>15 DEF sendv
<1>18. PICK a, b : a = d[0] /\ b = d[k]
    OBVIOUS
<1>19. \E x \in Nat : Chain(SubSeq(all, 1, l), a, x) /\ a <= x /\ x <= b
  <2>1. Chain(all, a, b)
      BY <1>13, <1>18
  <2> QED BY ONLY <2>1, <1>16, ChainStart
<1> QED BY <1>1, <1>4, <1>5, <1>7, <1>8, <1>17, <1>18, <1>19

(* What a message is after the write.                                      *)
LEMMA MovedIs ==
    ASSUME NEW s, NEW q, NEW w, Queued(s, q, w), NEW n, n = Len(s),
           NEW K \in 1..n, NEW k \in Nat, NEW x \in Nat, k <= x - w, x <= q[K],
           NEW i \in 1..n, NEW before, before = Top(q[i - 1], w) - w,
           NEW v, v = w + k,
           NEW m, m = IF i <= K /\ k > before THEN Advanced(s[i], k - before) ELSE s[i],
           NEW u, u = IF Top(q[i - 1], v) < q[i] THEN Top(q[i - 1], v) ELSE q[i]
    PROVE  \E e : MessageIs(m, q[i - 1], u, q[i], e)
<1>1. PICK a, p, b : a = q[i - 1] /\ p = Top(a, w) /\ b = q[i]
    OBVIOUS
<1>2. PICK e : MessageIs(s[i], a, p, b, e)
    BY <1>1 DEF Queued, Whole
<1>3. /\ n \in Nat /\ w \in Nat /\ q \in [0..n -> Nat] /\ Rises(q, n)
      /\ a \in Nat /\ b \in Nat /\ a < b /\ w < b /\ p <= b
      /\ i > 1 => p = a /\ w < a
      /\ i = 1 => p = w
    BY <1>1, QueuedFacts
<1>4. p \in Nat /\ w <= p /\ a <= p
    BY <1>1, <1>3 DEF Top
<1>5. CASE i <= K /\ k > before
  <2>1. PICK h : h = k - before
      OBVIOUS
  <2>2. h \in Nat /\ p + h = v
    <3>1. before = p - w /\ v = w + k /\ k > before /\ k \in Nat
        BY <1>1, <1>5
    <3> QED BY ONLY <3>1, <2>1, <1>3, <1>4
  <2>3. u = IF p + h < b THEN p + h ELSE b
    <3>1. Top(a, v) = v
        BY <2>2, <1>3, <1>4 DEF Top
    <3> QED BY <3>1, <2>2, <1>1
  <2>4. m = Advanced(s[i], h)
      BY <2>1, <1>5
  <2>5. MessageIs(Advanced(s[i], h), a, u, b, e)
      BY ONLY <1>2, <2>2, <2>3, AdvancedIs
  <2> QED BY <2>4, <2>5, <1>1
<1>6. CASE ~(i <= K /\ k > before)
  <2>1. k <= before
    <3>1. CASE i <= K
        BY <3>1, <1>1, <1>3, <1>4, <1>6
    <3>2. CASE ~(i <= K)
      <4>1. K \in 0..n /\ i - 1 \in 0..n /\ K <= i - 1 /\ i > 1
          BY <3>2, <1>3
      <4>2. q[K] <= a /\ q[K] \in Nat
          BY <4>1, <1>1, <1>3, RisesAll
      <4> QED BY <4>1, <4>2, <1>1, <1>3
    <3> QED BY <3>1, <3>2
  <2>2. v <= p
      BY <2>1, <1>1, <1>3, <1>4
  <2>3. u = p
    <3>1. CASE i > 1
      <4>1. Top(a, v) = a
          BY <2>2, <3>1, <1>3 DEF Top
      <4> QED BY <4>1, <3>1, <1>1, <1>3
    <3>2. CASE ~(i > 1)
      <4>1. i = 1 /\ p = w /\ v = w
          BY <2>2, <3>2, <1>3
      <4> QED BY <4>1, <1>1, <1>3
    <3> QED BY <3>1, <3>2
  <2>4. m = s[i]
      BY <1>6
  <2> QED BY <2>3, <2>4, <1>1, <1>2
<1> QED BY <1>5, <1>6

(* The requests that were written whole come first.                        *)
LEMMA LastWritten ==
    ASSUME NEW n \in Nat, NEW q, Rises(q, n), NEW v \in Nat, q[0] <= v
    PROVE  \E f \in 0..n : q[f] <= v /\ \A i \in 1..n : q[i] > v <=> f < i
<1>1. q \in [0..n -> Nat]
    BY DEF Rises
<1> DEFINE S == {i \in 1..(n + 1) : i = n + 1 \/ q[i] > v}
<1>2. S \subseteq Nat /\ n + 1 \in S
    OBVIOUS
<1>3. PICK j \in S : \A i \in S : j <= i
  <2> HIDE DEF S
  <2> QED BY <1>2, LeastExists
<1>4. PICK f : f = j - 1
    OBVIOUS
<1>5. f \in 0..n /\ j \in 1..(n + 1)
    BY <1>3, <1>4
<1>6. q[f] <= v
  <2>1. CASE f = 0
      BY <2>1
  <2>2. CASE f # 0
    <3>1. f \notin S /\ f \in 1..n
        BY <2>2, <1>3, <1>4, <1>5
    <3> QED BY <3>1, <1>1
  <2> QED BY <2>1, <2>2
<1>7. ASSUME NEW i \in 1..n PROVE q[i] > v <=> f < i
  <2>1. i \in 0..n
      OBVIOUS
  <2>2. CASE f < i
    <3>1. j <= i /\ j \in 0..n /\ j # n + 1
        BY <2>2, <1>4, <1>5
    <3>2. q[j] > v
        BY <3>1, <1>3
    <3>3. q[j] <= q[i]
        BY <3>1, <2>1, RisesAll
    <3> QED BY <3>1, <3>2, <3>3, <2>1, <2>2, <1>1
  <2>3. CASE ~(f < i)
    <3>1. i <= f
        BY <2>3, <1>5
    <3>2. q[i] <= q[f]
        BY <3>1, <2>1, <1>5, RisesAll
    <3> QED BY <3>2, <2>1, <2>3, <1>1, <1>5, <1>6
  <2> QED BY <2>2, <2>3
<1> QED BY <1>5, <1>6, <1>7

(* A write leaves the requests it did not finish, the first written as far *)
(* as the bytes went.                                                      *)
LEMMA QueuedSend ==
    ASSUME NEW q, NEW w, Queued(imsg_q, q, w), wire = Run(0, w),
           NEW k \in 0..Total, msg_send_chain(k)
    PROVE  \E v, g : /\ wire' = Run(0, v) /\ Queued(imsg_q', g, v)
                     /\ g[Len(imsg_q')] = q[Len(imsg_q)]
<1>1. PICK s, n, K : s = imsg_q /\ n = Len(imsg_q) /\ K = send_msgq
    OBVIOUS
<1>2. /\ n \in Nat /\ DOMAIN s = 1..n /\ q \in [0..n -> Nat] /\ w \in Nat /\ Rises(q, n)
      /\ \A i \in 1..n : q[i - 1] \in Nat /\ q[i] \in Nat /\ q[i - 1] < q[i]
      /\ \A i \in 0..n : q[i] \in Ends \cup {0}
    BY <1>1, QueuedFacts
<1>3. /\ q[0] <= w /\ s \in Seq(Message)
      /\ \A i \in 1..n : /\ q[i] \in Ends
                         /\ \A j \in Ends : ~(q[i - 1] < j /\ j < q[i])
    BY <1>1 DEF Queued, Whole
<1>4. imsg_q # <<>> /\ k \in Nat /\ k <= nsend
    BY EndsAre DEF msg_send_chain
<1>5. K \in 1..n
    BY <1>1, <1>4, SendvIs
<1>6. PICK x \in Nat : Chain(sendv, w, x) /\ x <= q[K]
    BY <1>1, <1>4, SendvIs
<1>7. /\ w <= x /\ nsend = x - w
      /\ FlattenSeq([i \in DOMAIN sendv |-> Remains(sendv[i])]) = Run(w, x)
    BY <1>6, ChainWrites DEF nsend
<1>8. PICK v : v = w + k
    OBVIOUS
<1>9. v \in Nat /\ w <= v /\ v <= x /\ k <= x - w
    BY <1>2, <1>4, <1>6, <1>7, <1>8
<1>10. wire' = Run(0, v)
  <2>1. wire' = wire \o SubSeq(FlattenSeq([i \in DOMAIN sendv |-> Remains(sendv[i])]), 1, k)
      BY DEF msg_send_chain, Remains
  <2>2. PICK o, zero, y : o = 1 /\ zero = 0 /\ y = w + zero
      OBVIOUS
  <2>3. zero \in Nat /\ zero <= k /\ k <= x - w /\ o = zero + 1
      BY <2>2, <1>2, <1>4, <1>9
  <2>3a. y = w
      BY <2>2, <1>2
  <2>4. Slice(Run(w, x), o, k) = Run(y, v)
    <3>1. w \in Nat /\ x \in Nat /\ w <= x /\ k \in Nat
        BY <1>2, <1>4, <1>6, <1>7
    <3>2. y = w + zero
        BY <2>2
    <3> QED BY ONLY <3>1, <3>2, <2>3, <1>8, RunPart
  <2>5. Run(0, w) \o Run(w, v) = Run(0, v)
    <3>1. 0 \in Nat /\ 0 <= w
        BY <1>2
    <3> QED BY ONLY <3>1, <1>2, <1>9, RunJoin
  <2>6. wire' = Run(0, w) \o Slice(Run(w, x), o, k)
      BY <2>1, <2>2, <1>7 DEF Slice
  <2> QED BY <2>3a, <2>4, <2>5, <2>6
<1> DEFINE before(j) == Sum([i \in 1..(j - 1) |-> Len(Unsent(imsg_q[i]))])
           to(j) == IF j <= send_msgq /\ k > before(j)
                    THEN Advanced(imsg_q[j], k - before(j)) ELSE imsg_q[j]
           end(j) == IF Top(q[j - 1], v) < q[j] THEN Top(q[j - 1], v) ELSE q[j]
<1>11. PICK moved : moved = [j \in DOMAIN imsg_q |-> to(j)]
    OBVIOUS
<1>12. PICK I : I = {j \in DOMAIN moved : ~SentAll(moved[j])}
    OBVIOUS
<1>13. imsg_q' = Chosen(moved, I)
    BY <1>11, <1>12 DEF msg_send_chain
<1>14. ASSUME NEW i \in 1..n PROVE \E e : MessageIs(to(i), q[i - 1], end(i), q[i], e)
  <2>1. PICK b, m, u : b = before(i) /\ m = to(i) /\ u = end(i)
      OBVIOUS
  <2>2. b = Top(q[i - 1], w) - w
    <3> HIDE DEF to, end
    <3> QED BY <2>1, <1>1, BeforeIs
  <2>3. m = IF i <= K /\ k > b THEN Advanced(s[i], k - b) ELSE s[i]
    <3> HIDE DEF before, end
    <3> QED BY <2>1, <1>1
  <2>4. u = IF Top(q[i - 1], v) < q[i] THEN Top(q[i - 1], v) ELSE q[i]
      BY <2>1
  <2>5. \E e : MessageIs(m, q[i - 1], u, q[i], e)
    <3>1. Queued(s, q, w) /\ n = Len(s) /\ i \in 1..n
        BY <1>1
    <3> QED BY ONLY <3>1, <2>2, <2>3, <2>4, <1>4, <1>5, <1>6, <1>8, <1>9, MovedIs
  <2> HIDE DEF before, to, end
  <2> QED BY <2>1, <2>5
<1> HIDE DEF before, to
<1>15. moved \in [1..n -> Message] /\ DOMAIN moved = 1..n /\ \A i \in 1..n : moved[i] = to(i)
  <2>1. \A i \in 1..n : to(i) \in Message
      BY <1>14 DEF MessageIs
  <2> QED BY <2>1, <1>1, <1>2, <1>11
<1>16. PICK f \in 0..n : q[f] <= v /\ \A i \in 1..n : q[i] > v <=> f < i
  <2>1. q[0] <= v /\ q[0] \in Nat
    <3>1. 0 \in 0..n
        BY <1>2
    <3> QED BY <3>1, <1>2, <1>3, <1>9
  <2> QED BY ONLY <2>1, <1>2, <1>9, LastWritten
<1>17. ASSUME NEW i \in 1..n PROVE i \in I <=> f < i
  <2>1. PICK e : MessageIs(moved[i], q[i - 1], end(i), q[i], e)
      BY <1>14, <1>15
  <2>2. SentAll(moved[i]) <=> end(i) = q[i]
    <3> HIDE DEF end
    <3> QED BY <2>1, SentAllIs
  <2>3. end(i) = q[i] <=> q[i] <= v
      BY <1>2, <1>9 DEF Top
  <2>4. q[i] > v <=> f < i
      BY <1>16
  <2>5. q[i] \in Nat
      BY <1>2
  <2> HIDE DEF end
  <2>6. i \in I <=> ~SentAll(moved[i])
      BY <1>12, <1>15
  <2> QED BY <2>2, <2>3, <2>4, <2>5, <2>6, <1>9
<1>18. PICK r, l : r = Chosen(moved, I) /\ l = n - f
    OBVIOUS
<1>19. r \in Seq(Message) /\ Len(r) = l /\ \A j \in 1..l : r[j] = moved[f + j]
  <2>1. After(I, f, n)
      BY <1>17 DEF After
  <2>2. n \in Nat /\ moved \in [1..n -> Message] /\ f \in 0..n
      BY <1>2, <1>15
  <2>3. RestOf(r, moved, f, l)
      BY ONLY <2>1, <2>2, <1>18, ChosenRest
  <2> QED BY <2>3 DEF RestOf
<1>20. l \in Nat /\ f \in Nat /\ l + f = n
    BY <1>2, <1>18
<1>21. PICK g : g = [j \in 0..l |-> q[f + j]]
    OBVIOUS
<1>22. g \in [0..l -> Nat] /\ g[0] = q[f] /\ g[l] = q[n] /\ \A j \in 0..l : g[j] = q[f + j]
  <2>1. \A j \in 0..l : f + j \in 0..n
      BY <1>20
  <2>2. 0 \in 0..l /\ l \in 0..l /\ f + 0 = f /\ f + l = n
      BY <1>20
  <2> QED BY <2>1, <2>2, <1>2, <1>21
<1>23. ASSUME NEW j \in 1..l PROVE Whole(r[j], g[j - 1], Top(g[j - 1], v), g[j])
  <2>1. PICK i : i = f + j
      OBVIOUS
  <2>2. i \in 1..n /\ f < i /\ j \in 0..l /\ j - 1 \in 0..l /\ f + (j - 1) = i - 1
      BY <2>1, <1>20
  <2>3. g[j - 1] = q[i - 1] /\ g[j] = q[i] /\ r[j] = moved[i]
      BY <2>1, <2>2, <1>19, <1>22
  <2>4. q[i] > v /\ q[i - 1] \in Nat /\ q[i] \in Nat /\ q[i - 1] < q[i]
      BY <2>2, <1>2, <1>16
  <2>5. end(i) = Top(q[i - 1], v)
      BY <2>4, <1>9 DEF Top
  <2> HIDE DEF end
  <2>6. \E e : MessageIs(moved[i], q[i - 1], Top(q[i - 1], v), q[i], e)
      BY <2>2, <2>5, <1>14, <1>15
  <2>7. q[i] \in Ends /\ \A h \in Ends : ~(q[i - 1] < h /\ h < q[i])
      BY <2>2, <1>3
  <2> QED BY <2>3, <2>4, <2>6, <2>7 DEF Whole
<1>24. l = 0 => v = g[0]
  <2> SUFFICES ASSUME l = 0 PROVE v = q[f]
      BY <1>22
  <2>1. f = n
      BY <1>20
  <2>2. q[K] <= q[n] /\ q[K] \in Nat /\ q[n] \in Nat
    <3>1. K \in 0..n /\ n \in 0..n /\ K <= n
        BY <1>2, <1>5
    <3> QED BY <3>1, <1>2, RisesAll
  <2> QED BY <2>1, <2>2, <1>6, <1>9, <1>16
<1>25. l > 0 => v < g[1]
  <2> SUFFICES ASSUME l > 0 PROVE v < g[1]
      OBVIOUS
  <2>1. 1 \in 0..l /\ f + 1 \in 1..n /\ f < f + 1
      BY <1>20
  <2> QED BY <2>1, <1>2, <1>9, <1>16, <1>22
<1>26. g[0] \in Ends \cup {0} /\ g[0] <= v
    BY <1>2, <1>16, <1>22
<1>27. Queued(r, g, v)
    BY <1>9, <1>19, <1>22, <1>23, <1>24, <1>25, <1>26 DEF Queued
<1>28. imsg_q' = r /\ g[Len(r)] = q[n]
    BY <1>13, <1>18, <1>19, <1>22
<1> QED BY <1>1, <1>10, <1>27, <1>28

-----------------------------------------------------------------------------
(* The invariant holds at the start.                                       *)
LEMMA InitInvariant == Init => IInv
<1> SUFFICES ASSUME Init PROVE IInv
    OBVIOUS
<1>1. Fields
  <2>1. arrived \in 0..Total /\ nread \in 0..arrived
      BY EndsAre DEF Init
  <2>2. fin \in BOOLEAN /\ eof \in BOOLEAN /\ recv_ready \in BOOLEAN
      BY DEF Init
  <2>3. pc \in {"idle", "read", "parse", "send"}
      BY DEF Init
  <2> QED BY <2>1, <2>2, <2>3 DEF Fields
<1>2. PICK q : q = [i \in 0..0 |-> 0]
    OBVIOUS
<1>3. q \in [0..0 -> Nat] /\ q[0] = 0
    BY <1>2
<1>4. Len(imsg_q) = 0 /\ imsg_q \in Seq(Message) /\ 1..0 = {}
    BY DEF Init
<1>5. wire = Run(0, 0)
  <2>1. 0 \in Nat /\ 0 <= 0
      OBVIOUS
  <2>2. Run(0, 0) = <<>>
      BY <2>1, RunFacts
  <2> QED BY <2>2 DEF Init
<1>6. Queued(imsg_q, q, 0)
    BY <1>3, <1>4 DEF Queued
<1>7. Reads(0)
  <2>1. NoEnd(0, 0)
      BY EndsAre DEF NoEnd
  <2> QED BY <2>1 DEF Init, Reads
<1> QED BY <1>1, <1>3, <1>4, <1>5, <1>6, <1>7 DEF IInv

(* Every step keeps the invariant.                                         *)
LEMMA StepInvariant ==
    ASSUME IInv, [Next]_vars
    PROVE  IInv'
<1>1. Fields
    BY DEF IInv
<1>2. PICK w, q, r : wire = Run(0, w) /\ Queued(imsg_q, q, w) /\ r = q[Len(imsg_q)] /\ Reads(r)
    BY DEF IInv
<1>3. r = q[Len(imsg_q)]
    BY <1>2
<1>4. Reads(r)
    BY <1>2
<1>5. ASSUME UNCHANGED <<imsg_q, wire>>, Reads(r)' /\ Fields' PROVE IInv'
  <2>1. wire' = Run(0, w) /\ Queued(imsg_q', q, w) /\ r = q[Len(imsg_q')]
      BY <1>2, <1>5
  <2> QED BY <2>1, <1>5 DEF IInv
<1>6. CASE UNCHANGED vars
  <2>1. Reads(r)' /\ Fields'
      BY <1>1, <1>4, <1>6 DEF vars, Reads, Fields
  <2> QED BY <2>1, <1>5, <1>6 DEF vars
<1>7. CASE \/ \E n \in Byte : ClientWrites(n)
           \/ ClientCloses \/ core_recv \/ req_send_next_empty
  <2>1. Reads(r)' /\ Fields'
      BY <1>1, <1>4, <1>7, ReadsOthers
  <2>2. UNCHANGED <<imsg_q, wire>>
      BY <1>7 DEF ClientWrites, ClientCloses, core_recv, req_send_next_empty
  <2> QED BY <2>1, <2>2, <1>5
<1>8. CASE conn_recv
  <2>1. Reads(r)' /\ Fields'
      BY <1>1, <1>4, <1>8, ReadsRecv
  <2>2. UNCHANGED <<imsg_q, wire>>
      BY <1>8 DEF conn_recv
  <2> QED BY <2>1, <2>2, <1>5
<1>9. CASE conn_recv_again \/ conn_recv_eof
  <2>1. Reads(r)' /\ Fields'
      BY <1>1, <1>4, <1>9, ReadsAgain
  <2>2. UNCHANGED <<imsg_q, wire>>
      BY <1>9 DEF conn_recv_again, conn_recv_eof
  <2> QED BY <2>1, <2>2, <1>5
<1>10. CASE msg_parse_empty
  <2>1. Reads(r)' /\ Fields'
      BY <1>1, <1>4, <1>10, ReadsParseEmpty
  <2>2. UNCHANGED <<imsg_q, wire>>
      BY <1>10 DEF msg_parse_empty
  <2> QED BY <2>1, <2>2, <1>5
<1>11. CASE msg_parse_again
  <2>1. Reads(r)' /\ Fields'
      BY <1>1, <1>4, <1>11, ReadsParseAgain
  <2>2. UNCHANGED <<imsg_q, wire>>
      BY <1>11 DEF msg_parse_again
  <2> QED BY <2>1, <2>2, <1>5
<1>12. CASE \E pos \in 1..CHUNK : msg_repair(pos)
  <2>1. PICK pos \in 1..CHUNK : msg_repair(pos)
      BY <1>12
  <2>2. Reads(r)' /\ Fields'
      BY <1>1, <1>4, <2>1, ReadsRepair
  <2>3. UNCHANGED <<imsg_q, wire>>
      BY <2>1 DEF msg_repair
  <2> QED BY <2>2, <2>3, <1>5
<1>13. CASE msg_parsed
  <2>1. PICK u, m, x : /\ u \in Ends /\ imsg_q' = Append(imsg_q, m) /\ Held(m, r, u, x)
                       /\ r < u /\ \A k \in Ends : ~(r < k /\ k < u)
                       /\ Reads(u)' /\ Fields'
      BY <1>1, <1>4, <1>13, ReadsParsed
  <2>2. Whole(m, r, r, u)
    <3>1. \E e : MessageIs(m, r, r, u, e)
        BY <2>1, HeldIs
    <3> QED BY <2>1, <3>1 DEF Whole
  <2>3. PICK n, l, t, g : /\ n = Len(imsg_q) /\ l = n + 1 /\ t = Joined(imsg_q, m)
                          /\ g = Longer(q, n, u)
      OBVIOUS
  <2>4. PICK s : s = imsg_q
      OBVIOUS
  <2>5. Queued(s, q, w) /\ n = Len(s) /\ r = q[n] /\ t = Joined(s, m)
      BY <1>2, <1>3, <2>3, <2>4
  <2>6. Queued(t, g, w) /\ Len(t) = l /\ g[l] = u
      BY ONLY <2>2, <2>3, <2>5, QueuedAppend
  <2>7. wire' = wire /\ imsg_q' = t
      BY <1>13, <2>1, <2>3 DEF msg_parsed, Joined
  <2>8. wire' = Run(0, w) /\ Queued(imsg_q', g, w) /\ u = g[Len(imsg_q')]
      BY <1>2, <2>6, <2>7
  <2> QED BY <2>1, <2>8 DEF IInv
<1>14. CASE \E n \in 0..Total : msg_send_chain(n)
  <2>1. PICK n \in 0..Total : msg_send_chain(n)
      BY <1>14
  <2>2. PICK v, g : /\ wire' = Run(0, v) /\ Queued(imsg_q', g, v)
                    /\ g[Len(imsg_q')] = q[Len(imsg_q)]
      BY <1>2, <2>1, QueuedSend
  <2>3. Reads(r)' /\ Fields'
      BY <1>1, <1>4, <1>14, ReadsOthers
  <2>4. r = g[Len(imsg_q')]
      BY <2>2, <1>3
  <2> QED BY <2>2, <2>3, <2>4 DEF IInv
<1> QED
    BY <1>6, <1>7, <1>8, <1>9, <1>10, <1>11, <1>12, <1>13, <1>14 DEF Next, Loop

(* What msg_recv_chain, msg_parsed, msg_repair and msg_send_chain keep     *)
(* true of every buffer: where its bytes lie in the stream.                *)
THEOREM StreamInvariant == Spec => []IInv
<1>1. Init => IInv
    BY InitInvariant
<1>2. IInv /\ [Next]_vars => IInv'
    BY StepInvariant
<1> QED BY <1>1, <1>2, PTL DEF Spec

-----------------------------------------------------------------------------
(* Every message there is holds a stretch of the stream.                   *)
LEMMA MessagesAre ==
    ASSUME IInv
    PROVE  \A m \in ToSet(rmsg \o imsg_q) : \E a, p, b, e : MessageIs(m, a, p, b, e)
<1>1. PICK w, q, r : Queued(imsg_q, q, w) /\ Reads(r)
    BY DEF IInv
<1>2. imsg_q \in Seq(Message) /\ \A k \in 1..Len(imsg_q) :
         \E e : MessageIs(imsg_q[k], q[k - 1], Top(q[k - 1], w), q[k], e)
    BY <1>1 DEF Queued, Whole
<1>3. rmsg \in Seq(Message) /\ \A k \in 1..Len(rmsg) :
         \E a, p, b, e : MessageIs(rmsg[k], a, p, b, e)
  <2>1. CASE rmsg = <<>>
      BY <2>1
  <2>2. CASE rmsg # <<>>
    <3>1. PICK m, x : rmsg = <<m>> /\ Held(m, r, nread, x)
        BY <1>1, <2>2 DEF Reads
    <3>2. PICK e : MessageIs(m, r, r, nread, e)
        BY <3>1, HeldIs
    <3>3. m \in Message
        BY <3>2 DEF MessageIs
    <3>4. rmsg \in Seq(Message) /\ Len(rmsg) = 1 /\ rmsg[1] = m
        BY <3>1, <3>3
    <3>5. \A k \in 1..1 : k = 1
        OBVIOUS
    <3> QED BY <3>2, <3>4, <3>5
  <2> QED BY <2>1, <2>2
<1>4. SUFFICES ASSUME NEW m \in ToSet(rmsg \o imsg_q)
               PROVE  \E a, p, b, e : MessageIs(m, a, p, b, e)
    OBVIOUS
<1>5. PICK s, t : s = rmsg /\ t = imsg_q
    OBVIOUS
<1>6. PICK i : i \in DOMAIN (s \o t) /\ m = (s \o t)[i]
    BY <1>5 DEF ToSet
<1>7. s \in Seq(Message) /\ t \in Seq(Message)
    BY <1>2, <1>3, <1>5
<1>8. CASE i <= Len(s)
  <2>1. i \in 1..Len(s) /\ m = s[i]
      BY <1>6, <1>7, <1>8
  <2> QED BY <2>1, <1>3, <1>5
<1>9. CASE ~(i <= Len(s))
  <2>1. i - Len(s) \in 1..Len(t) /\ m = t[i - Len(s)]
      BY <1>6, <1>7, <1>9
  <2> QED BY <2>1, <1>2, <1>5
<1> QED BY <1>8, <1>9

(* mlen is the bytes of the message, and no buffer is larger than a chunk. *)
LEMMA LengthsAre ==
    ASSUME IInv
    PROVE  /\ LengthsAgree
           /\ \A m \in ToSet(rmsg \o imsg_q) : \A b \in ToSet(m.mhdr) :
                 Len(b.data) <= CHUNK /\ b.pos <= Len(b.data)
<1>1. ASSUME NEW m \in ToSet(rmsg \o imsg_q) PROVE m.mlen = Len(Content(m))
  <2>1. PICK a, p, b, e : MessageIs(m, a, p, b, e)
      BY MessagesAre
  <2>2. a \in Nat /\ b \in Nat /\ a <= b
    <3>1. PICK c : c = LeftOf(m, p, e)
        OBVIOUS
    <3>2. a \in Nat /\ b \in Nat /\ a <= p /\ p <= b /\ p \in Nat
        BY <2>1, <3>1, LeftRises
    <3> QED BY <3>2
  <2>3. Content(m) = Run(a, b)
      BY <2>1, ContentIs
  <2>4. m.mlen = b - a
      BY <2>1 DEF MessageIs
  <2> QED BY <2>2, <2>3, <2>4, RunFacts
<1>2. ASSUME NEW m \in ToSet(rmsg \o imsg_q), NEW d \in ToSet(m.mhdr)
      PROVE  Len(d.data) <= CHUNK /\ d.pos <= Len(d.data)
  <2>1. PICK a, p, b, e : MessageIs(m, a, p, b, e)
      BY MessagesAre
  <2>2. m.mhdr \in Seq(Mbuf)
      BY <2>1 DEF MessageIs, Message
  <2>3. PICK i \in 1..Len(m.mhdr) : d = m.mhdr[i]
      BY <2>2 DEF ToSet
  <2>4. PICK x, y, g, n, k : x = e[i - 1] /\ y = e[i] /\ g = p - x /\ n = y - x /\ k = Clip(g, n)
      OBVIOUS
  <2>5. /\ x \in Nat /\ y \in Nat /\ x <= y /\ p \in Nat /\ n <= CHUNK
        /\ Len(d.data) = n /\ d.pos = k
      BY <2>1, <2>3, <2>4, BufferIs
  <2>6. k <= n
      BY <2>4, <2>5 DEF Clip
  <2> QED BY <2>5, <2>6
<1> QED BY <1>1, <1>2 DEF LengthsAgree

(* Every variable is of its type.                                          *)
LEMMA TypesAre ==
    ASSUME IInv
    PROVE  TypeOK
<1>1. Fields
    BY DEF IInv
<1>2. PICK w, q, r : wire = Run(0, w) /\ Queued(imsg_q, q, w) /\ r = q[Len(imsg_q)] /\ Reads(r)
    BY DEF IInv
<1>3. rmsg \in Seq(Message) /\ Len(rmsg) <= 1
  <2>1. CASE rmsg = <<>>
      BY <2>1
  <2>2. CASE rmsg # <<>>
    <3>1. PICK m, x : rmsg = <<m>> /\ Held(m, r, nread, x)
        BY <1>2, <2>2 DEF Reads
    <3>2. m \in Message
        BY <3>1 DEF Held
    <3> QED BY <3>1, <3>2
  <2> QED BY <2>1, <2>2
<1>4. imsg_q \in Seq(Message)
    BY <1>2 DEF Queued
<1>5. wire \in Seq(Byte)
  <2>1. PICK n : n = Len(imsg_q)
      OBVIOUS
  <2>2. w \in Nat /\ w <= q[n] /\ q[n] \in Nat
    <3>1. w \in Nat /\ w <= q[n] /\ n \in 0..n /\ q \in [0..n -> Nat]
        BY <1>2, <2>1, QueuedFacts
    <3> QED BY <3>1
  <2>3. q[n] <= nread /\ nread <= Total /\ nread \in Nat /\ Total \in Nat
      BY <1>1, <1>2, <2>1, EndsAre DEF Reads, Fields
  <2>4. 0 \in Nat /\ 0 <= w /\ w <= Total
      BY <2>2, <2>3
  <2> QED BY <1>2, <2>2, <2>3, <2>4, RunBytes
<1> QED BY <1>1, <1>3, <1>4, <1>5, LengthsAre DEF TypeOK, Fields

(* What is queued and what is received, byte by byte.                      *)
LEMMA QueueBytes ==
    ASSUME NEW q, NEW w, Queued(imsg_q, q, w), NEW b, b = q[Len(imsg_q)]
    PROVE  FlattenSeq([i \in DOMAIN imsg_q |-> Unsent(imsg_q[i])]) = Run(w, b)
<1>1. PICK n, d : n = Len(imsg_q) /\ d = LeftOver(q, w, n)
    OBVIOUS
<1>2. n \in Nat /\ DOMAIN imsg_q = 1..n /\ q \in [0..n -> Nat] /\ w \in Nat /\ w <= q[n]
    BY <1>1, QueuedFacts
<1>3. /\ Rises(d, n) /\ d[0] = w /\ d[n] = Top(q[n], w)
      /\ \A j \in 1..n : Unsent(imsg_q[j]) = Run(d[j - 1], d[j])
  <2>1. n \in 0..Len(imsg_q)
      BY <1>1, <1>2
  <2>2. d = LeftOver(q, w, n) /\ Queued(imsg_q, q, w)
      BY <1>1
  <2>3. PICK s : s = imsg_q
      OBVIOUS
  <2>4. /\ Rises(d, n) /\ d[0] = w /\ d[n] = Top(q[n], w)
        /\ \A j \in 1..n : Unsent(s[j]) = Run(d[j - 1], d[j])
    <3>1. Queued(s, q, w) /\ n \in 0..Len(s)
        BY <2>1, <2>2, <2>3
    <3> QED BY ONLY <3>1, <2>2, LeftUpTo
  <2> QED BY <2>3, <2>4
<1>4. d[n] = b
  <2>1. q[n] \in Nat
      BY <1>2
  <2> QED BY <2>1, <1>1, <1>2, <1>3 DEF Top
<1>5. PICK s : s = [i \in DOMAIN imsg_q |-> Unsent(imsg_q[i])]
    OBVIOUS
<1>6. s = [i \in 1..n |-> Run(d[i - 1], d[i])]
    BY <1>2, <1>3, <1>5
<1>7. FlattenSeq(s) = Run(d[0], d[n])
    BY ONLY <1>2, <1>3, <1>6, FlattenRuns
<1> QED BY <1>3, <1>4, <1>5, <1>7

(* What was received after the last request.                               *)
LEMMA ReceivedIs ==
    ASSUME NEW r, Reads(r), Fields
    PROVE  \E b \in {r, nread} : Received = Run(r, b) /\ (~eof => b = nread)
<1>1. r \in Nat /\ r <= nread /\ nread \in Nat
    BY EndsAre DEF Reads, Fields
<1>2. CASE rmsg = <<>>
  <2>1. PICK c : c = [i \in 0..0 |-> r]
      OBVIOUS
  <2>2. c \in [0..0 -> Nat] /\ c[0] = r
      BY <1>1, <2>1
  <2>3. PICK zero, s : zero = 0 /\ s = [i \in DOMAIN rmsg |-> Content(rmsg[i])]
      OBVIOUS
  <2>4. zero \in Nat /\ Rises(c, zero) /\ s = [i \in 1..zero |-> Run(c[i - 1], c[i])] /\ c[zero] = r
    <3>1. DOMAIN rmsg = {} /\ 1..0 = {}
        BY <1>2
    <3>2. Rises(c, 0)
        BY <2>2, <3>1 DEF Rises
    <3>3. s = [i \in 1..0 |-> Run(c[i - 1], c[i])]
        BY <2>3, <3>1
    <3> QED BY <2>2, <2>3, <3>2, <3>3
  <2>5. FlattenSeq(s) = Run(c[0], c[zero])
      BY ONLY <2>4, FlattenRuns
  <2>6. Received = Run(r, r)
      BY <2>2, <2>3, <2>4, <2>5 DEF Received
  <2>7. ~eof => r = nread
      BY <1>2 DEF Reads
  <2> QED BY <2>6, <2>7
<1>3. CASE rmsg # <<>>
  <2>1. PICK m, x : rmsg = <<m>> /\ Held(m, r, nread, x)
      BY <1>3 DEF Reads
  <2>2. Content(m) = Run(r, nread)
    <3>1. PICK e : MessageIs(m, r, r, nread, e)
        BY <2>1, HeldIs
    <3> QED BY <3>1, ContentIs
  <2>3. PICK c, b : c = [i \in 0..1 |-> IF i = 0 THEN r ELSE b] /\ b = nread
      OBVIOUS
  <2>4. c \in [0..1 -> Nat] /\ c[0] = r /\ c[1] = b
      BY <1>1, <2>3
  <2>5. PICK one, s : one = 1 /\ s = [i \in DOMAIN rmsg |-> Content(rmsg[i])]
      OBVIOUS
  <2>6. one \in Nat /\ Rises(c, one) /\ s = [i \in 1..one |-> Run(c[i - 1], c[i])] /\ c[one] = b
    <3>1. DOMAIN rmsg = 1..1 /\ rmsg[1] = m
        BY <2>1
    <3>2. \A i \in 1..1 : i = 1 /\ i - 1 = 0
        OBVIOUS
    <3>3. Rises(c, 1)
        BY <1>1, <2>3, <2>4, <3>2 DEF Rises
    <3>4. \A i \in 1..1 : Content(rmsg[i]) = Run(c[i - 1], c[i])
        BY <2>2, <2>3, <2>4, <3>1, <3>2
    <3>5. s = [i \in 1..1 |-> Run(c[i - 1], c[i])]
        BY <2>5, <3>1, <3>4
    <3> QED BY <2>4, <2>5, <3>3, <3>5
  <2>7. FlattenSeq(s) = Run(c[0], c[one])
      BY ONLY <2>6, FlattenRuns
  <2>8. Received = Run(r, b)
      BY <2>4, <2>5, <2>6, <2>7 DEF Received
  <2> QED BY <2>3, <2>8
<1> QED BY <1>2, <1>3

(* No byte is lost, repeated or out of order.                              *)
LEMMA InOrder ==
    ASSUME IInv
    PROVE  BytesInOrder
<1>1. PICK w, q, r : wire = Run(0, w) /\ Queued(imsg_q, q, w) /\ r = q[Len(imsg_q)] /\ Reads(r)
    BY DEF IInv
<1>2. PICK b \in {r, nread} : Received = Run(r, b) /\ (~eof => b = nread)
    BY <1>1, ReceivedIs DEF IInv
<1>3. /\ w \in Nat /\ w <= r /\ r \in Nat /\ r <= nread /\ nread \in Nat
      /\ (eof => NoEnd(r, nread))
  <2>1. w \in Nat /\ w <= r
      BY <1>1, QueuedFacts
  <2>2. nread \in Nat
      BY EndsAre DEF IInv, Fields
  <2> QED BY <2>1, <2>2, <1>1 DEF Reads
<1> DEFINE held == wire \o FlattenSeq([i \in DOMAIN imsg_q |-> Unsent(imsg_q[i])]) \o Received
<1>4. held = Run(0, b)
  <2>1. FlattenSeq([i \in DOMAIN imsg_q |-> Unsent(imsg_q[i])]) = Run(w, r)
      BY <1>1, QueueBytes
  <2>2. PICK zero : zero = 0
      OBVIOUS
  <2>3. zero \in Nat /\ zero <= w /\ w <= r /\ zero <= r /\ r <= b /\ b \in Nat
      BY <2>2, <1>2, <1>3
  <2>4. Run(zero, w) \o Run(w, r) = Run(zero, r)
      BY ONLY <2>3, <1>3, RunJoin
  <2>5. Run(zero, r) \o Run(r, b) = Run(zero, b)
      BY ONLY <2>3, <1>3, RunJoin
  <2> QED BY <2>1, <2>2, <2>4, <2>5, <1>1, <1>2
<1> HIDE DEF held
<1>5. b \in Nat /\ r <= b /\ b <= nread
    BY <1>2, <1>3
<1>6. held = [i \in 1..b |-> i] /\ DOMAIN held = 1..b /\ Len(held) = b
  <2>1. Run(0, b) = [i \in 1..b |-> i]
    <3>1. b - 0 = b /\ \A i \in 1..b : 0 + i = i
        BY <1>5
    <3> QED BY <3>1 DEF Run
  <2> QED BY <2>1, <1>4, <1>5
<1>7. CASE eof
  <2>1. held = [i \in DOMAIN held |-> i]
      BY <1>6
  <2>2. \A k \in Ends : k <= nread => k <= Len(held)
      BY <1>3, <1>5, <1>6, <1>7, EndsAre DEF NoEnd
  <2> QED BY <2>1, <2>2, <1>7 DEF BytesInOrder, held
<1>8. CASE ~eof
  <2>1. held = [i \in 1..nread |-> i]
      BY <1>2, <1>6, <1>8
  <2> QED BY <2>1, <1>8 DEF BytesInOrder, held
<1> QED BY <1>7, <1>8

(* Every message of the queue is one request.                              *)
LEMMA WholeRequests ==
    ASSUME IInv
    PROVE  RequestsWhole
<1>1. PICK w, q, r : Queued(imsg_q, q, w) /\ r = q[Len(imsg_q)] /\ Reads(r)
    BY DEF IInv
<1>2. PICK n : n = Len(imsg_q)
    OBVIOUS
<1>3. /\ n \in Nat /\ DOMAIN imsg_q = 1..n /\ q \in [0..n -> Nat]
      /\ \A k \in 0..n : q[k] \in Ends \cup {0}
      /\ \A k \in 1..n : q[k - 1] \in Nat /\ q[k] \in Nat /\ q[k - 1] < q[k]
    BY <1>1, <1>2, QueuedFacts
<1>4. \A k \in 1..n : Whole(imsg_q[k], q[k - 1], Top(q[k - 1], w), q[k])
    BY <1>1, <1>2 DEF Queued
<1>5. ASSUME NEW i \in 1..n
      PROVE  LET b == Content(imsg_q[i])
             IN /\ b[1] = 1 \/ b[1] - 1 \in Ends
                /\ {k \in Ends : b[1] <= k /\ k <= Last(b)} = {Last(b)}
  <2>1. PICK x, y, c : x = q[i - 1] /\ y = q[i] /\ c = Content(imsg_q[i])
      OBVIOUS
  <2>2. c = Run(x, y)
      BY <2>1, <1>4, ContentIs DEF Whole
  <2>3. x \in Nat /\ y \in Nat /\ x < y /\ x <= y /\ y \in Ends /\ \A k \in Ends : ~(x < k /\ k < y)
      BY <2>1, <1>3, <1>4 DEF Whole
  <2>4. c[1] = x + 1 /\ Last(c) = y
      BY <2>2, <2>3, RunFacts
  <2>5. x \in Ends \cup {0}
    <3>1. i - 1 \in 0..n
        BY <1>3
    <3> QED BY <3>1, <2>1, <1>3
  <2>6. c[1] = 1 \/ c[1] - 1 \in Ends
      BY <2>3, <2>4, <2>5
  <2>7. {k \in Ends : c[1] <= k /\ k <= Last(c)} = {Last(c)}
    <3>1. ASSUME NEW k \in Ends PROVE x + 1 <= k /\ k <= y <=> k = y
        BY <2>3, EndsAre
    <3>2. {k \in Ends : x + 1 <= k /\ k <= y} = {y}
        BY <2>3, <3>1
    <3> QED BY <2>4, <3>2
  <2> QED BY <2>1, <2>6, <2>7
<1>6. ASSUME Received # <<>> PROVE Received[1] = 1 \/ Received[1] - 1 \in Ends
  <2>1. PICK b \in {r, nread} : Received = Run(r, b)
      BY <1>1, ReceivedIs DEF IInv
  <2>2. r \in Nat /\ b \in Nat /\ r <= b
      BY <2>1, <1>1, EndsAre DEF Reads, Fields, IInv
  <2>3. r < b
    <3>1. r # b
        BY <2>1, <2>2, <1>6, RunFacts
    <3> QED BY <3>1, <2>2
  <2>4. Received[1] = r + 1
      BY <2>1, <2>2, <2>3, RunFacts
  <2>5. r \in Ends \cup {0}
    <3>1. n \in 0..n
        BY <1>3
    <3> QED BY <3>1, <1>1, <1>2, <1>3
  <2> QED BY <2>2, <2>4, <2>5
<1> QED BY <1>3, <1>5, <1>6 DEF RequestsWhole

(* A message is freed when its last byte was written, and not before.      *)
LEMMA SentExactly ==
    ASSUME IInv
    PROVE  SendDoneExactly
<1>1. PICK w, q : wire = Run(0, w) /\ Queued(imsg_q, q, w)
    BY DEF IInv
<1>2. PICK n : n = Len(imsg_q)
    OBVIOUS
<1>3. /\ n \in Nat /\ DOMAIN imsg_q = 1..n /\ q \in [0..n -> Nat] /\ w \in Nat
      /\ \A k \in 0..n : q[k] \in Ends \cup {0}
      /\ \A k \in 1..n : /\ q[k - 1] \in Nat /\ q[k] \in Nat /\ q[k - 1] < q[k] /\ w < q[k]
                         /\ k > 1 => Top(q[k - 1], w) = q[k - 1] /\ w < q[k - 1]
                         /\ k = 1 => Top(q[k - 1], w) = w
    BY <1>1, <1>2, QueuedFacts
<1>4. /\ \A k \in 1..n : Whole(imsg_q[k], q[k - 1], Top(q[k - 1], w), q[k])
      /\ q[0] <= w /\ q[0] \in Ends \cup {0}
    BY <1>1, <1>2 DEF Queued
<1>5. ASSUME NEW i \in 1..n
      PROVE  /\ Content(imsg_q[i]) = Run(q[i - 1], q[i])
             /\ Unsent(imsg_q[i]) = Run(Top(q[i - 1], w), q[i])
  <2>1. PICK e : MessageIs(imsg_q[i], q[i - 1], Top(q[i - 1], w), q[i], e)
      BY <1>4 DEF Whole
  <2> QED BY <2>1, ContentIs
<1>6. ASSUME NEW i \in 1..n PROVE Unsent(imsg_q[i]) # <<>>
  <2>1. PICK p, y : p = Top(q[i - 1], w) /\ y = q[i]
      OBVIOUS
  <2>2. p \in Nat /\ y \in Nat /\ p <= y /\ p # y
    <3>1. CASE i > 1
        BY <3>1, <2>1, <1>3
    <3>2. CASE ~(i > 1)
      <4>1. i = 1
          BY <3>2, <1>3
      <4> QED BY <4>1, <2>1, <1>3
    <3> QED BY <3>1, <3>2
  <2>3. Unsent(imsg_q[i]) = Run(p, y)
      BY <2>1, <1>5
  <2>4. Run(p, y) # <<>>
      BY ONLY <2>2, RunFacts
  <2> QED BY <2>3, <2>4
<1>7. ASSUME NEW i \in 1..n, Unsent(imsg_q[i]) # Content(imsg_q[i]) PROVE i = 1
  <2>1. ~(i > 1)
      BY <1>3, <1>5, <1>7
  <2> QED BY <2>1, <1>3
<1>8. ASSUME 1 \in 1..n
      PROVE  Unsent(imsg_q[1]) # Content(imsg_q[1]) <=> wire # <<>> /\ Last(wire) \notin Ends
  <2>1. PICK i, x, y : i = 1 /\ x = q[i - 1] /\ y = q[i]
      OBVIOUS
  <2>2. /\ x \in Nat /\ y \in Nat /\ x < y /\ w < y /\ x = q[0] /\ x <= w
        /\ \A k \in Ends : ~(x < k /\ k < y)
    <3>1. i \in 1..n /\ i - 1 = 0
        BY <2>1, <1>8
    <3>2. x = q[0]
        BY <2>1, <3>1
    <3>3. x \in Nat /\ y \in Nat /\ x < y /\ w < y
        BY <2>1, <3>1, <1>3
    <3>4. \A k \in Ends : ~(x < k /\ k < y)
        BY <2>1, <3>1, <1>4 DEF Whole
    <3> QED BY <3>2, <3>3, <3>4, <1>4
  <2>3. Content(imsg_q[1]) = Run(x, y) /\ Unsent(imsg_q[1]) = Run(w, y)
      BY <2>1, <1>3, <1>5, <1>8
  <2>4. Run(w, y) # Run(x, y) <=> x < w
    <3>1. Len(Run(w, y)) = y - w /\ Len(Run(x, y)) = y - x
      <4>1. w <= y /\ x <= y
          BY <2>2, <1>3
      <4> QED BY <4>1, <2>2, <1>3, RunFacts
    <3>2. x < w => y - w # y - x
        BY <2>2, <1>3
    <3>3. ~(x < w) => x = w
        BY <2>2, <1>3
    <3> QED BY <3>1, <3>2, <3>3
  <2>5. w > 0 => wire # <<>> /\ Last(wire) = w
    <3> SUFFICES ASSUME w > 0 PROVE wire # <<>> /\ Last(wire) = w
        OBVIOUS
    <3>1. PICK zero : zero = 0
        OBVIOUS
    <3>2. zero \in Nat /\ zero <= w /\ zero < w /\ wire = Run(zero, w) /\ zero # w
        BY <3>1, <1>1, <1>3
    <3> QED BY ONLY <3>2, <1>3, RunFacts
  <2>6. w = 0 => wire = <<>>
    <3> SUFFICES ASSUME w = 0 PROVE wire = <<>>
        OBVIOUS
    <3>1. wire = Run(w, w) /\ w <= w
        BY <1>1, <1>3
    <3> QED BY <3>1, <1>3, RunFacts
  <2>7. ASSUME x < w PROVE wire # <<>> /\ Last(wire) \notin Ends
    <3>1. w > 0 /\ w \notin Ends
        BY <2>2, <2>7, <1>3
    <3> QED BY <3>1, <2>5
  <2>8. ASSUME ~(x < w) PROVE ~(wire # <<>> /\ Last(wire) \notin Ends)
    <3>1. w = x /\ w \in Ends \cup {0}
        BY <2>2, <2>8, <1>3, <1>4
    <3>2. CASE w = 0
        BY <3>2, <2>6
    <3>3. CASE w # 0
      <4>1. w > 0 /\ w \in Ends
          BY <3>1, <3>3, <1>3
      <4> QED BY <4>1, <2>5
    <3> QED BY <3>2, <3>3
  <2> QED BY <2>3, <2>4, <2>7, <2>8
<1> QED BY <1>3, <1>6, <1>7, <1>8 DEF SendDoneExactly

-----------------------------------------------------------------------------
(* Buffers hold the stream: whatever the reads, splits and repairs         *)
(* (conn_recv, mbuf_split, msg_repair) and the short writes (conn_sendv),  *)
(* mlen is the bytes of its message, no buffer overflows, and what was     *)
(* written, is queued and is being received are the bytes of the stream in *)
(* order.                                                                  *)
THEOREM StreamBuffersHold == Spec => []BuffersHoldStream
<1>1. IInv => BuffersHoldStream
    BY TypesAre, InOrder, LengthsAre DEF BuffersHoldStream
<1> QED BY <1>1, StreamInvariant, PTL

(* A message that msg_parsed hands on is one request, neither part of one  *)
(* nor bytes of the next, for any lengths and chunk size.                  *)
THEOREM StreamRequestsWhole == Spec => []RequestsWhole
<1>1. IInv => RequestsWhole
    BY WholeRequests
<1> QED BY <1>1, StreamInvariant, PTL

(* msg_send_chain takes a message off the queue if and only if all of it   *)
(* was written, for any sizes of buffers and writes.                       *)
THEOREM StreamSendDoneExactly == Spec => []SendDoneExactly
<1>1. IInv => SendDoneExactly
    BY SentExactly
<1> QED BY <1>1, StreamInvariant, PTL

=============================================================================
