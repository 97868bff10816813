----------------------------- MODULE ConfProofs -----------------------------
(***************************************************************************)
(* Proofs about Conf for any texts and any bounds.                         *)
(*                                                                         *)
(* The argument: the state of Shape's automaton after the events that were *)
(* read determines what each pass keeps.  conf_validate_structure's depth, *)
(* sequence flag and counts are functions of it while it has not refused,  *)
(* and so it refuses exactly when the automaton does; in a file that the   *)
(* automaton takes, the collections that are open, cf->depth, cf->seq and  *)
(* the number of scalars on cf->arg are functions of it as well, and so    *)
(* conf_handler finds what it pops.  The induction over the events of a    *)
(* file and the one behind the order of conf_validate_pool are over sets.  *)
(***************************************************************************)
EXTENDS Conf, FiniteSetTheorems, SequenceTheorems, WellFoundedInduction, TLAPS

-----------------------------------------------------------------------------
(* Induction over the numbers, by a set: what holds of 0 and of the        *)
(* successor of what it holds of holds of all.                             *)
LEMMA SetInduction ==
    ASSUME NEW G, 0 \in G, \A n \in Nat : n \in G => n + 1 \in G
    PROVE  \A n \in Nat : n \in G
<1> DEFINE T == {n \in Nat : n \notin G}
           R == OpToRel(LAMBDA x, y : x < y, Nat)
<1> SUFFICES ASSUME T # {} PROVE FALSE
    OBVIOUS
<1>1. IsWellFoundedOn(R, Nat)
    BY NatLessThanWellFounded DEF OpToRel
<1>2. PICK x \in T : \A y \in T : <<y, x>> \notin R
  <2>1. T \subseteq Nat /\ T # {}
      OBVIOUS
  <2> HIDE DEF T, R
  <2> QED BY <1>1, <2>1, WFMin
<1>3. x # 0 /\ x \in Nat /\ x \notin G
    OBVIOUS
<1>4. x - 1 \in Nat /\ x - 1 < x /\ (x - 1) + 1 = x
    BY <1>3
<1>5. x - 1 \in G
  <2> SUFFICES ASSUME x - 1 \notin G PROVE FALSE
      OBVIOUS
  <2>1. x - 1 \in T
      BY <1>4
  <2>2. <<x - 1, x>>[1] = x - 1 /\ <<x - 1, x>>[2] = x /\ <<x - 1, x>> \in Nat \X Nat
      BY <1>3, <1>4
  <2>3. <<x - 1, x>> \notin R
      BY <1>2, <2>1
  <2> QED BY <1>4, <2>2, <2>3 DEF OpToRel
<1> QED
    BY <1>3, <1>4, <1>5

(* A function computed number by number, each value from the one before:   *)
(* there is one.                                                           *)
StepFun(n, V) == [1..n -> [V -> V]]
Computes(h, n, V, b, F) == /\ h \in [0..n -> V] /\ h[0] = b
                           /\ \A i \in 1..n : h[i] = F[i][h[i - 1]]

(* A value that is reached in n steps, each from the one before: the       *)
(* function of the values there are on the way.                            *)
LEMMA StepsExist ==
    ASSUME NEW n, n \in Nat, NEW V, NEW b, b \in V, NEW F, F \in StepFun(n, V)
    PROVE  \E h : Computes(h, n, V, b, F)
<1>0. F \in [1..n -> [V -> V]]
    BY DEF StepFun
<1> DEFINE G == {k \in Nat : k <= n => \E h \in [0..n -> V] :
                     h[0] = b /\ \A i \in 1..k : h[i] = F[i][h[i - 1]]}
<1>1. 0 \in G
  <2> DEFINE h == [i \in 0..n |-> b]
  <2>1. h \in [0..n -> V] /\ h[0] = b /\ \A i \in 1..0 : h[i] = F[i][h[i - 1]]
      OBVIOUS
  <2> HIDE DEF h
  <2> QED BY <2>1
<1>2. ASSUME NEW k \in Nat, k \in G PROVE k + 1 \in G
  <2> SUFFICES ASSUME k + 1 <= n
               PROVE  \E h \in [0..n -> V] :
                         h[0] = b /\ \A i \in 1..(k + 1) : h[i] = F[i][h[i - 1]]
      OBVIOUS
  <2>1. PICK h \in [0..n -> V] : h[0] = b /\ \A i \in 1..k : h[i] = F[i][h[i - 1]]
      BY <1>2
  <2> DEFINE g == [h EXCEPT ![k + 1] = F[k + 1][h[k]]]
  <2>2. F[k + 1][h[k]] \in V
      BY <1>0
  <2>3. g \in [0..n -> V] /\ g[0] = b
      BY <2>1, <2>2
  <2>4. ASSUME NEW i \in 1..(k + 1) PROVE g[i] = F[i][g[i - 1]]
    <3>1. CASE i = k + 1
      <4>1. g[k + 1] = F[k + 1][h[k]] /\ g[k] = h[k]
          BY <2>1
      <4>2. i - 1 = k
          BY <3>1
      <4> HIDE DEF g
      <4> QED BY <3>1, <4>1, <4>2
    <3>2. CASE i # k + 1
      <4>1. i \in 1..k /\ i - 1 \in 0..n /\ i - 1 # k + 1 /\ i \in 0..n
          BY <3>2
      <4>2. g[i] = h[i] /\ g[i - 1] = h[i - 1]
          BY <3>2, <4>1
      <4> HIDE DEF g
      <4> QED BY <2>1, <4>1, <4>2
    <3> QED BY <3>1, <3>2
  <2> HIDE DEF g
  <2> QED BY <2>3, <2>4
<1>3. \A k \in Nat : k \in G
  <2> HIDE DEF G
  <2>1. \A k \in Nat : k \in G => k + 1 \in G
      BY <1>2
  <2> QED BY ONLY <1>1, <2>1, SetInduction
<1>4. n \in G
    BY <1>3
<1>5. PICK h \in [0..n -> V] : h[0] = b /\ \A i \in 1..n : h[i] = F[i][h[i - 1]]
    BY <1>4
<1>6. Computes(h, n, V, b, F)
    BY <1>5 DEF Computes
<1> QED
    BY ONLY <1>6

(* What is in a queue is at some place in it.                              *)
LEMMA PlaceOf ==
    ASSUME NEW T, NEW q \in Seq(T)
    PROVE  /\ \A x \in ToSet(q) : \E i \in 1..Len(q) : q[i] = x
           /\ \A i \in 1..Len(q) : q[i] \in ToSet(q) /\ q[i] \in T
           /\ DOMAIN q = 1..Len(q) /\ Len(q) \in Nat
           /\ ToSet(q) \subseteq T
           /\ q = <<>> <=> ToSet(q) = {}
           /\ q = <<>> <=> Len(q) = 0
<1>1. DOMAIN q = 1..Len(q) /\ Len(q) \in Nat
    BY LenProperties
<1>2. \A i \in 1..Len(q) : q[i] \in T
    BY ElementOfSeq
<1>3. q = <<>> <=> Len(q) = 0
    BY EmptySeq
<1>4. ToSet(q) = {q[i] : i \in 1..Len(q)}
    BY <1>1 DEF ToSet
<1>5. \A i \in 1..Len(q) : q[i] \in ToSet(q) /\ q[i] \in T
    BY <1>2, <1>4
<1>6. Len(q) # 0 => 1 \in 1..Len(q)
    BY <1>1
<1>7. Len(q) = 0 => ToSet(q) = {}
    BY <1>4
<1> QED
    BY <1>1, <1>3, <1>4, <1>5, <1>6, <1>7

-----------------------------------------------------------------------------
(* The shape of a file, event by event.                                    *)
Events == {"stream+", "stream-", "doc+", "doc-", "map+", "map-", "seq+", "seq-",
           "scalar", "alias"}
States == 0..13

(* The automaton as a table.                                               *)
LEMMA StepIs ==
    ASSUME NEW e
    PROVE  /\ Goes(1, e) = IF e = "stream+" THEN 2 ELSE 0
           /\ Goes(2, e) = IF e = "doc+" THEN 3 ELSE 0
           /\ Goes(3, e) = IF e = "map+" THEN 4 ELSE 0
           /\ Goes(4, e) = IF e = "scalar" THEN 5 ELSE IF e = "map-" THEN 11 ELSE 0
           /\ Goes(5, e) = IF e = "map+" THEN 6 ELSE 0
           /\ Goes(6, e) = IF e = "scalar" THEN 7 ELSE 0
           /\ Goes(7, e) = IF e = "scalar" THEN 6 ELSE IF e = "seq+" THEN 8 ELSE 0
           /\ Goes(8, e) = IF e = "scalar" THEN 8 ELSE IF e = "seq-" THEN 9 ELSE 0
           /\ Goes(9, e) = IF e = "scalar" THEN 10 ELSE IF e = "map-" THEN 4 ELSE 0
           /\ Goes(10, e) = IF e = "scalar" THEN 9 ELSE 0
           /\ Goes(11, e) = IF e = "doc-" THEN 12 ELSE 0
           /\ Goes(12, e) = IF e = "stream-" THEN 13 ELSE 0
           /\ Goes(13, e) = 0 /\ Goes(0, e) = 0
<1>1. DOMAIN Step = 1..13
    BY DEF Step
<1>2. Step[1] = [x \in {"stream+"} |-> 2]
    BY DEF Step
<1>3. Step[2] = [x \in {"doc+"} |-> 3]
    BY DEF Step
<1>4. Step[3] = [x \in {"map+"} |-> 4]
    BY DEF Step
<1>5. Step[4] = [x \in {"scalar", "map-"} |-> IF x = "scalar" THEN 5 ELSE 11]
    BY DEF Step
<1>6. Step[5] = [x \in {"map+"} |-> 6]
    BY DEF Step
<1>7. Step[6] = [x \in {"scalar"} |-> 7]
    BY DEF Step
<1>8. Step[7] = [x \in {"scalar", "seq+"} |-> IF x = "scalar" THEN 6 ELSE 8]
    BY DEF Step
<1>9. Step[8] = [x \in {"scalar", "seq-"} |-> IF x = "scalar" THEN 8 ELSE 9]
    BY DEF Step
<1>10. Step[9] = [x \in {"scalar", "map-"} |-> IF x = "scalar" THEN 10 ELSE 4]
    BY DEF Step
<1>11. Step[10] = [x \in {"scalar"} |-> 9]
    BY DEF Step
<1>12. Step[11] = [x \in {"doc-"} |-> 12]
    BY DEF Step
<1>13. Step[12] = [x \in {"stream-"} |-> 13]
    BY DEF Step
<1>14. Step[13] = [x \in {} |-> 0]
    BY DEF Step
<1> QED
    BY <1>1, <1>2, <1>3, <1>4, <1>5, <1>6, <1>7, <1>8, <1>9, <1>10, <1>11, <1>12, <1>13, <1>14
    DEF Goes

(* The automaton stays in its states.                                      *)
LEMMA GoesType ==
    ASSUME NEW q \in States, NEW e PROVE Goes(q, e) \in States
<1>1. q \in {0, 1, 2, 3, 4, 5, 6, 7, 8, 9, 10, 11, 12, 13}
    BY DEF States
<1> QED BY <1>1, StepIs DEF States

(* The function Shape is computed by.                                      *)
IsRun(h, f) == h = [i \in 0..Len(f) |-> IF i = 0 THEN 1 ELSE Goes(h[i - 1], f[i])]

(* Shape is well defined on every file: it is the last state of the run.   *)
LEMMA RunExists ==
    ASSUME NEW f \in Seq(Events)
    PROVE  \E h : IsRun(h, f) /\ Shape(f) = h[Len(f)] /\ h \in [0..Len(f) -> States]
<1> DEFINE F == [i \in 1..Len(f) |-> [q \in States |-> Goes(q, f[i])]]
           g == CHOOSE h : IsRun(h, f)
<1>0. Len(f) \in Nat
    BY LenProperties
<1>1. F \in [1..Len(f) -> [States -> States]]
    BY GoesType
<1>2. PICK h \in [0..Len(f) -> States] :
          h[0] = 1 /\ \A i \in 1..Len(f) : h[i] = F[i][h[i - 1]]
  <2> HIDE DEF F
  <2> DEFINE n == Len(f)
             V == States
             b == 1
  <2>1. n \in Nat /\ b \in V /\ F \in StepFun(n, V)
      BY <1>0, <1>1 DEF StepFun, States
  <2> HIDE DEF n, V, b
  <2>2. PICK h : Computes(h, n, V, b, F)
      BY ONLY <2>1, StepsExist
  <2> QED BY <2>2 DEF n, V, b, Computes
<1>3. ASSUME NEW i \in 1..Len(f) PROVE h[i] = Goes(h[i - 1], f[i])
  <2>1. h[i - 1] \in States
      BY <1>0
  <2>2. h[i] = F[i][h[i - 1]]
      BY <1>2
  <2> QED BY <2>1, <2>2
<1>4. IsRun(h, f)
  <2> HIDE DEF F
  <2>1. ASSUME NEW i \in 0..Len(f)
        PROVE  h[i] = IF i = 0 THEN 1 ELSE Goes(h[i - 1], f[i])
    <3>1. CASE i = 0
        BY <3>1, <1>2
    <3>2. CASE i # 0
      <4>1. i \in 1..Len(f)
          BY <3>2, <1>0
      <4> QED BY <4>1, <3>2, <1>3
    <3> QED BY <3>1, <3>2
  <2> QED BY <2>1 DEF IsRun
<1>5. IsRun(g, f)
  <2> HIDE DEF F
  <2> QED BY <1>4
<1>6. Shape(f) = g[Len(f)]
    BY DEF Shape, IsRun
<1> DEFINE K == {k \in Nat : k <= Len(f) => g[k] = h[k]}
<1>7. \A i \in 0..Len(f) : /\ g[i] = IF i = 0 THEN 1 ELSE Goes(g[i - 1], f[i])
                           /\ h[i] = IF i = 0 THEN 1 ELSE Goes(h[i - 1], f[i])
  <2> HIDE DEF F, g
  <2> QED BY <1>4, <1>5 DEF IsRun
<1>8. 0 \in K
  <2> HIDE DEF F, g
  <2> QED BY <1>7, <1>0
<1>9. ASSUME NEW k \in Nat, k \in K PROVE k + 1 \in K
  <2> HIDE DEF F, g
  <2> SUFFICES ASSUME k + 1 <= Len(f) PROVE g[k + 1] = h[k + 1]
      OBVIOUS
  <2>1. k + 1 \in 0..Len(f) /\ k + 1 # 0 /\ (k + 1) - 1 = k /\ g[k] = h[k]
      BY <1>9, <1>0
  <2> QED BY <2>1, <1>7
<1>10. \A k \in Nat : k \in K
  <2> HIDE DEF K
  <2>1. \A k \in Nat : k \in K => k + 1 \in K
      BY <1>9
  <2> QED BY ONLY <1>8, <2>1, SetInduction
<1>11. g[Len(f)] = h[Len(f)]
  <2> HIDE DEF F, g
  <2> QED BY <1>10, <1>0
<1> QED
  <2> HIDE DEF F, g, K
  <2> QED BY <1>4, <1>6, <1>11

(* A file that is empty, and one more event.                               *)
LEMMA ShapeNext ==
    /\ Shape(<<>>) = 1
    /\ \A f \in Seq(Events) : \A e \in Events :
          /\ Shape(f) \in States
          /\ Shape(Append(f, e)) = Goes(Shape(f), e)
<1>1. Shape(<<>>) = 1
  <2>1. <<>> \in Seq(Events) /\ Len(<<>>) = 0
      OBVIOUS
  <2>2. PICK h : IsRun(h, <<>>) /\ Shape(<<>>) = h[0]
      BY <2>1, RunExists
  <2> QED BY <2>1, <2>2 DEF IsRun
<1>2. ASSUME NEW f \in Seq(Events), NEW e \in Events
      PROVE  /\ Shape(f) \in States
             /\ Shape(Append(f, e)) = Goes(Shape(f), e)
  <2> DEFINE n == Len(f)
             t == Append(f, e)
             z == n + 1
  <2>1. /\ n \in Nat /\ t \in Seq(Events) /\ Len(t) = z /\ t[z] = e
        /\ \A i \in 1..n : t[i] = f[i]
      OBVIOUS
  <2>2. PICK h : IsRun(h, f) /\ Shape(f) = h[Len(f)] /\ h \in [0..Len(f) -> States]
      BY RunExists
  <2>3. PICK g : IsRun(g, t) /\ Shape(t) = g[Len(t)]
      BY <2>1, RunExists
  <2>4. /\ \A i \in 0..n : h[i] = IF i = 0 THEN 1 ELSE Goes(h[i - 1], f[i])
        /\ \A i \in 0..z : g[i] = IF i = 0 THEN 1 ELSE Goes(g[i - 1], t[i])
      BY <2>1, <2>2, <2>3 DEF IsRun
  <2> HIDE DEF t
  <2> DEFINE K == {k \in Nat : k <= n => g[k] = h[k]}
  <2>5. 0 \in K
      BY <2>1, <2>4
  <2>6. ASSUME NEW k \in Nat, k \in K PROVE k + 1 \in K
    <3> SUFFICES ASSUME k + 1 <= n PROVE g[k + 1] = h[k + 1]
        OBVIOUS
    <3> DEFINE y == k + 1
    <3>1. y \in 0..n /\ y \in 0..z /\ y # 0 /\ y - 1 = k /\ y \in 1..n /\ g[k] = h[k]
        BY <2>1, <2>6
    <3> HIDE DEF y, z, n, K
    <3>2. g[y] = h[y]
        BY <3>1, <2>1, <2>4
    <3> QED BY <3>2 DEF y
  <2>7. \A k \in Nat : k \in K
    <3> HIDE DEF K
    <3>1. \A k \in Nat : k \in K => k + 1 \in K
        BY <2>6
    <3> QED BY ONLY <2>5, <3>1, SetInduction
  <2>8. g[n] = h[n]
      BY <2>1, <2>7
  <2>9. z \in 0..z /\ z # 0 /\ z - 1 = n
      BY <2>1
  <2> HIDE DEF z, K
  <2>10. g[z] = Goes(g[n], t[z])
      BY <2>4, <2>9
  <2> QED BY <2>1, <2>2, <2>3, <2>8, <2>10 DEF t
<1> QED BY <1>1, <1>2

(* Where the automaton is after the first i events.                        *)
At(f, i) == Shape(SubSeq(f, 1, i))

(* One event more takes the automaton one step further.                    *)
LEMMA AtNext ==
    ASSUME NEW f \in Seq(Events)
    PROVE  /\ Len(f) \in Nat
           /\ At(f, 0) = 1
           /\ At(f, Len(f)) = Shape(f)
           /\ \A i, y \in Nat : i < Len(f) /\ y = i + 1 =>
                 f[y] \in Events /\ At(f, y) = Goes(At(f, i), f[y])
           /\ \A i \in 0..Len(f) : At(f, i) \in States
<1>1. Len(f) \in Nat
    OBVIOUS
<1>2. SubSeq(f, 1, 0) = <<>> /\ SubSeq(f, 1, Len(f)) = f
    OBVIOUS
<1>3. \A i \in 0..Len(f) : SubSeq(f, 1, i) \in Seq(Events)
    BY <1>1
<1>4. ASSUME NEW i \in Nat, NEW y \in Nat, i < Len(f), y = i + 1
      PROVE  f[y] \in Events /\ At(f, y) = Goes(At(f, i), f[y])
  <2> DEFINE p == SubSeq(f, 1, i)
  <2>1. y \in 1..Len(f) /\ i \in 0..Len(f)
      BY <1>1, <1>4
  <2>2. p \in Seq(Events) /\ f[y] \in Events
      BY <1>3, <2>1
  <2>3. SubSeq(f, 1, y) = Append(p, f[y])
      BY <2>1, <1>1, <1>4
  <2> HIDE DEF p
  <2>4. Shape(Append(p, f[y])) = Goes(Shape(p), f[y])
      BY <2>2, ShapeNext
  <2> QED BY <2>2, <2>3, <2>4 DEF At, p
<1>5. \A i \in 0..Len(f) : At(f, i) \in States
    BY <1>3, ShapeNext DEF At, Events
<1> QED BY <1>1, <1>2, <1>4, <1>5, ShapeNext DEF At

(* A file in shape was so all along, and ends where the shape does.        *)
LEMMA InShape ==
    ASSUME NEW f \in Seq(Events), Shape(f) = 13
    PROVE  \A i \in 0..Len(f) : /\ At(f, i) \in 1..13
                                /\ i < Len(f) => At(f, i) \in 1..12
<1> DEFINE n == Len(f)
<1>1. /\ n \in Nat /\ At(f, n) = 13
      /\ \A i, y \in Nat : i < n /\ y = i + 1 => At(f, y) = Goes(At(f, i), f[y])
      /\ \A i \in 0..n : At(f, i) \in States
    BY AtNext
<1> HIDE DEF n
<1>2. ASSUME NEW i \in Nat, i < n, At(f, i) \in {0, 13} PROVE FALSE
  <2> DEFINE K == {k \in Nat : i < k /\ k <= n => At(f, k) = 0}
  <2>1. 0 \in K
      BY <1>2
  <2>2. ASSUME NEW k \in Nat, k \in K PROVE k + 1 \in K
    <3> DEFINE y == k + 1
    <3> SUFFICES ASSUME i < y, y <= n PROVE At(f, y) = 0
        OBVIOUS
    <3>1. y \in Nat /\ k < n /\ (k = i \/ (i < k /\ k <= n))
        BY <1>1, <1>2
    <3>2. At(f, k) \in {0, 13}
        BY <3>1, <2>2, <1>2
    <3>3. At(f, y) = Goes(At(f, k), f[y])
        BY <3>1, <1>1
    <3> HIDE DEF y
    <3> QED BY <3>2, <3>3, StepIs
  <2>3. \A k \in Nat : k \in K
    <3> HIDE DEF K
    <3>1. \A k \in Nat : k \in K => k + 1 \in K
        BY <2>2
    <3> QED BY ONLY <2>1, <3>1, SetInduction
  <2>4. At(f, n) = 0
      BY <2>3, <1>1, <1>2
  <2> QED BY <2>4, <1>1
<1>3. \A i \in 0..n : i < n => At(f, i) \in States \ {0, 13}
    BY <1>1, <1>2
<1>4. ASSUME NEW i \in 0..n PROVE At(f, i) \in 1..13 /\ (i < n => At(f, i) \in 1..12)
    BY <1>1, <1>3, <1>4 DEF States
<1> QED BY <1>4 DEF n

-----------------------------------------------------------------------------
(* Any numbers can be sorted.                                              *)
InOrder(p, k, n) == \A i, j \in 1..n : i < j => k[p[i]] <= k[p[j]]
Bijective(p, n) == /\ p \in [1..n -> 1..n]
                   /\ \A i, j \in 1..n : p[i] = p[j] => i = j
                   /\ \A x \in 1..n : \E i \in 1..n : p[i] = x

(* A finite set of integers that is not empty has a maximum.               *)
LEMMA MaxExists ==
    ASSUME NEW n \in Nat, NEW k, \A i \in 1..(n + 1) : k[i] \in Int
    PROVE  \E m \in 1..(n + 1) : \A i \in 1..(n + 1) : k[i] <= k[m]
<1> DEFINE G == {y \in Nat : y <= n => \E m \in 1..(y + 1) : \A i \in 1..(y + 1) : k[i] <= k[m]}
<1>1. 0 \in G
  <2>1. 1 \in 1..(0 + 1) /\ k[1] <= k[1] /\ \A i \in 1..(0 + 1) : i = 1
      OBVIOUS
  <2> QED BY <2>1
<1>2. ASSUME NEW y \in Nat, y \in G PROVE y + 1 \in G
  <2> DEFINE z == y + 1
             w == z + 1
  <2> SUFFICES ASSUME z <= n PROVE \E m \in 1..w : \A i \in 1..w : k[i] <= k[m]
      OBVIOUS
  <2>1. PICK m \in 1..z : \A i \in 1..z : k[i] <= k[m]
      BY <1>2
  <2>2. /\ \A i \in 1..w : i \in 1..z \/ i = w
        /\ \A i \in 1..z : i \in 1..w
        /\ w \in 1..w /\ \A i \in 1..w : k[i] \in Int
      OBVIOUS
  <2> HIDE DEF z, w
  <2>3. CASE k[w] <= k[m]
      BY <2>1, <2>2, <2>3
  <2>4. CASE ~(k[w] <= k[m])
    <3>1. \A i \in 1..w : k[i] <= k[w]
        BY <2>1, <2>2, <2>4
    <3> QED BY <3>1, <2>2
  <2> QED BY <2>3, <2>4
<1>3. \A y \in Nat : y \in G
  <2> HIDE DEF G
  <2>1. \A y \in Nat : y \in G => y + 1 \in G
      BY <1>2
  <2> QED BY ONLY <1>1, <2>1, SetInduction
<1> QED BY <1>3

(* A sequence can be put in order: by induction over its length.           *)
LEMMA OrderExists ==
    ASSUME NEW n \in Nat, NEW k, k \in [1..n -> Int]
    PROVE  \E p : Bijective(p, n) /\ InOrder(p, k, n)
<1> DEFINE G == {y \in Nat : \A f \in [1..y -> Int] :
                     \E p : Bijective(p, y) /\ InOrder(p, f, y)}
<1>1. 0 \in G
  <2> SUFFICES ASSUME NEW f \in [1..0 -> Int]
               PROVE  \E p : Bijective(p, 0) /\ InOrder(p, f, 0)
      OBVIOUS
  <2> DEFINE p == [i \in 1..0 |-> i]
  <2>1. Bijective(p, 0) /\ InOrder(p, f, 0)
      BY DEF Bijective, InOrder
  <2> QED BY <2>1
<1>2. ASSUME NEW y \in Nat, y \in G PROVE y + 1 \in G
  <2> DEFINE z == y + 1
  <2> SUFFICES ASSUME NEW f \in [1..z -> Int]
               PROVE  \E p : Bijective(p, z) /\ InOrder(p, f, z)
      OBVIOUS
  <2>1. PICK m \in 1..z : \A i \in 1..z : f[i] <= f[m]
      BY MaxExists
  <2>0. /\ \A i \in 1..z : i \in 1..y \/ i = z
        /\ \A i \in 1..y : i \in 1..z /\ i # z /\ i < z
        /\ z \in 1..z /\ \A i, j \in 1..z : i < j => i \in 1..y
      OBVIOUS
  <2> DEFINE g == [i \in 1..y |-> IF i = m THEN f[z] ELSE f[i]]
  <2>2. g \in [1..y -> Int]
      BY <2>0
  <2>3. PICK q : Bijective(q, y) /\ InOrder(q, g, y)
      BY <2>2, <1>2
  <2> DEFINE p == [i \in 1..z |-> IF i = z THEN m ELSE IF q[i] = m THEN z ELSE q[i]]
  <2>4. /\ \A i \in 1..y : q[i] \in 1..y /\ p[i] = IF q[i] = m THEN z ELSE q[i]
        /\ p[z] = m
      BY <2>0, <2>3 DEF Bijective
  <2>5. p \in [1..z -> 1..z]
      BY <2>0, <2>4
  <2>6. \A i \in 1..y : f[p[i]] = g[q[i]] /\ p[i] # m
      BY <2>0, <2>4
  <2> HIDE DEF p, g, z
  <2>7. ASSUME NEW i \in 1..z, NEW j \in 1..z, p[i] = p[j] PROVE i = j
    <3>1. i \in 1..y /\ j \in 1..y => i = j
      <4> SUFFICES ASSUME i \in 1..y, j \in 1..y PROVE i = j
          OBVIOUS
      <4>1. q[i] = q[j]
          BY <2>4, <2>7, <2>0
      <4> QED BY <4>1, <2>3 DEF Bijective
    <3> QED BY <3>1, <2>0, <2>4, <2>6, <2>7
  <2>8. ASSUME NEW x \in 1..z PROVE \E i \in 1..z : p[i] = x
    <3>1. CASE x = m
        BY <3>1, <2>0, <2>4
    <3>2. CASE x # m
      <4> DEFINE v == IF x = z THEN m ELSE x
      <4>1. v \in 1..y
          BY <3>2, <2>0
      <4>2. PICK i \in 1..y : q[i] = v
          BY <4>1, <2>3 DEF Bijective
      <4>3. p[i] = x
          BY <4>2, <4>1, <3>2, <2>4, <2>0
      <4> QED BY <4>3, <2>0
    <3> QED BY <3>1, <3>2
  <2>9. ASSUME NEW i \in 1..z, NEW j \in 1..z, i < j PROVE f[p[i]] <= f[p[j]]
    <3>1. i \in 1..y
        BY <2>0, <2>9
    <3>2. CASE j = z
        BY <3>2, <2>1, <2>4, <2>5
    <3>3. CASE j \in 1..y
        BY <3>1, <3>3, <2>3, <2>6, <2>9 DEF InOrder
    <3> QED BY <3>2, <3>3, <2>0
  <2> QED BY <2>5, <2>7, <2>8, <2>9 DEF Bijective, InOrder
<1>3. \A y \in Nat : y \in G
  <2> HIDE DEF G
  <2>1. \A y \in Nat : y \in G => y + 1 \in G
      BY <1>2
  <2> QED BY ONLY <1>1, <2>1, SetInduction
<1> QED BY <1>3

(* Numbers in order of which no neighbours are equal.                      *)
LEMMA SpreadOut ==
    ASSUME NEW n \in Nat, NEW k, k \in [1..n -> Int],
           \A i, j \in 1..n : i < j => k[i] <= k[j],
           \A i, y \in 1..n : y = i + 1 => k[i] # k[y]
    PROVE  \A i, j \in 1..n : i # j => k[i] # k[j]
<1>1. ASSUME NEW i \in 1..n, NEW j \in 1..n, i < j PROVE k[i] # k[j]
  <2> DEFINE y == i + 1
  <2>1. y \in 1..n /\ i < y /\ (y = j \/ y < j) /\ k[i] # k[y]
      BY <1>1
  <2> HIDE DEF y
  <2>2. k[i] <= k[y] /\ k[y] <= k[j] /\ k[i] \in Int /\ k[y] \in Int /\ k[j] \in Int
      BY <2>1
  <2> QED BY <2>1, <2>2
<1> QED BY <1>1

(* The same elements in another order.                                     *)
LEMMA Rearranged ==
    ASSUME NEW T, NEW s \in Seq(T), NEW o,
           \A i \in 1..Len(s) : o[i] \in 1..Len(s),
           \A x \in 1..Len(s) : \E i \in 1..Len(s) : o[i] = x
    PROVE  LET t == [i \in 1..Len(s) |-> s[o[i]]]
           IN t \in Seq(T) /\ Len(t) = Len(s) /\ ToSet(t) = ToSet(s)
<1> DEFINE n == Len(s)
           t == [i \in 1..n |-> s[o[i]]]
<1>1. n \in Nat /\ DOMAIN s = 1..n /\ \A i \in 1..n : s[i] \in T
    BY PlaceOf
<1>2. \A i \in 1..n : o[i] \in 1..n
    OBVIOUS
<1>3. \A x \in 1..n : \E i \in 1..n : o[i] = x
    OBVIOUS
<1> HIDE DEF n
<1>4. t \in Seq(T) /\ Len(t) = n /\ DOMAIN t = 1..n
  <2>1. t \in [1..n -> T]
      BY <1>1, <1>2
  <2> HIDE DEF t
  <2> QED BY <2>1, <1>1
<1>5. ToSet(t) = {t[i] : i \in 1..n} /\ ToSet(s) = {s[i] : i \in 1..n}
    BY <1>1, <1>4 DEF ToSet
<1>6. \A i \in 1..n : t[i] = s[o[i]]
    OBVIOUS
<1> HIDE DEF t
<1>7. ToSet(t) = ToSet(s)
  <2>1. ASSUME NEW x \in ToSet(t) PROVE x \in ToSet(s)
    <3>1. PICK i \in 1..n : x = t[i]
        BY <1>5
    <3> QED BY <3>1, <1>2, <1>5, <1>6
  <2>2. ASSUME NEW x \in ToSet(s) PROVE x \in ToSet(t)
    <3>1. PICK y \in 1..n : x = s[y]
        BY <1>5
    <3>2. PICK i \in 1..n : o[i] = y
        BY <1>3
    <3>3. x = t[i]
        BY <3>1, <3>2, <1>6
    <3> QED BY <3>3, <1>5
  <2> QED BY <2>1, <2>2
<1> QED BY <1>4, <1>7 DEF t, n

(* What Sorted gives of elements whose keys are numbers: the same elements,*)
(* and if no neighbours have the same key, no two have.                    *)
LEMMA SortedName ==
    ASSUME NEW T, NEW s \in Seq(T), \A x \in T : x.name \in Int
    PROVE  LET t == Sorted(s, Name)
           IN /\ t \in Seq(T) /\ Len(t) = Len(s)
              /\ ToSet(t) = ToSet(s)
              /\ ~Adjacent(t, Name) => Different(t, Name)
              /\ Different(s, ListenPname) => Different(t, ListenPname)
<1> DEFINE n == Len(s)
           k == [i \in 1..n |-> s[i].name]
           Ordered(p) == \A i, j \in DOMAIN s : i < j => Name(s[p[i]]) <= Name(s[p[j]])
           o == CHOOSE p \in Bijection(DOMAIN s, DOMAIN s) : Ordered(p)
           t == [i \in 1..n |-> s[o[i]]]
           kt == [i \in 1..n |-> t[i].name]
<1>1. n \in Nat /\ DOMAIN s = 1..n /\ \A i \in 1..n : s[i] \in T
    BY PlaceOf
<1>2. k \in [1..n -> Int]
    BY <1>1
<1>3. \E p \in Bijection(DOMAIN s, DOMAIN s) : Ordered(p)
  <2>1. PICK p : Bijective(p, n) /\ InOrder(p, k, n)
      BY <1>1, <1>2, OrderExists
  <2>2. p \in Bijection(DOMAIN s, DOMAIN s)
      BY <2>1, <1>1 DEF Bijective, Bijection, Injection, Surjection, IsInjective
  <2>3. Ordered(p)
      BY <2>1, <1>1 DEF Bijective, InOrder, Name
  <2> QED BY <2>2, <2>3
<1>4. o \in Bijection(DOMAIN s, DOMAIN s) /\ Ordered(o)
    BY <1>3
<1>5. Sorted(s, Name) = t
    BY <1>1 DEF Sorted
<1>6. /\ \A i \in 1..n : o[i] \in 1..n
      /\ \A x \in 1..n : \E i \in 1..n : o[i] = x
    BY <1>1, <1>4 DEF Bijection, Injection, Surjection
<1>7. \A i, j \in 1..n : i < j => s[o[i]].name <= s[o[j]].name
    BY <1>1, <1>4 DEF Name
<1>11. \A i, j \in 1..n : i # j => o[i] # o[j]
    BY <1>1, <1>4 DEF Bijection, Injection, IsInjective
<1> HIDE DEF o
<1>8. t \in Seq(T) /\ Len(t) = n /\ ToSet(t) = ToSet(s)
    BY <1>6, Rearranged
<1>9. /\ \A i \in 1..n : kt[i] = t[i].name /\ t[i] = s[o[i]]
      /\ kt \in [1..n -> Int]
    BY <1>1, <1>6
<1> HIDE DEF kt
<1>10. ASSUME ~Adjacent(t, Name) PROVE Different(t, Name)
  <2>1. \A i \in 1..(n - 1) : t[i].name # t[i + 1].name
      BY <1>10, <1>8 DEF Adjacent, Name
  <2> HIDE DEF t, n
  <2>3. ASSUME NEW i \in 1..n, NEW y \in 1..n, y = i + 1 PROVE kt[i] # kt[y]
    <3>1. i \in 1..(n - 1)
        BY <1>1, <2>3
    <3> QED BY <3>1, <2>1, <2>3, <1>9
  <2>4. \A i, j \in 1..n : i < j => kt[i] <= kt[j]
      BY <1>7, <1>9
  <2>5. \A i, j \in 1..n : i # j => kt[i] # kt[j]
    <3>1. /\ n \in Nat /\ kt \in [1..n -> Int]
          /\ \A i, j \in 1..n : i < j => kt[i] <= kt[j]
          /\ \A i, y \in 1..n : y = i + 1 => kt[i] # kt[y]
        BY <2>3, <2>4, <1>1, <1>9
    <3> QED BY ONLY <3>1, SpreadOut
  <2>6. DOMAIN t = 1..n
      BY <1>8, LenProperties
  <2> QED BY <2>5, <2>6, <1>9 DEF Different, Name
<1>12. ASSUME Different(s, ListenPname) PROVE Different(t, ListenPname)
  <2>1. DOMAIN t = 1..n
      BY <1>8, LenProperties
  <2> HIDE DEF t
  <2>2. ASSUME NEW i \in 1..n, NEW j \in 1..n, i # j PROVE t[i].listen # t[j].listen
    <3>1. o[i] # o[j] /\ o[i] \in 1..n /\ o[j] \in 1..n
        BY <1>6, <1>11, <2>2
    <3>2. t[i] = s[o[i]] /\ t[j] = s[o[j]]
        BY <1>9
    <3>3. \A x, y \in 1..n : x # y => s[x].listen # s[y].listen
        BY <1>1, <1>12 DEF Different, ListenPname
    <3> HIDE DEF n
    <3> QED BY <3>1, <3>2, <3>3
  <2> QED BY <2>1, <2>2 DEF Different, ListenPname
<1> QED BY <1>5, <1>8, <1>10, <1>12

(* The same by the listen addresses of pools.                              *)
LEMMA SortedListen ==
    ASSUME NEW T, NEW s \in Seq(T), \A x \in T : x.listen \in Int
    PROVE  LET t == Sorted(s, ListenPname)
           IN /\ t \in Seq(T) /\ Len(t) = Len(s)
              /\ ToSet(t) = ToSet(s)
              /\ ~Adjacent(t, ListenPname) => Different(t, ListenPname)
<1> DEFINE n == Len(s)
           k == [i \in 1..n |-> s[i].listen]
           Ordered(p) == \A i, j \in DOMAIN s : i < j => ListenPname(s[p[i]]) <= ListenPname(s[p[j]])
           o == CHOOSE p \in Bijection(DOMAIN s, DOMAIN s) : Ordered(p)
           t == [i \in 1..n |-> s[o[i]]]
           kt == [i \in 1..n |-> t[i].listen]
<1>1. n \in Nat /\ DOMAIN s = 1..n /\ \A i \in 1..n : s[i] \in T
    BY PlaceOf
<1>2. k \in [1..n -> Int]
    BY <1>1
<1>3. \E p \in Bijection(DOMAIN s, DOMAIN s) : Ordered(p)
  <2>1. PICK p : Bijective(p, n) /\ InOrder(p, k, n)
      BY <1>1, <1>2, OrderExists
  <2>2. p \in Bijection(DOMAIN s, DOMAIN s)
      BY <2>1, <1>1 DEF Bijective, Bijection, Injection, Surjection, IsInjective
  <2>3. Ordered(p)
      BY <2>1, <1>1 DEF Bijective, InOrder, ListenPname
  <2> QED BY <2>2, <2>3
<1>4. o \in Bijection(DOMAIN s, DOMAIN s) /\ Ordered(o)
    BY <1>3
<1>5. Sorted(s, ListenPname) = t
    BY <1>1 DEF Sorted
<1>6. /\ \A i \in 1..n : o[i] \in 1..n
      /\ \A x \in 1..n : \E i \in 1..n : o[i] = x
    BY <1>1, <1>4 DEF Bijection, Injection, Surjection
<1>7. \A i, j \in 1..n : i < j => s[o[i]].listen <= s[o[j]].listen
    BY <1>1, <1>4 DEF ListenPname
<1> HIDE DEF o
<1>8. t \in Seq(T) /\ Len(t) = n /\ ToSet(t) = ToSet(s)
    BY <1>6, Rearranged
<1>9. /\ \A i \in 1..n : kt[i] = t[i].listen /\ t[i] = s[o[i]]
      /\ kt \in [1..n -> Int]
    BY <1>1, <1>6
<1> HIDE DEF kt
<1>10. ASSUME ~Adjacent(t, ListenPname) PROVE Different(t, ListenPname)
  <2>1. \A i \in 1..(n - 1) : t[i].listen # t[i + 1].listen
      BY <1>10, <1>8 DEF Adjacent, ListenPname
  <2> HIDE DEF t, n
  <2>3. ASSUME NEW i \in 1..n, NEW y \in 1..n, y = i + 1 PROVE kt[i] # kt[y]
    <3>1. i \in 1..(n - 1)
        BY <1>1, <2>3
    <3> QED BY <3>1, <2>1, <2>3, <1>9
  <2>4. \A i, j \in 1..n : i < j => kt[i] <= kt[j]
      BY <1>7, <1>9
  <2>5. \A i, j \in 1..n : i # j => kt[i] # kt[j]
    <3>1. /\ n \in Nat /\ kt \in [1..n -> Int]
          /\ \A i, j \in 1..n : i < j => kt[i] <= kt[j]
          /\ \A i, y \in 1..n : y = i + 1 => kt[i] # kt[y]
        BY <2>3, <2>4, <1>1, <1>9
    <3> QED BY ONLY <3>1, SpreadOut
  <2>6. DOMAIN t = 1..n
      BY <1>8, LenProperties
  <2> QED BY <2>5, <2>6, <1>9 DEF Different, ListenPname
<1> QED BY <1>5, <1>8, <1>10

-----------------------------------------------------------------------------
(* The inductive invariant: what the program keeps, by where the automaton *)
(* of Shape is.                                                            *)

(* The collections that are open, and how many scalars cf->arg has.        *)
OpenOf(q) ==
    CASE q = 4 -> <<"key">>
      [] q = 5 -> <<"value">>
      [] q \in {6, 9} -> <<"value", "key">>
      [] q \in {7, 10} -> <<"value", "value">>
      [] q = 8 -> <<"value", "value", "item">>
      [] OTHER -> <<>>
DepthOf(q) == CASE q \in {4, 5} -> 1 [] q \in 6..10 -> 2 [] OTHER -> 0
ArgsOf(q) == CASE q \in {5, 6, 9} -> 1 [] q \in {7, 8, 10} -> 2 [] OTHER -> 0

(* The events that end files in the states that have but one.              *)
LastOf(q) ==
    /\ q = 1 <=> file = <<>>
    /\ q = 2 => Last(file) = "stream+"
    /\ q = 3 => Last(file) = "doc+"
    /\ q \in 4..11 => Last(file) \notin {"stream+", "doc+", "doc-"}
    /\ q = 12 => Last(file) = "doc-"
    /\ Count("doc+") = IF q \in {1, 2} THEN 0 ELSE 1

(* The local variables of conf_validate_structure.                         *)
CheckRec == [depth : 0..(CONF_MAX_DEPTH + 1), seq : BOOLEAN, error : BOOLEAN,
             count : [0..CONF_MAX_DEPTH -> 0..2]]
Checked(k, q) ==
    /\ k.depth = DepthOf(q)
    /\ k.seq <=> q \in 8..10
    /\ k.count[0] = 0
    /\ k.count[1] = IF q \in 5..10 THEN 1 ELSE 0
    /\ q \in {7, 10} => k.count[2] = 1
    /\ q = 8 => k.count[2] \in {1, 2}
    /\ q \notin {7, 8, 10} => k.count[2] \in {0, 2}

CfRec == [depth : 0..CONF_MAX_DEPTH, seq : BOOLEAN, sound : BOOLEAN,
          valid_parser : BOOLEAN, parsed : BOOLEAN]
PoolsRec == [gen : Nat \ {0}, nalloc : Nat \ {0}, elem : Seq(PoolRec)]

Types ==
    /\ pc \in {"document", "tokens", "init", "structure", "begin", "core",
               "handle", "end", "validate", "destroy", "ok", "failed", "abort"}
    /\ docs \in 0..2 /\ plain \in BOOLEAN
    /\ file \in Seq(Events) /\ pos \in 0..Len(file) /\ path \in Seq(Nat)
    /\ check \in CheckRec /\ cf \in CfRec
    /\ arg \in Seq(Nat) /\ Len(arg) <= 3
    /\ pool \in PoolsRec /\ Len(pool.elem) <= pool.nalloc
    /\ data \in [gen : Nat, idx : Nat]
    /\ leaf \in BOOLEAN /\ nfault \in 0..MaxFault

(* Before conf_parse.                                                      *)
Unparsed ==
    /\ pc \in {"document", "tokens", "init", "structure", "begin"} =>
          /\ pos = 0 /\ path = <<>> /\ arg = <<>> /\ data = Null
          /\ pool.elem = <<>>
          /\ cf.depth = 0 /\ ~cf.seq /\ (cf.valid_parser <=> pc = "structure")
    /\ pc \in {"document", "tokens", "init"} =>
          /\ file = <<>> /\ open = <<>> /\ check.depth = 0 /\ ~check.seq
          /\ check.count = [i \in 0..CONF_MAX_DEPTH |-> 0]
    /\ pc \in {"tokens", "init", "structure"} => docs = 1
    /\ pc \in {"init", "structure"} => plain

InStructure ==
    pc = "structure" => /\ Shape(file) \in 1..12
                        /\ open = OpenOf(Shape(file))
                        /\ LastOf(Shape(file)) /\ Checked(check, Shape(file))

Found ==
    /\ check.error => pc = "destroy" /\ Shape(file) = 0
    /\ pc \in {"begin", "core", "handle", "end"} => Shape(file) = 13

(* In conf_parse.                                                          *)
Here == At(file, pos)
ServersValid == \A i \in 1..Len(pool.elem) :
                   \A j \in 1..Len(pool.elem[i].server) :
                      pool.elem[i].server[j].valid

InParse ==
    pc \in {"core", "handle"} =>
        /\ Here \in 4..10
        /\ open = OpenOf(Here)
        /\ cf.depth = DepthOf(Here) /\ (cf.seq <=> Here = 8)
        /\ data # Null => data = [gen |-> pool.gen, idx |-> Len(pool.elem)]
        /\ Here # 4 => data # Null /\ Len(pool.elem) > 0
        /\ Here # 4 /\ (pc = "core" \/ Here # 5) =>
              path # <<>> /\ pool.elem[data.idx].name = path[1]

InCore ==
    pc = "core" => /\ Len(path) >= ArgsOf(Here)
                   /\ arg = SubSeq(path, 1, ArgsOf(Here))

InHandle ==
    pc = "handle" => /\ Here \in {5, 6, 8, 9}
                     /\ leaf <=> Here # 5
                     /\ arg = path
                     /\ Len(arg) = IF Here = 5 THEN 1 ELSE 3
                     /\ arg[Len(arg)] \in Text

Parsed ==
    /\ pc = "end" => open = <<>> /\ Here = 11
    /\ pc \in {"end", "validate", "ok"} => arg = <<>>
    /\ pc \in {"validate", "ok"} => ~cf.valid_parser
    /\ pc \in {"core", "handle", "end", "validate"} => ServersValid
    /\ pc = "abort" => NoHost \in Text

IInv == /\ Types /\ Unparsed /\ InStructure /\ Found
        /\ InParse /\ InCore /\ InHandle /\ Parsed /\ AcceptedIsSound

(* Short sequences.                                                        *)
LEMMA Short ==
    ASSUME NEW T, NEW x \in T, NEW y \in T, NEW z \in T
    PROVE  /\ Append(<<>>, x) = <<x>> /\ Append(<<x>>, y) = <<x, y>>
           /\ Append(<<x, y>>, z) = <<x, y, z>>
           /\ Front(<<x>>) = <<>> /\ Front(<<x, y>>) = <<x>>
           /\ Front(<<x, y, z>>) = <<x, y>>
<1>1. /\ <<>> \in Seq(T) /\ <<x>> \in Seq(T) /\ <<x, y>> \in Seq(T) /\ <<x, y, z>> \in Seq(T)
    OBVIOUS
<1>2. /\ Len(<<>>) = 0 /\ Len(<<x>>) = 1 /\ Len(<<x, y>>) = 2 /\ Len(<<x, y, z>>) = 3
    OBVIOUS
<1>3. Append(<<>>, x) = <<x>>
    OBVIOUS
<1>4. Append(<<x>>, y) = <<x, y>>
  <2> DEFINE a == Append(<<x>>, y)
  <2>1. a \in Seq(T) /\ Len(a) = 2 /\ a[1] = x /\ a[2] = y
      BY <1>1, <1>2
  <2> HIDE DEF a
  <2>2. a = <<x, y>>
      BY <2>1
  <2> QED BY <2>2 DEF a
<1>5. Append(<<x, y>>, z) = <<x, y, z>>
  <2> DEFINE a == Append(<<x, y>>, z)
  <2>1. a \in Seq(T) /\ Len(a) = 3 /\ a[1] = x /\ a[2] = y /\ a[3] = z
      BY <1>1, <1>2
  <2> HIDE DEF a
  <2>2. a = <<x, y, z>>
      BY <2>1
  <2> QED BY <2>2 DEF a
<1>6. Front(<<x>>) = <<>>
    BY DEF Front
<1>7. Front(<<x, y>>) = <<x>>
  <2>1. Front(<<x, y>>) = SubSeq(<<x, y>>, 1, 1)
      BY DEF Front
  <2>2. SubSeq(<<x, y>>, 1, 1) \in Seq(T) /\ Len(SubSeq(<<x, y>>, 1, 1)) = 1
        /\ SubSeq(<<x, y>>, 1, 1)[1] = x
      BY <1>1
  <2> QED BY <2>1, <2>2
<1>8. Front(<<x, y, z>>) = <<x, y>>
  <2> DEFINE a == SubSeq(<<x, y, z>>, 1, 2)
  <2>1. Front(<<x, y, z>>) = a
      BY DEF Front
  <2>2. a \in Seq(T) /\ Len(a) = 2 /\ a[1] = x /\ a[2] = y
      BY <1>1
  <2> HIDE DEF a
  <2> QED BY <2>1, <2>2
<1> QED BY <1>3, <1>4, <1>5, <1>6, <1>7, <1>8

(* What is open follows the automaton.                                     *)
LEMMA OpenFollows ==
    ASSUME NEW q, q \in 1..12, NEW e, Goes(q, e) # 0
    PROVE  Opened(OpenOf(q), e) = OpenOf(Goes(q, e))
<1> DEFINE T == {"key", "value", "item"}
<1>0. \A x, y, z \in T :
          /\ Append(<<>>, x) = <<x>> /\ Append(<<x>>, y) = <<x, y>>
          /\ Append(<<x, y>>, z) = <<x, y, z>>
          /\ Front(<<x>>) = <<>> /\ Front(<<x, y>>) = <<x>>
          /\ Front(<<x, y, z>>) = <<x, y>>
  <2> HIDE DEF T
  <2> QED BY Short
<1>1. /\ Front(<<"key">>) = <<>> /\ Front(<<"value", "key">>) = <<"value">>
      /\ Front(<<"value", "value", "item">>) = <<"value", "value">>
    BY <1>0
<1>2. /\ Grown(<<>>) = <<>> /\ Grown(<<"key">>) = <<"value">>
      /\ Grown(<<"value">>) = <<"key">>
  <2>1. [<<"key">> EXCEPT ![1] = "value"] = <<"value">> /\ [<<"value">> EXCEPT ![1] = "key"] = <<"key">>
      OBVIOUS
  <2> QED BY <2>1 DEF Grown, Follows
<1>3. /\ Grown(<<"value", "key">>) = <<"value", "value">>
      /\ Grown(<<"value", "value">>) = <<"value", "key">>
  <2>1. /\ [<<"value", "key">> EXCEPT ![2] = "value"] = <<"value", "value">>
        /\ [<<"value", "value">> EXCEPT ![2] = "key"] = <<"value", "key">>
      OBVIOUS
  <2> QED BY <2>1 DEF Grown, Follows
<1>4. Grown(<<"value", "value", "item">>) = <<"value", "value", "item">>
  <2>1. [<<"value", "value", "item">> EXCEPT ![3] = "item"] = <<"value", "value", "item">>
      OBVIOUS
  <2> QED BY <2>1 DEF Grown, Follows
<1>5. q \in {1, 2, 3, 11, 12} => OpenOf(q) = <<>>
    BY DEF OpenOf
<1>6. /\ OpenOf(4) = <<"key">> /\ OpenOf(5) = <<"value">> /\ OpenOf(6) = <<"value", "key">>
      /\ OpenOf(7) = <<"value", "value">> /\ OpenOf(8) = <<"value", "value", "item">>
      /\ OpenOf(9) = <<"value", "key">> /\ OpenOf(10) = <<"value", "value">>
      /\ OpenOf(1) = <<>> /\ OpenOf(2) = <<>> /\ OpenOf(3) = <<>> /\ OpenOf(11) = <<>>
      /\ OpenOf(12) = <<>> /\ OpenOf(13) = <<>>
    BY DEF OpenOf
<1>7. /\ Append(<<>>, "key") = <<"key">> /\ Append(<<"value">>, "key") = <<"value", "key">>
      /\ Append(<<"value", "value">>, "item") = <<"value", "value", "item">>
    BY <1>0
<1> HIDE DEF OpenOf
<1>8. CASE q \in {1, 2, 11, 12}
    BY <1>8, <1>6, StepIs DEF Opened
<1>9. CASE q = 3
    BY <1>9, <1>6, <1>7, StepIs DEF Opened
<1>10. CASE q = 4
    BY <1>10, <1>1, <1>2, <1>6, <1>7, StepIs DEF Opened
<1>11. CASE q = 5
    BY <1>11, <1>6, <1>7, StepIs DEF Opened
<1>12. CASE q = 6
    BY <1>12, <1>3, <1>6, StepIs DEF Opened
<1>13. CASE q = 7
    BY <1>13, <1>3, <1>6, <1>7, StepIs DEF Opened
<1>14. CASE q = 8
    BY <1>14, <1>1, <1>3, <1>4, <1>6, StepIs DEF Opened
<1>15. CASE q = 9
    BY <1>15, <1>1, <1>2, <1>3, <1>6, StepIs DEF Opened
<1>16. CASE q = 10
    BY <1>16, <1>3, <1>6, StepIs DEF Opened
<1>17. q \in {1, 2, 3, 4, 5, 6, 7, 8, 9, 10, 11, 12}
    OBVIOUS
<1> QED BY <1>8, <1>9, <1>10, <1>11, <1>12, <1>13, <1>14, <1>15, <1>16, <1>17

(* A function that sets a directive keeps the name of the pool, ends the   *)
(* process for an address without a host only, and where it has no error   *)
(* leaves no server that is not valid.                                     *)
AllValid(p) == \A j \in 1..Len(p.server) : p.server[j].valid
Results == [pool : PoolRec, res : {"ok", "refused", "fault", "abort"}]

Kept(p, v, o) ==
    /\ o \in Results /\ o.pool.name = p.name
    /\ o.res = "abort" => v = NoHost
    /\ o.res = "ok" /\ AllValid(p) => AllValid(o.pool)

(* Texts are numbers, and none is Empty.                                   *)
LEMMA TextIs == /\ Empty \notin Text /\ Text \subseteq Nat /\ NONE \notin Nat
                /\ \A v \in Text : v \in {1, 2} \/ v \in {Bad, NoHost}
                /\ \A v \in Text : v \in {Bad, NoHost} => v \notin {1, 2}
    BY ConfAssumption DEF Empty, Bad, NoHost, NONE

(* The directives that set one field, or refuse, leave the name and the    *)
(* servers alone.                                                          *)
LEMMA SetsOne ==
    ASSUME NEW p \in PoolRec, NEW v \in Text
    PROVE  /\ \A o \in conf_set_string(p, v) : Kept(p, v, o)
           /\ \A o \in conf_set_hashtag(p, v) : Kept(p, v, o)
           /\ \A o \in conf_set_num(p, v) : Kept(p, v, o)
           /\ \A o \in conf_set_bool(p, v) : Kept(p, v, o)
           /\ \A o \in conf_set_hash(p, v) : Kept(p, v, o)
           /\ \A o \in {Refused(p)} : Kept(p, v, o)
<1>0. /\ Kept(p, v, Refused(p)) /\ Kept(p, v, NoMemory(p))
    BY DEF Kept, Results, Refused, NoMemory, Out
<1>1. v \notin {Bad, NoHost} => v \in {1, 2}
    BY TextIs
<1>2. ASSUME NEW r \in PoolRec, r.name = p.name, r.server = p.server
      PROVE  Kept(p, v, Done(r))
    BY <1>2 DEF Kept, Results, Done, Out, AllValid
<1>3. LET r == [p EXCEPT !.redis_auth = v]
      IN r \in PoolRec /\ r.name = p.name /\ r.server = p.server
    BY DEF PoolRec
<1>4. LET r == [p EXCEPT !.hash_tag = v]
      IN r \in PoolRec /\ r.name = p.name /\ r.server = p.server
    BY DEF PoolRec
<1>5. ASSUME v \in {1, 2}
      PROVE  LET r == [p EXCEPT !.server_connections = v - 1]
             IN r \in PoolRec /\ r.name = p.name /\ r.server = p.server
  <2>1. v - 1 \in Opt({0, 1})
      BY <1>5 DEF Opt
  <2> QED BY <2>1 DEF PoolRec
<1>6. ASSUME v \in {1, 2}
      PROVE  LET r == [p EXCEPT !.redis = 2 - v]
             IN r \in PoolRec /\ r.name = p.name /\ r.server = p.server
  <2>1. 2 - v \in Opt({0, 1})
      BY <1>6 DEF Opt
  <2> QED BY <2>1 DEF PoolRec
<1>7. ASSUME v \in {1, 2}
      PROVE  LET r == [p EXCEPT !.hash = v]
             IN r \in PoolRec /\ r.name = p.name /\ r.server = p.server
  <2>1. v \in Opt({1, 2})
      BY <1>7 DEF Opt
  <2> QED BY <2>1 DEF PoolRec
<1>8. \A o \in conf_set_string(p, v) : Kept(p, v, o)
    BY <1>0, <1>2, <1>3 DEF conf_set_string
<1>9. \A o \in conf_set_hashtag(p, v) : Kept(p, v, o)
    BY <1>0, <1>2, <1>4 DEF conf_set_hashtag
<1>10. \A o \in conf_set_num(p, v) : Kept(p, v, o)
    BY <1>0, <1>1, <1>2, <1>5 DEF conf_set_num
<1>11. \A o \in conf_set_bool(p, v) : Kept(p, v, o)
    BY <1>0, <1>1, <1>2, <1>6 DEF conf_set_bool
<1>12. \A o \in conf_set_hash(p, v) : Kept(p, v, o)
    BY <1>0, <1>1, <1>2, <1>7 DEF conf_set_hash
<1> QED BY <1>0, <1>8, <1>9, <1>10, <1>11, <1>12

(* The directive listen.                                                   *)
LEMMA SetsListen ==
    ASSUME NEW p \in PoolRec, NEW v \in Text
    PROVE  \A o \in conf_set_listen(p, v) : Kept(p, v, o)
<1> DEFINE named == [p EXCEPT !.listen = v]
           valid == [named EXCEPT !.lvalid = TRUE]
<1>1. /\ named \in PoolRec /\ named.name = p.name /\ named.server = p.server
      /\ valid \in PoolRec /\ valid.name = p.name /\ valid.server = p.server
    BY DEF PoolRec
<1> HIDE DEF named, valid
<1>2. ASSUME NEW r \in PoolRec, r.name = p.name, r.server = p.server
      PROVE  /\ Kept(p, v, Done(r)) /\ Kept(p, v, Refused(r)) /\ Kept(p, v, NoMemory(r))
             /\ v = NoHost => Kept(p, v, Out(r, "abort"))
    BY <1>2 DEF Kept, Results, Done, Refused, NoMemory, Out, AllValid
<1>3. conf_set_listen(p, v) \subseteq {Refused(p), NoMemory(p), Refused(named), NoMemory(named),
                                       Done(valid)}
                                     \cup (IF v = NoHost THEN {Out(named, "abort")} ELSE {})
    BY DEF conf_set_listen, named, valid
<1> QED BY <1>1, <1>2, <1>3

(* The directive servers.                                                  *)
LEMMA SetsServer ==
    ASSUME NEW p \in PoolRec, NEW v \in Text
    PROVE  \A o \in conf_add_server(p, v) : Kept(p, v, o)
<1> DEFINE pushed(s) == [p EXCEPT !.server = Append(@, s)]
           bare == [name |-> Empty, valid |-> FALSE]
           named == [bare EXCEPT !.name = v]
           good == [name |-> v, valid |-> TRUE]
<1>0. p.server \in Seq(ServerRec)
    BY DEF PoolRec
<1>1. bare \in ServerRec /\ named \in ServerRec /\ good \in ServerRec /\ good.valid
    BY DEF ServerRec
<1>2. ASSUME NEW s \in ServerRec
      PROVE  /\ pushed(s) \in PoolRec /\ pushed(s).name = p.name
             /\ s.valid /\ AllValid(p) => AllValid(pushed(s))
  <2> DEFINE t == Append(p.server, s)
  <2>1. /\ t \in Seq(ServerRec) /\ Len(t) = Len(p.server) + 1 /\ Len(p.server) \in Nat
        /\ \A j \in 1..Len(p.server) : t[j] = p.server[j]
        /\ t[Len(p.server) + 1] = s
      BY <1>0
  <2>2. pushed(s) \in PoolRec /\ pushed(s).name = p.name /\ pushed(s).server = t
    <3> HIDE DEF t
    <3>1. [p EXCEPT !.server = t] \in PoolRec /\ [p EXCEPT !.server = t].name = p.name
          /\ [p EXCEPT !.server = t].server = t
        BY <2>1 DEF PoolRec
    <3>2. pushed(s) = [p EXCEPT !.server = t]
        BY DEF t, PoolRec
    <3> QED BY <3>1, <3>2
  <2>3. ASSUME s.valid, AllValid(p) PROVE AllValid(pushed(s))
    <3> HIDE DEF pushed, t
    <3>1. \A j \in 1..Len(t) : t[j].valid
        BY <2>1, <2>3 DEF AllValid
    <3> QED BY <2>2, <3>1 DEF AllValid
  <2> QED BY <2>2, <2>3
<1>3. ASSUME NEW s \in ServerRec
      PROVE  /\ s.valid => Kept(p, v, Done(pushed(s)))
             /\ Kept(p, v, Refused(pushed(s))) /\ Kept(p, v, NoMemory(pushed(s)))
             /\ v = NoHost => Kept(p, v, Out(pushed(s), "abort"))
  <2> HIDE DEF pushed
  <2> QED BY <1>2 DEF Kept, Results, Done, Refused, NoMemory, Out
<1>4. Kept(p, v, NoMemory(p))
    BY DEF Kept, Results, NoMemory, Out
<1>5. conf_add_server(p, v) \subseteq
          {NoMemory(p), Refused(pushed(bare)), NoMemory(pushed(bare)), NoMemory(pushed(named)),
           Done(pushed(good))}
          \cup (IF v = NoHost THEN {Out(pushed(named), "abort")} ELSE {})
    BY DEF conf_add_server
<1> HIDE DEF pushed, bare, named, good
<1> QED BY <1>1, <1>3, <1>4, <1>5

(* Every directive leaves the name alone, adds valid servers only, and     *)
(* aborts for a server without a host only.                                *)
LEMMA CommandsKeep ==
    ASSUME NEW p \in PoolRec, NEW v \in Text, NEW key, NEW o \in Commanded(p, key, v)
    PROVE  Kept(p, v, o)
    BY SetsOne, SetsListen, SetsServer DEF Commanded

(* conf_pool_init makes a pool without servers, of the name it is given.   *)
LEMMA PoolInits ==
    ASSUME NEW v \in Text, NEW o \in conf_pool_init(v)
    PROVE  /\ o \in Results /\ o.res \in {"ok", "fault"} /\ AllValid(o.pool)
           /\ o.res = "ok" => o.pool.name = v
<1>1. PoolNull \in PoolRec /\ PoolNull.server = <<>>
    BY DEF PoolNull, PoolRec, Opt
<1>2. [PoolNull EXCEPT !.name = v] \in PoolRec /\ [PoolNull EXCEPT !.name = v].server = <<>>
      /\ [PoolNull EXCEPT !.name = v].name = v
    BY <1>1 DEF PoolRec
<1>3. ASSUME NEW r \in PoolRec, r.server = <<>>
      PROVE  /\ NoMemory(r) \in Results /\ NoMemory(r).res = "fault" /\ NoMemory(r).pool = r
             /\ Done(r) \in Results /\ Done(r).res = "ok" /\ Done(r).pool = r
             /\ AllValid(r)
    BY <1>3 DEF NoMemory, Done, Out, Results, AllValid
<1>4. o = NoMemory(PoolNull) \/ o = Done([PoolNull EXCEPT !.name = v])
    BY DEF conf_pool_init
<1> DEFINE r == [PoolNull EXCEPT !.name = v]
<1>5. r \in PoolRec /\ r.server = <<>> /\ r.name = v /\ (o = NoMemory(PoolNull) \/ o = Done(r))
    BY <1>2, <1>4
<1> HIDE DEF r
<1>6. CASE o = NoMemory(PoolNull)
    BY <1>6, <1>1, <1>3
<1>7. CASE o = Done(r)
    BY <1>7, <1>5, <1>3
<1> QED BY <1>5, <1>6, <1>7

(* What may follow in a plain file of one document.                        *)
Follow(q) ==
    CASE q = 1 -> {"stream+"} [] q = 2 -> {"doc+"}
      [] q \in {3, 5, 7, 10} -> {"map+", "seq+", "scalar"}
      [] q \in {4, 6, 9} -> {"map+", "seq+", "scalar", "map-"}
      [] q = 8 -> {"map+", "seq+", "scalar", "seq-"}
      [] q = 11 -> {"doc-"} [] OTHER -> {"stream-"}

(* The steps, by the function that takes them.                             *)
LEMMA NextIs ==
    ASSUME plain, docs = 1, NEW q \in 1..12, open = OpenOf(q), LastOf(q)
    PROVE  NextEvents \subseteq Follow(q)
<1>1. Node \subseteq {"map+", "seq+", "scalar"}
    BY DEF Node
<1>2. /\ Item("map+", "map-") \subseteq {"map+", "seq+", "scalar", "map-"}
      /\ Item("seq+", "seq-") \subseteq {"map+", "seq+", "scalar", "seq-"}
    BY <1>1 DEF Item
<1>3. /\ OpenOf(4) = <<"key">> /\ OpenOf(5) = <<"value">> /\ OpenOf(6) = <<"value", "key">>
      /\ OpenOf(7) = <<"value", "value">> /\ OpenOf(8) = <<"value", "value", "item">>
      /\ OpenOf(9) = <<"value", "key">> /\ OpenOf(10) = <<"value", "value">>
      /\ OpenOf(11) = <<>> /\ OpenOf(12) = <<>>
      /\ OpenOf(1) = <<>> /\ OpenOf(2) = <<>> /\ OpenOf(3) = <<>>
    BY DEF OpenOf
<1>4. /\ Last(<<"key">>) = "key" /\ Last(<<"value">>) = "value"
      /\ Last(<<"value", "key">>) = "key" /\ Last(<<"value", "value">>) = "value"
      /\ Last(<<"value", "value", "item">>) = "item"
      /\ <<"key">> # <<>> /\ <<"value">> # <<>> /\ <<"value", "key">> # <<>>
      /\ <<"value", "value">> # <<>> /\ <<"value", "value", "item">> # <<>>
    BY DEF Last
<1> HIDE DEF OpenOf
<1>15. /\ Follow(1) = {"stream+"} /\ Follow(2) = {"doc+"}
       /\ Follow(3) = {"map+", "seq+", "scalar"}
       /\ Follow(11) = {"doc-"} /\ Follow(12) = {"stream-"}
    BY DEF Follow
<1>5. CASE q = 1
  <2>1. file = <<>>
      BY <1>5 DEF LastOf
  <2>2. NextEvents = {"stream+"}
      BY <2>1, <1>3, <1>5 DEF NextEvents
  <2> QED BY <1>5, <2>2, <1>15
<1>6. CASE q = 2
  <2>1. file # <<>> /\ Last(file) = "stream+" /\ Count("doc+") = 0
      BY <1>6 DEF LastOf
  <2>2. NextEvents = {"doc+"}
      BY <2>1, <1>3, <1>6 DEF NextEvents
  <2> QED BY <1>6, <2>2, <1>15
<1>7. CASE q = 3
  <2>1. file # <<>> /\ Last(file) = "doc+"
      BY <1>7 DEF LastOf
  <2>2. NextEvents = Node
      BY <2>1, <1>3, <1>7 DEF NextEvents
  <2> QED BY <1>7, <2>2, <1>15, <1>1
<1>8. CASE q = 12
  <2>1. file # <<>> /\ Last(file) = "doc-" /\ Count("doc+") = 1
      BY <1>8 DEF LastOf
  <2>2. NextEvents = {"stream-"}
      BY <2>1, <1>3, <1>8 DEF NextEvents
  <2> QED BY <1>8, <2>2, <1>15
<1>9. CASE q = 11
  <2>1. file # <<>> /\ Last(file) \notin {"stream+", "doc+", "doc-"}
      BY <1>9 DEF LastOf
  <2>2. NextEvents = {"doc-"}
      BY <2>1, <1>3, <1>9 DEF NextEvents
  <2> QED BY <1>9, <2>2, <1>15
<1>10. ASSUME q \in 4..10 PROVE file # <<>> /\ Last(file) \notin {"stream+", "doc+", "doc-"}
    BY <1>10 DEF LastOf
<1>11. CASE q \in {4, 6, 9}
  <2>1. NextEvents = Item("map+", "map-")
      BY <1>3, <1>4, <1>10, <1>11 DEF NextEvents
  <2> QED BY <2>1, <1>2, <1>11 DEF Follow
<1>12. CASE q \in {5, 7, 10}
  <2>1. NextEvents = Node
      BY <1>3, <1>4, <1>10, <1>12 DEF NextEvents
  <2> QED BY <2>1, <1>1, <1>12 DEF Follow
<1>13. CASE q = 8
  <2>1. NextEvents = Item("seq+", "seq-")
      BY <1>3, <1>4, <1>10, <1>13 DEF NextEvents
  <2> QED BY <2>1, <1>2, <1>13 DEF Follow
<1>14. q \in {1, 2, 3, 4, 5, 6, 7, 8, 9, 10, 11, 12}
    OBVIOUS
<1> QED BY <1>5, <1>6, <1>7, <1>8, <1>9, <1>11, <1>12, <1>13, <1>14

(* depth, seq and count[] tell an event that leaves the shape from the     *)
(* others, and follow those.                                               *)
LEMMA CountsFollow ==
    ASSUME NEW k \in CheckRec, NEW q \in 1..12, Checked(k, q), NEW e \in Follow(q)
    PROVE  /\ Misplaced(k, e) <=> Goes(q, e) = 0
           /\ e # "alias" /\ (e = "seq-" => k.depth = CONF_MAX_DEPTH)
           /\ e = "stream-" <=> q = 12
           /\ Goes(q, e) # 0 => Checked(Counted(k, e), Goes(q, e)) /\ Counted(k, e) \in CheckRec
<1> DEFINE c == Counted(k, e)
<1>0. CONF_MAX_DEPTH = 2 /\ CONF_ROOT_DEPTH = 1 /\ 0..CONF_MAX_DEPTH = {0, 1, 2}
    BY DEF CONF_MAX_DEPTH, CONF_ROOT_DEPTH
<1>1. /\ k.depth \in 0..3 /\ k.seq \in BOOLEAN /\ k.count \in [{0, 1, 2} -> 0..2]
      /\ k.error \in BOOLEAN
      /\ k = [depth |-> k.depth, seq |-> k.seq, error |-> k.error, count |-> k.count]
    BY <1>0 DEF CheckRec
<1>2. q \in {1, 2, 3, 4, 5, 6, 7, 8, 9, 10, 11, 12}
    OBVIOUS
<1>3. /\ DepthOf(4) = 1 /\ DepthOf(5) = 1 /\ DepthOf(6) = 2 /\ DepthOf(7) = 2
      /\ DepthOf(8) = 2 /\ DepthOf(9) = 2 /\ DepthOf(10) = 2
      /\ DepthOf(1) = 0 /\ DepthOf(2) = 0 /\ DepthOf(3) = 0 /\ DepthOf(11) = 0
      /\ DepthOf(12) = 0 /\ DepthOf(13) = 0
    BY DEF DepthOf
<1> HIDE DEF DepthOf
<1>4. CASE q \in {1, 2, 11, 12}
  <2>1. e \in {"stream+", "stream-", "doc+", "doc-"} /\ Goes(q, e) \in {2, 3, 12, 13}
        /\ (e = "stream-" <=> q = 12)
      BY <1>4, StepIs DEF Follow
  <2>2. c = k /\ ~Misplaced(k, e)
      BY <2>1 DEF Counted, Misplaced
  <2>3. Checked(k, Goes(q, e))
      BY <1>3, <1>4, <2>1 DEF Checked
  <2>4. k.depth = CONF_MAX_DEPTH \/ e # "seq-"
      BY <2>1
  <2>5. Goes(q, e) # 0 /\ e # "alias"
      BY <2>1
  <2>6. Checked(c, Goes(q, e)) /\ c \in CheckRec
    <3> HIDE DEF c
    <3> QED BY <2>2, <2>3
  <2> QED BY <2>1, <2>2, <2>4, <2>5, <2>6
<1>5. ASSUME q \in 3..10
      PROVE  e \in {"map+", "seq+", "scalar", "map-", "seq-"} /\ (e = "map-" => q \in {4, 6, 9})
             /\ (e = "seq-" => q = 8)
    BY <1>5 DEF Follow
<1>6. ASSUME q \in 3..10
      PROVE  Misplaced(k, e) <=> Goes(q, e) = 0
  <2>1. CASE e = "map+"
    <3>1. Goes(q, e) = IF q = 3 THEN 4 ELSE IF q = 5 THEN 6 ELSE 0
        BY <1>2, <1>6, <2>1, StepIs
    <3> QED BY <3>1, <2>1, <1>0, <1>2, <1>3, <1>6 DEF Misplaced, Checked
  <2>2. CASE e = "seq+"
    <3>1. Goes(q, e) = IF q = 7 THEN 8 ELSE 0
        BY <1>2, <1>6, <2>2, StepIs
    <3> QED BY <3>1, <2>2, <1>0, <1>2, <1>3, <1>6 DEF Misplaced, Checked
  <2>3. CASE e = "scalar"
    <3>1. Goes(q, e) = 0 <=> q \in {3, 5}
        BY <1>2, <1>6, <2>3, StepIs
    <3> QED BY <3>1, <2>3, <1>0, <1>2, <1>3, <1>6 DEF Misplaced, Checked
  <2>4. CASE e = "map-"
    <3>1. Goes(q, e) = 0 <=> q = 6
        BY <1>2, <1>5, <1>6, <2>4, StepIs
    <3> QED BY <3>1, <2>4, <1>0, <1>2, <1>3, <1>5, <1>6 DEF Misplaced, Checked
  <2>5. CASE e = "seq-"
    <3>1. Goes(q, e) # 0
        BY <1>2, <1>5, <1>6, <2>5, StepIs
    <3> QED BY <3>1, <2>5, <1>0, <1>5, <1>6 DEF Misplaced
  <2> QED BY <1>5, <1>6, <2>1, <2>2, <2>3, <2>4, <2>5
<1>7. ASSUME q \in 3..10, Goes(q, e) # 0
      PROVE  Checked(c, Goes(q, e)) /\ c \in CheckRec
  <2>1. CASE e = "map+"
    <3>1. (q = 3 /\ Goes(q, e) = 4) \/ (q = 5 /\ Goes(q, e) = 6)
        BY <1>2, <1>7, <2>1, StepIs
    <3>2. /\ c.depth = k.depth + 1 /\ c.seq = k.seq /\ c.error = k.error /\ c.count = k.count
          /\ c \in CheckRec
      <4>1. c = [k EXCEPT !.depth = @ + 1]
          BY <2>1 DEF Counted
      <4>2. k.depth \in {0, 1}
          BY <3>1, <1>3 DEF Checked
      <4> HIDE DEF c
      <4> QED BY <4>1, <4>2, <1>0, <1>1 DEF CheckRec
    <3> HIDE DEF c
    <3> QED BY <3>1, <3>2, <1>3 DEF Checked
  <2>2. CASE e = "seq+"
    <3>1. q = 7 /\ Goes(q, e) = 8
        BY <1>2, <1>7, <2>2, StepIs
    <3>2. /\ c.depth = k.depth /\ c.seq = TRUE /\ c.error = k.error /\ c.count = k.count
          /\ c \in CheckRec
      <4>1. c = [k EXCEPT !.seq = TRUE]
          BY <2>2 DEF Counted
      <4> HIDE DEF c
      <4> QED BY <4>1, <1>0, <1>1 DEF CheckRec
    <3> HIDE DEF c
    <3> QED BY <3>1, <3>2, <1>3 DEF Checked
  <2>3. CASE e = "scalar"
    <3>1. \/ q = 4 /\ Goes(q, e) = 5
          \/ q = 6 /\ Goes(q, e) = 7
          \/ q = 7 /\ Goes(q, e) = 6
          \/ q = 8 /\ Goes(q, e) = 8
          \/ q = 9 /\ Goes(q, e) = 10
          \/ q = 10 /\ Goes(q, e) = 9
        BY <1>2, <1>7, <2>3, StepIs
    <3> DEFINE d == k.depth
               u == k.count[d]
               w == IF d = 2 /\ u = 2 THEN 1 ELSE u + 1
    <3>2. d \in {1, 2} /\ u \in 0..2 /\ (d = 1 => u = 0)
        BY <3>1, <1>1, <1>3 DEF Checked
    <3>3. w \in 0..2
        BY <3>2
    <3>4. /\ c.depth = d /\ c.seq = k.seq /\ c.error = k.error
          /\ c.count = [k.count EXCEPT ![d] = w]
          /\ c \in CheckRec
      <4>1. c = [k EXCEPT !.count[k.depth] = IF k.depth = CONF_MAX_DEPTH /\ @ = 2 THEN 1 ELSE @ + 1]
          BY <2>3 DEF Counted
      <4>2. c = [k EXCEPT !.count = [k.count EXCEPT ![d] = w]]
          BY <4>1, <1>0
      <4> HIDE DEF c, w, d
      <4>3. [k.count EXCEPT ![d] = w] \in [{0, 1, 2} -> 0..2]
          BY <3>3, <1>1
      <4> QED BY <4>2, <4>3, <1>0, <1>1 DEF CheckRec, d
    <3>5. /\ d = 1 => c.count[1] = w /\ c.count[2] = k.count[2] /\ c.count[0] = k.count[0]
          /\ d = 2 => c.count[2] = w /\ c.count[1] = k.count[1] /\ c.count[0] = k.count[0]
      <4> HIDE DEF c, w, d
      <4> QED BY <3>4, <1>1, <3>2
    <3>6. d = DepthOf(q) /\ DepthOf(Goes(q, e)) = d
        BY <3>1, <1>3 DEF Checked
    <3>7. w = IF d = 1 THEN 1 ELSE IF u = 1 THEN 2 ELSE 1
        BY <3>2
    <3> HIDE DEF c, w
    <3> QED BY <3>1, <3>2, <3>4, <3>5, <3>6, <3>7, <1>1, <1>3 DEF Checked
  <2>4. CASE e = "map-"
    <3>1. (q = 4 /\ Goes(q, e) = 11) \/ (q = 9 /\ Goes(q, e) = 4)
        BY <1>2, <1>5, <1>7, <2>4, StepIs
    <3> DEFINE d == k.depth
               y == d - 1
    <3>2. /\ y \in {0, 1} /\ (q = 4 <=> d = 1) /\ (q = 9 <=> d = 2) /\ y = d - 1
          /\ ~(d # 2 /\ k.seq)
        BY <3>1, <1>3 DEF Checked
    <3>3. /\ c.depth = y /\ c.seq = FALSE /\ c.error = k.error
          /\ c.count = [k.count EXCEPT ![y] = 0]
          /\ c \in CheckRec
      <4>1. c = [k EXCEPT !.depth = @ - 1, !.count[k.depth - 1] = 0,
                          !.seq = k.depth # CONF_MAX_DEPTH /\ @]
          BY <2>4 DEF Counted
      <4>2. c = [k EXCEPT !.depth = y, !.count = [k.count EXCEPT ![y] = 0],
                          !.seq = FALSE]
          BY <4>1, <3>2, <1>0
      <4> HIDE DEF c, y, d
      <4>3. [k.count EXCEPT ![y] = 0] \in [{0, 1, 2} -> 0..2]
          BY <3>2, <1>1
      <4> DEFINE g == [k.count EXCEPT ![y] = 0]
      <4>4. c = [depth |-> y, seq |-> FALSE, error |-> k.error, count |-> g]
          BY <4>2, <1>1
      <4>5. y \in 0..3 /\ g \in [{0, 1, 2} -> 0..2] /\ k.error \in BOOLEAN
          BY <4>3, <3>2, <1>1
      <4>6. CheckRec = [depth : 0..3, seq : BOOLEAN, error : BOOLEAN, count : [{0, 1, 2} -> 0..2]]
          BY <1>0 DEF CheckRec
      <4>7. c.depth = y /\ c.seq = FALSE /\ c.error = k.error /\ c.count = g
          BY <4>4
      <4> HIDE DEF g
      <4>8. c \in CheckRec
          BY <4>4, <4>5, <4>6
      <4> QED BY <4>7, <4>8 DEF g
    <3>4. c.count[y] = 0 /\ \A i \in {0, 1, 2} : i # y => c.count[i] = k.count[i]
      <4> HIDE DEF c, y, d
      <4> QED BY <3>2, <3>3, <1>1
    <3> HIDE DEF c, y
    <3> QED BY <3>1, <3>2, <3>3, <3>4, <1>1, <1>3 DEF Checked
  <2>5. CASE e = "seq-"
    <3>1. q = 8 /\ Goes(q, e) = 9 /\ k.depth = 2
        BY <1>2, <1>3, <1>5, <1>7, <2>5, StepIs DEF Checked
    <3>2. /\ c.depth = k.depth /\ c.seq = k.seq /\ c.error = k.error
          /\ c.count = [k.count EXCEPT ![2] = 0]
          /\ c \in CheckRec
      <4>1. c = [k EXCEPT !.count[k.depth] = 0]
          BY <2>5 DEF Counted
      <4>2. c = [k EXCEPT !.count = [k.count EXCEPT ![2] = 0]]
          BY <4>1, <3>1
      <4> HIDE DEF c
      <4>3. [k.count EXCEPT ![2] = 0] \in [{0, 1, 2} -> 0..2]
          BY <1>1
      <4> QED BY <4>2, <4>3, <1>0, <1>1 DEF CheckRec
    <3>3. c.count[2] = 0 /\ c.count[1] = k.count[1] /\ c.count[0] = k.count[0]
      <4> HIDE DEF c
      <4> QED BY <3>2, <1>1
    <3> HIDE DEF c
    <3> QED BY <3>1, <3>2, <3>3, <1>1, <1>3 DEF Checked
  <2> QED BY <1>5, <1>7, <2>1, <2>2, <2>3, <2>4, <2>5
<1>8. ASSUME q \in 3..10 PROVE e # "alias" /\ e # "stream-" /\ (e = "seq-" => k.depth = CONF_MAX_DEPTH)
    BY <1>0, <1>3, <1>5, <1>8 DEF Checked
<1>9. CASE q \in 3..10
  <2>1. /\ Goes(q, e) # 0 => Checked(c, Goes(q, e)) /\ c \in CheckRec
        /\ e = "stream-" <=> q = 12
      BY <1>7, <1>8, <1>9
  <2> QED BY <1>6, <1>8, <1>9, <2>1
<1> HIDE DEF c
<1>10. CASE q \in {1, 2, 11, 12}
  <2>1. e # "alias" /\ e # "seq-"
      BY <1>10 DEF Follow
  <2> QED BY <1>4, <1>10, <2>1 DEF c
<1> QED BY <1>2, <1>9, <1>10

-----------------------------------------------------------------------------
(* The invariant holds at the start and is kept by every step.             *)
LEMMA TypesOK == Types => TypeOK
<1>1. CONF_MAX_DEPTH + 1 = 3
    BY DEF CONF_MAX_DEPTH, CONF_ROOT_DEPTH
<1> QED BY <1>1 DEF Types, TypeOK, CheckRec, CfRec, PoolsRec

(* A step that fails is counted.                                           *)
LEMMA FaultsBounded ==
    ASSUME nfault \in 0..MaxFault
    PROVE  /\ Faulty => nfault' \in 0..MaxFault
           /\ Faultless => nfault' \in 0..MaxFault
    BY ConfAssumption DEF Faulty, Faultless

(* What initialising and releasing the YAML parser do to struct conf.      *)
LEMMA CfKept ==
    ASSUME NEW c \in CfRec
    PROVE  /\ conf_yaml_init(c) \in CfRec /\ conf_yaml_deinit(c) \in CfRec
           /\ conf_yaml_init(c).depth = c.depth /\ (conf_yaml_init(c).seq <=> c.seq)
           /\ conf_yaml_init(c).valid_parser
           /\ conf_yaml_deinit(c).depth = c.depth /\ (conf_yaml_deinit(c).seq <=> c.seq)
           /\ ~conf_yaml_deinit(c).valid_parser
           /\ [c EXCEPT !.sound = TRUE] \in CfRec /\ [c EXCEPT !.parsed = TRUE] \in CfRec
           /\ [c EXCEPT !.sound = TRUE].depth = c.depth
           /\ [c EXCEPT !.sound = TRUE].seq = c.seq
           /\ [c EXCEPT !.sound = TRUE].valid_parser = c.valid_parser
           /\ [c EXCEPT !.parsed = TRUE].valid_parser = c.valid_parser
    BY DEF CfRec, conf_yaml_init, conf_yaml_deinit

(* The invariant holds initially, and every step keeps it:                 *)
LEMMA InvInit == Init => IInv
<1> SUFFICES ASSUME Init PROVE IInv
    OBVIOUS
<1>1. Types
  <2>1. /\ file \in Seq(Events) /\ Len(file) = 0 /\ path \in Seq(Nat) /\ arg \in Seq(Nat)
        /\ Len(arg) = 0
      BY DEF Init
  <2>2. pool = [gen |-> 1, nalloc |-> PoolAlloc, elem |-> <<>>] /\ PoolAlloc \in Nat \ {0}
      BY ConfAssumption DEF Init
  <2>3. /\ pool \in PoolsRec
        /\ Len(pool.elem) = 0 /\ pool.nalloc \in Nat
      BY <2>2 DEF PoolsRec
  <2>4. check \in CheckRec
      BY DEF Init, CheckRec, CONF_MAX_DEPTH, CONF_ROOT_DEPTH
  <2>5. cf \in CfRec
      BY DEF Init, CfRec, CONF_MAX_DEPTH, CONF_ROOT_DEPTH
  <2>6. data \in [gen : Nat, idx : Nat]
      BY DEF Init, Null
  <2>7. nfault \in 0..MaxFault
      BY ConfAssumption DEF Init
  <2>8. /\ pc = "document" /\ docs \in 0..2 /\ plain \in BOOLEAN /\ pos = 0 /\ leaf \in BOOLEAN
      BY DEF Init
  <2> QED BY <2>1, <2>3, <2>4, <2>5, <2>6, <2>7, <2>8 DEF Types
<1>2. Unparsed
    BY DEF Init, Unparsed
<1> QED BY <1>1, <1>2 DEF Init, IInv, InStructure, Found, InParse, InCore, InHandle, Parsed, AcceptedIsSound

(* conf_validate_document,                                                 *)
LEMMA InvDocument ==
    ASSUME IInv, conf_validate_document PROVE IInv'
<1>1. Types /\ Unparsed /\ Found
    BY DEF IInv
<1>2. /\ pc = "document" /\ pc' \in {"destroy", "tokens"} /\ (pc' = "tokens" => docs = 1)
      /\ cf' = conf_yaml_deinit(conf_yaml_init(cf)) /\ UNCHANGED <<file, open, check>>
      /\ UNCHANGED <<docs, plain, pos, path, arg, pool, data, leaf>>
      /\ (Faulty \/ Faultless)
    BY DEF conf_validate_document, NotParsing
<1>3. cf' \in CfRec /\ cf'.depth = cf.depth /\ (cf'.seq <=> cf.seq) /\ ~cf'.valid_parser
    BY <1>1, <1>2, CfKept DEF Types
<1>4. Types'
    BY <1>1, <1>2, <1>3, FaultsBounded DEF Types
<1>5. Unparsed'
    BY <1>1, <1>2, <1>3 DEF Unparsed
<1>6. Found' /\ ~check.error
    BY <1>1, <1>2 DEF Found
<1> QED BY <1>2, <1>4, <1>5, <1>6 DEF IInv, InStructure, InParse, InCore, InHandle, Parsed, AcceptedIsSound

(* conf_validate_tokens,                                                   *)
LEMMA InvTokens ==
    ASSUME IInv, conf_validate_tokens PROVE IInv'
<1>1. Types /\ Unparsed /\ Found
    BY DEF IInv
<1>2. /\ pc = "tokens" /\ ~cf.valid_parser
      /\ pc' \in {"destroy", "init"} /\ (pc' = "init" => plain)
      /\ \/ cf' = conf_yaml_init(cf) /\ pc' = "destroy"
         \/ cf' = conf_yaml_deinit(conf_yaml_init(cf))
      /\ UNCHANGED <<file, open, check>>
      /\ UNCHANGED <<docs, plain, pos, path, arg, pool, data, leaf>>
      /\ (Faulty \/ Faultless)
    BY <1>1 DEF conf_validate_tokens, NotParsing, Unparsed
<1>3. cf' \in CfRec /\ (pc' = "init" => cf'.depth = cf.depth /\ (cf'.seq <=> cf.seq) /\ ~cf'.valid_parser)
  <2> DEFINE a == conf_yaml_init(cf)
             b == conf_yaml_deinit(a)
  <2>1. a \in CfRec /\ a.depth = cf.depth /\ (a.seq <=> cf.seq)
      BY <1>1, CfKept DEF Types
  <2> HIDE DEF a
  <2>2. b \in CfRec /\ b.depth = a.depth /\ (b.seq <=> a.seq) /\ ~b.valid_parser
      BY <2>1, CfKept
  <2>3. (cf' = a /\ pc' = "destroy") \/ cf' = b
      BY <1>2 DEF a
  <2> HIDE DEF b
  <2> QED BY <2>1, <2>2, <2>3
<1>4. Types'
    BY <1>1, <1>2, <1>3, FaultsBounded DEF Types
<1>5. Unparsed'
    BY <1>1, <1>2, <1>3 DEF Unparsed
<1>6. Found'
    BY <1>1, <1>2 DEF Found
<1> QED BY <1>2, <1>4, <1>5, <1>6 DEF IInv, InStructure, InParse, InCore, InHandle, Parsed, AcceptedIsSound

(* Nothing occurs in an empty file.                                        *)
LEMMA CountNone == Cardinality({}) = 0
    BY FS_EmptySet

(* the start of conf_validate_structure,                                   *)
LEMMA InvStart ==
    ASSUME IInv, StartStructure PROVE IInv'
<1>1. Types /\ Unparsed /\ Found
    BY DEF IInv
<1>2. /\ pc = "init" /\ ~cf.valid_parser
      /\ \/ pc' = "destroy" /\ UNCHANGED cf
         \/ pc' = "structure" /\ cf' = conf_yaml_init(cf)
      /\ UNCHANGED <<file, open, check>>
      /\ UNCHANGED <<docs, plain, pos, path, arg, pool, data, leaf>>
      /\ (Faulty \/ Faultless)
    BY <1>1 DEF StartStructure, NotParsing, Unparsed
<1>3. cf' \in CfRec /\ (pc' = "structure" => cf'.depth = cf.depth /\ (cf'.seq <=> cf.seq) /\ cf'.valid_parser)
  <2> DEFINE a == conf_yaml_init(cf)
  <2>1. /\ a \in CfRec /\ a.depth = cf.depth /\ (a.seq <=> cf.seq) /\ a.valid_parser
        /\ cf \in CfRec
      BY <1>1, CfKept DEF Types
  <2>2. (cf' = cf /\ pc' = "destroy") \/ cf' = a
      BY <1>2
  <2> HIDE DEF a
  <2> QED BY <2>1, <2>2
<1>4. Types'
    BY <1>1, <1>2, <1>3, FaultsBounded DEF Types
<1>5. Unparsed'
    BY <1>1, <1>2, <1>3 DEF Unparsed
<1>6. Found'
    BY <1>1, <1>2 DEF Found
<1>7. InStructure'
  <2>1. file' = <<>> /\ open' = <<>> /\ check'.depth = 0 /\ ~check'.seq
        /\ check'.count = [i \in 0..CONF_MAX_DEPTH |-> 0]
      BY <1>1, <1>2 DEF Unparsed
  <2>2. Shape(file') = 1
      BY <2>1, ShapeNext
  <2>3. LastOf(1)'
    <3>1. {i \in DOMAIN file' : file'[i] = "doc+"} = {}
        BY <2>1
    <3> QED BY <2>1, <3>1, CountNone DEF LastOf, Count
  <2>4. Checked(check', 1)
      BY <2>1 DEF Checked, DepthOf, CONF_MAX_DEPTH, CONF_ROOT_DEPTH
  <2>5. open' = OpenOf(1)
      BY <2>1 DEF OpenOf
  <2> QED BY <2>2, <2>3, <2>4, <2>5 DEF InStructure
<1> QED BY <1>2, <1>4, <1>5, <1>6, <1>7 DEF IInv, InParse, InCore, InHandle, Parsed, AcceptedIsSound

(* A file and one more event.                                              *)
LEMMA OneMore ==
    ASSUME NEW f \in Seq(Events), NEW e \in Events
    PROVE  LET t == Append(f, e)
               old == {i \in DOMAIN f : f[i] = "doc+"}
               all == {i \in DOMAIN t : t[i] = "doc+"}
           IN /\ t \in Seq(Events) /\ t # <<>> /\ Last(t) = e
              /\ Cardinality(old) \in Nat
              /\ e # "doc+" => Cardinality(all) = Cardinality(old)
              /\ e = "doc+" => Cardinality(all) = Cardinality(old) + 1
<1> DEFINE t == Append(f, e)
           n == Len(f)
           z == n + 1
           old == {i \in DOMAIN f : f[i] = "doc+"}
           all == {i \in DOMAIN t : t[i] = "doc+"}
<1>1. /\ t \in Seq(Events) /\ n \in Nat /\ DOMAIN f = 1..n /\ DOMAIN t = 1..z /\ Len(t) = z
      /\ t[z] = e /\ \A i \in 1..n : t[i] = f[i]
    OBVIOUS
<1>2. /\ z \in 1..z /\ z \notin 1..n /\ \A i \in 1..z : i \in 1..n \/ i = z
      /\ \A i \in 1..n : i \in 1..z
    BY <1>1
<1>3. t # <<>> /\ Last(t) = e
  <2> HIDE DEF t
  <2> QED BY <1>1 DEF Last
<1>4. IsFiniteSet(old) /\ z \notin old
  <2>1. IsFiniteSet(1..n)
      BY <1>1, FS_Interval
  <2>2. old \subseteq 1..n
      BY <1>1
  <2> HIDE DEF old, n, z
  <2> QED BY <2>1, <2>2, <1>2, FS_Subset
<1>5. e # "doc+" => all = old
  <2> HIDE DEF t, n, z
  <2> QED BY <1>1, <1>2
<1>6. e = "doc+" => all = old \cup {z}
  <2> HIDE DEF t, n, z
  <2> QED BY <1>1, <1>2
<1> HIDE DEF t, old, all, z
<1>7. Cardinality(old) \in Nat
    BY <1>4, FS_CardinalityType
<1>8. Cardinality(old \cup {z}) = Cardinality(old) + 1
    BY <1>4, FS_AddElement
<1> QED BY <1>1, <1>3, <1>5, <1>6, <1>7, <1>8 DEF t, old, all

(* The types of what is counted, whatever the event.                       *)
LEMMA CountedType ==
    ASSUME NEW k \in CheckRec, NEW q \in 1..12, Checked(k, q), NEW e \in Follow(q)
    PROVE  Counted(k, e) \in CheckRec
<1> DEFINE c == Counted(k, e)
           d == k.depth
<1>0. /\ CONF_MAX_DEPTH = 2
      /\ CheckRec = [depth : 0..3, seq : BOOLEAN, error : BOOLEAN, count : [{0, 1, 2} -> 0..2]]
  <2>1. CONF_MAX_DEPTH = 2 /\ 0..CONF_MAX_DEPTH = {0, 1, 2} /\ CONF_MAX_DEPTH + 1 = 3
      BY DEF CONF_MAX_DEPTH, CONF_ROOT_DEPTH
  <2> QED BY <2>1 DEF CheckRec
<1>1. /\ d \in {0, 1, 2} /\ k.seq \in BOOLEAN /\ k.count \in [{0, 1, 2} -> 0..2]
      /\ k.error \in BOOLEAN /\ d \in 0..3
      /\ k = [depth |-> d, seq |-> k.seq, error |-> k.error, count |-> k.count]
    BY <1>0 DEF Checked, DepthOf
<1>2. /\ e = "map-" => d \in {1, 2}
      /\ e = "scalar" => d \in {0, 1, 2} /\ (d # 2 => k.count[d] \in {0, 1})
  <2>1. e = "map-" => q \in {4, 6, 9}
      BY DEF Follow
  <2>2. q \in {4, 6, 9} => DepthOf(q) \in {1, 2}
      BY DEF DepthOf
  <2>3. d # 2 => k.count[d] \in {0, 1}
      BY <1>1 DEF Checked
  <2> QED BY <1>1, <2>1, <2>2, <2>3 DEF Checked
<1>3. ASSUME NEW x \in 0..3, NEW s \in BOOLEAN, NEW g \in [{0, 1, 2} -> 0..2]
      PROVE  [depth |-> x, seq |-> s, error |-> k.error, count |-> g] \in CheckRec
    BY <1>0, <1>1
<1>4. CASE e = "map+"
  <2> DEFINE x == d + 1
  <2>1. x \in 0..3
      BY <1>1
  <2>2. c = [depth |-> x, seq |-> k.seq, error |-> k.error, count |-> k.count]
      BY <1>1, <1>4 DEF Counted
  <2> HIDE DEF c, x, d
  <2> QED BY <2>1, <2>2, <1>1, <1>3 DEF c
<1>5. CASE e = "map-"
  <2> DEFINE x == d - 1
             s == IF d = CONF_MAX_DEPTH THEN FALSE ELSE k.seq
             g == [k.count EXCEPT ![x] = 0]
  <2>0. x \in {0, 1} /\ x \in 0..3
      BY <1>2, <1>5
  <2>6. g \in [{0, 1, 2} -> 0..2]
    <3> DEFINE w == 0
               h == [k.count EXCEPT ![x] = w]
    <3>1. w \in 0..2
        OBVIOUS
    <3> HIDE DEF x, w
    <3>2. h \in [{0, 1, 2} -> 0..2]
        BY <3>1, <1>1
    <3> QED BY <3>2 DEF w
  <2>7. s \in BOOLEAN
      BY <1>1
  <2>1. x \in 0..3 /\ s \in BOOLEAN /\ g \in [{0, 1, 2} -> 0..2]
      BY <2>0, <2>6, <2>7
  <2>2. s = (d # CONF_MAX_DEPTH /\ k.seq)
      BY <1>1
  <2>3. c = [k EXCEPT !.depth = x, !.count = g, !.seq = d # CONF_MAX_DEPTH /\ k.seq]
      BY <1>1, <1>5 DEF Counted
  <2> HIDE DEF c, x, d, g, s
  <2>4. c = [k EXCEPT !.depth = x, !.count = g, !.seq = s]
      BY <2>2, <2>3
  <2>5. c = [depth |-> x, seq |-> s, error |-> k.error, count |-> g]
      BY <2>4, <1>1
  <2> QED BY <2>1, <2>5, <1>3 DEF c
<1>6. CASE e = "seq+"
  <2>1. c = [depth |-> d, seq |-> TRUE, error |-> k.error, count |-> k.count]
      BY <1>1, <1>6 DEF Counted
  <2> HIDE DEF c, d
  <2> QED BY <2>1, <1>1, <1>3 DEF c
<1>7. CASE e = "seq-"
  <2> DEFINE g == [k.count EXCEPT ![d] = 0]
  <2>1. g \in [{0, 1, 2} -> 0..2]
      BY <1>1
  <2>2. c = [depth |-> d, seq |-> k.seq, error |-> k.error, count |-> g]
      BY <1>1, <1>7 DEF Counted
  <2> HIDE DEF c, d, g
  <2> QED BY <2>1, <2>2, <1>1, <1>3 DEF c
<1>8. CASE e = "scalar"
  <2> DEFINE u == k.count[d]
             w == IF d = CONF_MAX_DEPTH /\ u = 2 THEN 1 ELSE u + 1
             g == [k.count EXCEPT ![d] = w]
  <2>0. u \in 0..2 /\ (d # 2 => u \in {0, 1})
      BY <1>1, <1>2, <1>8
  <2>1. w \in 0..2
      BY <1>0, <1>1, <2>0
  <2>2. c = [k EXCEPT !.count = g]
      BY <1>1, <1>8 DEF Counted
  <2> HIDE DEF w
  <2>3. g \in [{0, 1, 2} -> 0..2]
      BY <1>1, <2>1
  <2> HIDE DEF c, d, g
  <2>4. c = [depth |-> d, seq |-> k.seq, error |-> k.error, count |-> g]
      BY <2>2, <1>1
  <2> QED BY <2>3, <2>4, <1>1, <1>3 DEF c
<1>9. CASE e \notin {"map+", "map-", "seq+", "seq-", "scalar"}
    BY <1>9 DEF Counted
<1> QED BY <1>4, <1>5, <1>6, <1>7, <1>8, <1>9

(* Which event leads where.                                                *)
LEMMA LedBy ==
    ASSUME NEW q \in 1..12, NEW e, Goes(q, e) # 0
    PROVE  /\ Goes(q, e) \in 2..13
           /\ e \in Events /\ e # "alias"
           /\ Goes(q, e) = 2 => e = "stream+"
           /\ Goes(q, e) = 3 <=> e = "doc+"
           /\ e = "doc+" <=> q = 2
           /\ Goes(q, e) \in 4..11 => e \notin {"stream+", "doc+", "doc-"}
           /\ Goes(q, e) = 12 => e = "doc-"
           /\ Goes(q, e) = 2 <=> q = 1
           /\ Goes(q, e) = 13 <=> q = 12
<1>1. q \in {1, 2, 3, 4, 5, 6, 7, 8, 9, 10, 11, 12}
    OBVIOUS
<1> QED BY <1>1, StepIs DEF Events

(* What may follow are events.                                             *)
LEMMA FollowEvents == \A q \in 1..12 : Follow(q) \subseteq Events
    BY DEF Follow, Events

(* one event of conf_validate_structure,                                   *)
LEMMA InvStructure ==
    ASSUME IInv, conf_validate_structure PROVE IInv'
<1> DEFINE q == Shape(file)
<1>1. Types /\ Unparsed /\ Found /\ InStructure
    BY DEF IInv
<1>2. /\ pc = "structure" /\ UNCHANGED <<docs, plain, pos, path, arg, pool, data, leaf>>
    BY DEF conf_validate_structure, NotParsing
<1>3. /\ q \in 1..12 /\ open = OpenOf(q) /\ LastOf(q) /\ Checked(check, q)
      /\ file \in Seq(Events) /\ check \in CheckRec /\ cf \in CfRec /\ plain /\ docs = 1
      /\ ~check.error
    BY <1>1, <1>2 DEF Types, InStructure, Unparsed, Found
<1>4. ASSUME Faulty, pc' = "destroy", UNCHANGED <<file, open, check, cf>> PROVE IInv'
  <2>1. Types'
      BY <1>1, <1>2, <1>4, FaultsBounded DEF Types
  <2> QED BY <2>1, <1>2, <1>3, <1>4
          DEF IInv, Unparsed, InStructure, Found, InParse, InCore, InHandle, Parsed, AcceptedIsSound
<1>5. ASSUME NEW e \in NextEvents, Faultless, file' = Append(file, e), open' = Opened(open, e),
             check' = [Counted(check, e) EXCEPT !.error = Misplaced(check, e)],
             IF \/ e = "alias"
                \/ e = "seq-" /\ check.depth # CONF_MAX_DEPTH
             THEN pc' = "abort" /\ UNCHANGED cf
             ELSE IF check'.error
             THEN pc' = "destroy" /\ cf' = conf_yaml_deinit(cf)
             ELSE IF e = "stream-"
             THEN /\ pc' = "begin"
                  /\ cf' = [conf_yaml_deinit(cf) EXCEPT !.sound = TRUE]
             ELSE pc' = "structure" /\ UNCHANGED cf
      PROVE  IInv'
  <2> DEFINE r == Goes(q, e)
             c == Counted(check, e)
  <2>1. e \in Follow(q) /\ e \in Events
      BY <1>3, NextIs, FollowEvents
  <2>2. /\ Misplaced(check, e) <=> r = 0
        /\ e # "alias" /\ (e = "seq-" => check.depth = CONF_MAX_DEPTH)
        /\ e = "stream-" <=> q = 12
        /\ r # 0 => Checked(c, r)
        /\ c \in CheckRec
      BY <1>3, <2>1, CountsFollow, CountedType
  <2>3. /\ file' \in Seq(Events) /\ Shape(file') = r /\ file' # <<>> /\ Last(file') = e
        /\ Len(file') \in Nat
    <3> DEFINE t == Append(file, e)
    <3>1. t \in Seq(Events) /\ t # <<>> /\ Last(t) = e
        BY <1>3, <2>1, OneMore
    <3>2. Shape(t) = r
        BY <1>3, <2>1, ShapeNext
    <3>3. file' = t
        BY <1>5
    <3> HIDE DEF t, r
    <3> QED BY <3>1, <3>2, <3>3
  <2>4. /\ check' \in CheckRec /\ check'.error = Misplaced(check, e)
        /\ check'.depth = c.depth /\ check'.seq = c.seq /\ check'.count = c.count
    <3>1. Misplaced(check, e) \in BOOLEAN
        BY DEF Misplaced
    <3> HIDE DEF c
    <3> QED BY <1>5, <2>2, <3>1 DEF CheckRec, c
  <2>5. /\ pc' \in {"destroy", "begin", "structure"} /\ (pc' = "destroy" <=> r = 0)
        /\ pc' = "begin" <=> r # 0 /\ q = 12
        /\ pc' = "structure" => UNCHANGED cf
        /\ pc' = "begin" => cf' = [conf_yaml_deinit(cf) EXCEPT !.sound = TRUE]
        /\ pc' = "destroy" => cf' = conf_yaml_deinit(cf)
    <3> HIDE DEF q, r
    <3> QED BY <1>5, <2>2, <2>4
  <2>6. /\ cf' \in CfRec
        /\ pc' # "destroy" =>
              cf'.depth = cf.depth /\ (cf'.seq <=> cf.seq)
                 /\ (cf'.valid_parser <=> (pc' = "structure" /\ cf.valid_parser))
    <3> DEFINE a == conf_yaml_deinit(cf)
               b == [a EXCEPT !.sound = TRUE]
    <3>1. a \in CfRec /\ a.depth = cf.depth /\ (a.seq <=> cf.seq) /\ ~a.valid_parser
        BY <1>3, CfKept
    <3> HIDE DEF a
    <3>2. b \in CfRec /\ b.depth = a.depth /\ b.seq = a.seq /\ b.valid_parser = a.valid_parser
        BY <3>1, CfKept
    <3>3. \/ pc' = "destroy" /\ cf' = a
          \/ pc' = "begin" /\ cf' = b
          \/ pc' = "structure" /\ cf' = cf
        BY <2>5 DEF a
    <3> HIDE DEF b
    <3> QED BY <1>3, <3>1, <3>2, <3>3
  <2> HIDE DEF c
  <2>7. Types'
      BY <1>1, <1>2, <1>5, <2>3, <2>4, <2>5, <2>6, FaultsBounded DEF Types, Unparsed
  <2>8. Unparsed'
      BY <1>1, <1>2, <2>5, <2>6 DEF Unparsed
  <2>9. Found'
    <3>1. r = 13 <=> q = 12 /\ r # 0
        BY <1>3, LedBy
    <3> HIDE DEF q, r
    <3> QED BY <2>2, <2>3, <2>4, <2>5, <3>1 DEF Found
  <2>10. ASSUME NEW z, z = r, pc' = "structure"
         PROVE  z \in 1..12 /\ open' = OpenOf(z) /\ LastOf(z)' /\ Checked(check', z)
    <3>1. r # 0 /\ q # 12
        BY <2>5, <2>10
    <3>2. /\ r \in 2..13
          /\ r = 2 => e = "stream+"
          /\ r = 3 <=> e = "doc+"
          /\ e = "doc+" <=> q = 2
          /\ r \in 4..11 => e \notin {"stream+", "doc+", "doc-"}
          /\ r = 12 => e = "doc-"
          /\ r = 2 <=> q = 1
          /\ r = 13 <=> q = 12
        BY <1>3, <3>1, LedBy
    <3>3. open' = OpenOf(r)
        BY <1>3, <1>5, <3>1, OpenFollows
    <3>4. Checked(check', r)
      <4>1. Checked(c, r)
          BY <2>2, <3>1
      <4> HIDE DEF r
      <4> QED BY <4>1, <2>4 DEF Checked
    <3>5. Count("doc+")' = IF r \in {1, 2} THEN 0 ELSE 1
      <4>1. /\ Count("doc+") = IF q \in {1, 2} THEN 0 ELSE 1
          BY <1>3 DEF LastOf
      <4>2. /\ e # "doc+" => Count("doc+")' = Count("doc+")
            /\ e = "doc+" => Count("doc+")' = Count("doc+") + 1
          BY <1>3, <1>5, <2>1, OneMore DEF Count
      <4> HIDE DEF q, r
      <4>3. r # 1
          BY <3>2
      <4> QED BY <4>1, <4>2, <4>3, <3>2
    <3>6. LastOf(z)'
      <4> HIDE DEF r, q
      <4>1. /\ z = 1 <=> file' = <<>>
            /\ z = 2 => Last(file') = "stream+"
            /\ z = 3 => Last(file') = "doc+"
            /\ z \in 4..11 => Last(file') \notin {"stream+", "doc+", "doc-"}
            /\ z = 12 => Last(file') = "doc-"
          BY <2>3, <2>10, <3>2
      <4>2. Count("doc+")' = IF z \in {1, 2} THEN 0 ELSE 1
          BY <3>5, <2>10
      <4> QED BY <4>1, <4>2 DEF LastOf
    <3>7. r \in 1..12
      <4> HIDE DEF r, q
      <4> QED BY <3>1, <3>2
    <3> HIDE DEF r, q
    <3> QED BY <2>10, <3>3, <3>4, <3>6, <3>7
  <2>11. InStructure'
    <3> SUFFICES ASSUME pc' = "structure"
                 PROVE  /\ Shape(file') \in 1..12
                        /\ open' = OpenOf(Shape(file'))
                        /\ LastOf(Shape(file))' /\ Checked(check', Shape(file'))
        BY DEF InStructure
    <3>1. PICK z : z = r
        OBVIOUS
    <3>2. z \in 1..12 /\ open' = OpenOf(z) /\ LastOf(z)' /\ Checked(check', z)
        BY <2>10, <3>1
    <3>3. Shape(file') = z
        BY <2>3, <3>1
    <3>4. LastOf(Shape(file))'
        BY <3>2, <3>3 DEF LastOf
    <3> QED BY <3>2, <3>3, <3>4
  <2> QED BY <2>5, <2>7, <2>8, <2>9, <2>11
          DEF IInv, InParse, InCore, InHandle, Parsed, AcceptedIsSound
<1> QED BY <1>4, <1>5 DEF conf_validate_structure

(* Where the automaton is, and the events on the way.                      *)
LEMMA HereNext ==
    ASSUME NEW f \in Seq(Events), Shape(f) = 13,
           NEW i \in Nat, i <= Len(f), At(f, i) # 13, NEW y, y = i + 1
    PROVE  /\ i < Len(f) /\ y \in 1..Len(f) /\ y \in 0..Len(f) /\ f[y] \in Events
           /\ At(f, i) \in 1..12
           /\ At(f, y) = Goes(At(f, i), f[y]) /\ At(f, y) # 0
<1>1. /\ Len(f) \in Nat /\ At(f, Len(f)) = 13
      /\ i < Len(f) => f[y] \in Events /\ At(f, y) = Goes(At(f, i), f[y])
    BY AtNext
<1>2. i < Len(f)
    BY <1>1
<1>3. i \in 0..Len(f) /\ y \in 0..Len(f) /\ y \in 1..Len(f)
    BY <1>1, <1>2
<1>4. At(f, i) \in 1..12 /\ At(f, y) \in 1..13
    BY <1>2, <1>3, InShape
<1> QED BY <1>1, <1>2, <1>3, <1>4

(* A file of the shape starts with the start of the root mapping.          *)
LEMMA Starts ==
    ASSUME NEW f \in Seq(Events), Shape(f) = 13
    PROVE  /\ 3 \in 1..Len(f) /\ f[1] = "stream+" /\ f[2] = "doc+" /\ f[3] = "map+"
           /\ At(f, 3) = 4
           /\ SelectInSeq(f, LAMBDA e : e \notin {"stream+", "doc+"}) = 3
<1>1. /\ 0 < Len(f) /\ At(f, 1) = Goes(1, f[1]) /\ At(f, 1) # 0 /\ Len(f) \in Nat
  <2>1. At(f, 0) = 1 /\ 0 \in Nat /\ 0 <= Len(f) /\ 1 = 0 + 1 /\ Len(f) \in Nat
      BY AtNext
  <2> QED BY <2>1, HereNext
<1>2. f[1] = "stream+" /\ At(f, 1) = 2
    BY <1>1, StepIs
<1>3. 1 < Len(f) /\ At(f, 2) = Goes(2, f[2]) /\ At(f, 2) # 0
  <2>1. 1 \in Nat /\ 1 <= Len(f) /\ 2 = 1 + 1 /\ At(f, 1) # 13
      BY <1>1, <1>2
  <2> QED BY <2>1, <1>2, HereNext
<1>4. f[2] = "doc+" /\ At(f, 2) = 3
    BY <1>3, StepIs
<1>5. 2 < Len(f) /\ At(f, 3) = Goes(3, f[3]) /\ At(f, 3) # 0
  <2>1. 2 \in Nat /\ 2 <= Len(f) /\ 3 = 2 + 1 /\ At(f, 2) # 13
      BY <1>1, <1>3, <1>4
  <2> QED BY <2>1, <1>4, HereNext
<1>6. f[3] = "map+" /\ At(f, 3) = 4
    BY <1>5, StepIs
<1> DEFINE I == {i \in 1..Len(f) : f[i] \notin {"stream+", "doc+"}}
<1>7. 3 \in I /\ 1 \notin I /\ 2 \notin I /\ \A i \in I : i >= 3
    BY <1>1, <1>2, <1>4, <1>5, <1>6
<1>8. SelectInSeq(f, LAMBDA e : e \notin {"stream+", "doc+"}) = Min(I)
    BY <1>7 DEF SelectInSeq
<1>9. Min(I) = 3
  <2> HIDE DEF I
  <2>1. \A x \in I : x \in Int
      BY DEF I
  <2> QED BY <1>7, <2>1 DEF Min
<1> QED BY <1>1, <1>2, <1>4, <1>5, <1>6, <1>8, <1>9

(* conf_begin_parse,                                                       *)
LEMMA InvBegin ==
    ASSUME IInv, conf_begin_parse PROVE IInv'
<1>1. Types /\ Unparsed /\ Found
    BY DEF IInv
<1>2. /\ pc = "begin" /\ UNCHANGED <<docs, plain, file, check, path, arg, pool, data, leaf>>
    BY DEF conf_begin_parse, Validated
<1>3. /\ file \in Seq(Events) /\ Shape(file) = 13 /\ cf \in CfRec /\ cf.depth = 0 /\ ~cf.seq
      /\ ~cf.valid_parser /\ ~check.error /\ path = <<>> /\ arg = <<>> /\ data = Null
      /\ pool.elem = <<>>
    BY <1>1, <1>2 DEF Types, Unparsed, Found
<1>4. ASSUME Faulty, Fail, UNCHANGED <<pos, open, cf>> PROVE IInv'
  <2>1. Types' /\ pc' = "destroy"
      BY <1>1, <1>2, <1>4, FaultsBounded DEF Types, Fail
  <2> QED BY <2>1, <1>2, <1>3
          DEF IInv, Unparsed, InStructure, Found, InParse, InCore, InHandle, Parsed, AcceptedIsSound
<1>5. ASSUME Faultless, pos' = 3, open' = <<"key">>,
             cf' = [conf_yaml_init(cf) EXCEPT !.depth = @ + 1],
             pc' = IF cf.valid_parser \/ file[3] # "map+" THEN "abort" ELSE "core"
      PROVE  IInv'
  <2>1. pc' = "core" /\ At(file, 3) = 4 /\ 3 \in 1..Len(file)
      BY <1>3, <1>5, Starts
  <2>2. cf' \in CfRec /\ cf'.depth = 1 /\ ~cf'.seq
    <3> DEFINE a == conf_yaml_init(cf)
    <3>1. a \in CfRec /\ a.depth = 0 /\ ~a.seq
        BY <1>3, CfKept
    <3>2. cf' = [a EXCEPT !.depth = 0 + 1]
        BY <1>5, <3>1
    <3> HIDE DEF a
    <3> QED BY <3>1, <3>2 DEF CfRec, CONF_MAX_DEPTH, CONF_ROOT_DEPTH
  <2>3. Types'
      BY <1>1, <1>2, <1>5, <2>1, <2>2, FaultsBounded DEF Types
  <2>4. Here' = 4
      BY <1>2, <1>5, <2>1 DEF Here
  <2>5. InParse'
      BY <1>2, <1>3, <1>5, <2>2, <2>4 DEF InParse, OpenOf, DepthOf
  <2>6. InCore'
      BY <1>2, <1>3, <2>1, <2>4 DEF InCore, ArgsOf
  <2>7. Found' /\ Parsed'
      BY <1>2, <1>3, <2>1 DEF Found, Parsed, ServersValid
  <2> QED BY <2>1, <2>3, <2>5, <2>6, <2>7 DEF IInv, Unparsed, InStructure, InHandle, AcceptedIsSound
<1>6. SelectInSeq(file, LAMBDA e : e \notin {"stream+", "doc+"}) = 3
    BY <1>3, Starts
<1> QED BY <1>4, <1>5, <1>6 DEF conf_begin_parse

(* The first scalars of a path.                                            *)
LEMMA Firsts ==
    ASSUME NEW s \in Seq(Nat), NEW n \in Nat, NEW m \in Nat, n <= m, m <= Len(s)
    PROVE  /\ SubSeq(s, 1, n) \in Seq(Nat) /\ Len(SubSeq(s, 1, n)) = n
           /\ SubSeq(SubSeq(s, 1, m), 1, n) = SubSeq(s, 1, n)
           /\ SubSeq(s, 1, 0) = <<>>
           /\ n > 0 => SubSeq(s, 1, n)[1] = s[1]
           /\ SubSeq(s, 1, Len(s)) = s
<1>1. Len(s) \in Nat /\ SubSeq(s, 1, 0) = <<>> /\ SubSeq(s, 1, Len(s)) = s
    OBVIOUS
<1>2. /\ SubSeq(s, 1, n) \in Seq(Nat) /\ Len(SubSeq(s, 1, n)) = n
      /\ \A i \in 1..n : SubSeq(s, 1, n)[i] = s[i]
    BY <1>1
<1>3. /\ SubSeq(s, 1, m) \in Seq(Nat) /\ Len(SubSeq(s, 1, m)) = m
      /\ \A i \in 1..m : SubSeq(s, 1, m)[i] = s[i]
    BY <1>1
<1> DEFINE p == SubSeq(s, 1, m)
           r == SubSeq(p, 1, n)
<1>4. r \in Seq(Nat) /\ Len(r) = n /\ \A i \in 1..n : r[i] = s[i]
  <2> HIDE DEF p
  <2>1. r \in Seq(Nat) /\ Len(r) = n /\ \A i \in 1..n : r[i] = p[i]
      BY <1>3 DEF p
  <2> HIDE DEF r
  <2>2. \A i \in 1..n : i \in 1..m
      OBVIOUS
  <2> QED BY <2>1, <2>2, <1>3 DEF p
<1> DEFINE t == SubSeq(s, 1, n)
<1> HIDE DEF t, r
<1>5. r = t
    BY <1>2, <1>4, SeqEqual DEF t
<1>6. n > 0 => t[1] = s[1]
  <2>1. n > 0 => 1 \in 1..n
      OBVIOUS
  <2> QED BY <1>2, <2>1 DEF t
<1> QED BY <1>1, <1>2, <1>5, <1>6 DEF t, r, p

(* The events that lead on from within the root mapping.                   *)
LEMMA CoreGoes ==
    ASSUME NEW q \in 4..10, NEW e, NEW r, r = Goes(q, e), r # 0
    PROVE  /\ e \in {"map+", "seq+", "map-", "seq-", "scalar"}
           /\ e = "map+" => q = 5 /\ r = 6
           /\ e = "seq+" => q = 7 /\ r = 8
           /\ e = "map-" => (q = 4 /\ r = 11) \/ (q = 9 /\ r = 4)
           /\ e = "seq-" => q = 8 /\ r = 9
           /\ e = "scalar" => \/ q = 4 /\ r = 5
                              \/ q = 6 /\ r = 7
                              \/ q = 7 /\ r = 6
                              \/ q = 8 /\ r = 8
                              \/ q = 9 /\ r = 10
                              \/ q = 10 /\ r = 9
<1>1. q \in {4, 5, 6, 7, 8, 9, 10}
    OBVIOUS
<1> QED BY <1>1, StepIs

(* What every event of conf_parse_core finds and does.                     *)
LEMMA EventStep ==
    ASSUME IInv, pc = "core", NEW e, file[pos + 1] = e, pos' = pos + 1, UNCHANGED file
    PROVE  /\ pos' \in 0..Len(file)
           /\ Here \in 4..10 /\ Here' = Goes(Here, e) /\ Goes(Here, e) # 0
           /\ open = OpenOf(Here) /\ Opened(open, e) = OpenOf(Goes(Here, e))
           /\ file \in Seq(Events) /\ Shape(file) = 13 /\ ~check.error
<1>1. /\ file \in Seq(Events) /\ Shape(file) = 13 /\ ~check.error
      /\ Here \in 4..10 /\ open = OpenOf(Here) /\ pos \in Nat /\ pos <= Len(file)
    BY DEF IInv, Types, Found, InParse
<1> DEFINE y == pos + 1
<1>2. /\ y \in 0..Len(file) /\ At(file, y) = Goes(At(file, pos), file[y]) /\ At(file, y) # 0
  <2>1. At(file, pos) # 13
      BY <1>1 DEF Here
  <2> QED BY <1>1, <2>1, HereNext
<1>3. Here' = At(file, y)
    BY DEF Here
<1>4. Here \in 1..12
    BY <1>1
<1>5. Goes(Here, e) # 0
    BY <1>2 DEF Here
<1>6. Opened(OpenOf(Here), e) = OpenOf(Goes(Here, e))
    BY <1>4, <1>5, OpenFollows
<1> QED BY <1>1, <1>2, <1>3, <1>5, <1>6 DEF Here

(* Leaving conf_parse for conf_destroy keeps the invariant.                *)
LEMMA NotCore ==
    ASSUME Types', pc' = "destroy", UNCHANGED <<file, check>>, ~check.error
    PROVE  IInv'
    BY DEF IInv, Unparsed, InStructure, Found, InParse, InCore, InHandle, Parsed, AcceptedIsSound

(* a read that fails in conf_parse_core,                                   *)
LEMMA InvCannotRead ==
    ASSUME IInv, CannotRead PROVE IInv'
<1>1. Types /\ Found
    BY DEF IInv
<1>2. /\ pc = "core" /\ pc' = "destroy" /\ Faulty
      /\ UNCHANGED <<docs, plain, file, check, pos, open, path, cf, arg, pool, data, leaf>>
    BY DEF CannotRead, Fail, Validated
<1>3. Types'
    BY <1>1, <1>2, FaultsBounded DEF Types
<1> QED BY <1>1, <1>2, <1>3, NotCore DEF Found

(* an event that opens a collection,                                       *)
LEMMA InvStartEvent ==
    ASSUME IInv, StartEvent PROVE IInv'
<1>1. Types /\ Found /\ InParse /\ InCore /\ Parsed
    BY DEF IInv
<1>2. PICK e \in {"map+", "seq+"} \cup NotReached :
        /\ pc = "core" /\ file[pos + 1] = e /\ pos' = pos + 1 /\ open' = Opened(open, e)
        /\ Faultless
        /\ cf' = CASE e = "map+" -> [cf EXCEPT !.depth = @ + 1]
                   [] e = "seq+" -> [cf EXCEPT !.seq = TRUE]
                   [] OTHER -> cf
        /\ pc' = IF e \in NotReached THEN "abort" ELSE pc
        /\ UNCHANGED <<docs, plain, file, check, path, arg, pool, data, leaf>>
    BY DEF StartEvent, Event, Validated
<1>3. PICK q : q = Here
    OBVIOUS
<1>4. PICK r : r = Goes(q, e)
    OBVIOUS
<1>5. /\ pos' \in 0..Len(file) /\ q \in 4..10 /\ Here' = r /\ r # 0
      /\ open' = OpenOf(r) /\ file \in Seq(Events) /\ Shape(file) = 13 /\ ~check.error
    BY <1>2, <1>3, <1>4, EventStep
<1>6. (e = "map+" /\ q = 5 /\ r = 6) \/ (e = "seq+" /\ q = 7 /\ r = 8)
    BY <1>2, <1>4, <1>5, CoreGoes DEF NotReached
<1>7. pc' = "core"
    BY <1>2, <1>6 DEF NotReached
<1>8. cf' \in CfRec /\ cf'.depth = DepthOf(r) /\ (cf'.seq <=> r = 8)
  <2>1. cf \in CfRec /\ cf.depth = DepthOf(q) /\ (cf.seq <=> q = 8)
      BY <1>1, <1>2, <1>3 DEF Types, InParse
  <2>2. CASE e = "map+"
    <3>1. cf.depth = 1 /\ cf' = [cf EXCEPT !.depth = 1 + 1] /\ DepthOf(r) = 2
        BY <1>2, <1>6, <2>1, <2>2 DEF DepthOf
    <3> QED BY <1>6, <2>1, <2>2, <3>1 DEF CfRec, CONF_MAX_DEPTH, CONF_ROOT_DEPTH
  <2>3. CASE e = "seq+"
    <3>1. cf' = [cf EXCEPT !.seq = TRUE] /\ DepthOf(r) = DepthOf(q)
        BY <1>2, <1>6, <2>3 DEF DepthOf
    <3> QED BY <1>6, <2>1, <2>3, <3>1 DEF CfRec
  <2> QED BY <1>6, <2>2, <2>3
<1>9. Types'
    BY <1>1, <1>2, <1>5, <1>7, <1>8, FaultsBounded DEF Types
<1>10. InParse'
  <2>1. /\ data # Null => data = [gen |-> pool.gen, idx |-> Len(pool.elem)]
        /\ data # Null /\ Len(pool.elem) > 0
        /\ path # <<>> /\ pool.elem[data.idx].name = path[1]
      BY <1>1, <1>2, <1>3, <1>6 DEF InParse
  <2> QED BY <1>2, <1>5, <1>6, <1>8, <2>1 DEF InParse
<1>11. InCore'
  <2>1. Len(path) >= ArgsOf(q) /\ arg = SubSeq(path, 1, ArgsOf(q)) /\ ArgsOf(r) = ArgsOf(q)
      BY <1>1, <1>2, <1>3, <1>6 DEF InCore, ArgsOf
  <2> QED BY <1>2, <1>5, <2>1 DEF InCore
<1>12. Found' /\ Parsed'
    BY <1>1, <1>2, <1>5, <1>7 DEF Found, Parsed, ServersValid
<1> QED BY <1>7, <1>9, <1>10, <1>11, <1>12
        DEF IInv, Unparsed, InStructure, InHandle, AcceptedIsSound

(* one that closes a mapping,                                              *)
LEMMA InvMappingEnd ==
    ASSUME IInv, MappingEnd PROVE IInv'
<1>1. Types /\ Found /\ InParse /\ InCore /\ Parsed
    BY DEF IInv
<1>2. /\ pc = "core" /\ file[pos + 1] = "map-" /\ pos' = pos + 1
      /\ open' = Opened(open, "map-")
      /\ Faultless
      /\ cf' = [cf EXCEPT !.depth = @ - 1]
      /\ CASE cf'.depth = 0 -> pc' = "end" /\ UNCHANGED arg
           [] cf'.depth = 1 -> IF CanPop(1) THEN arg' = Popped(1) /\ UNCHANGED pc
                               ELSE Abort /\ UNCHANGED arg
           [] OTHER -> UNCHANGED <<pc, arg>>
      /\ UNCHANGED <<docs, plain, file, check, path, pool, data, leaf>>
    BY DEF MappingEnd, Event, Validated
<1>3. PICK q : q = Here
    OBVIOUS
<1>4. PICK r : r = Goes(q, "map-")
    OBVIOUS
<1>5. /\ pos' \in 0..Len(file) /\ q \in 4..10 /\ Here' = r /\ r # 0
      /\ open' = OpenOf(r) /\ file \in Seq(Events) /\ Shape(file) = 13 /\ ~check.error
    BY <1>2, <1>3, <1>4, EventStep
<1>6. (q = 4 /\ r = 11) \/ (q = 9 /\ r = 4)
    BY <1>4, <1>5, CoreGoes
<1>7. /\ cf \in CfRec /\ cf.depth = DepthOf(q) /\ (cf.seq <=> q = 8)
      /\ path \in Seq(Nat) /\ Len(path) >= ArgsOf(q) /\ arg = SubSeq(path, 1, ArgsOf(q))
      /\ ArgsOf(4) = 0 /\ ArgsOf(9) = 1 /\ DepthOf(4) = 1 /\ DepthOf(9) = 2
    BY <1>1, <1>2, <1>3 DEF Types, InParse, InCore, ArgsOf, DepthOf
<1>8. /\ cf' \in CfRec /\ cf'.depth = cf.depth - 1 /\ ~cf'.seq
    BY <1>2, <1>6, <1>7 DEF CfRec, CONF_MAX_DEPTH, CONF_ROOT_DEPTH
<1>9. SubSeq(path, 1, 0) = <<>> /\ (q = 9 => Len(arg) = 1 /\ SubSeq(arg, 1, 0) = <<>>)
  <2>1. Len(path) \in Nat
      BY <1>7
  <2>2. ASSUME q = 9 PROVE Len(arg) = 1 /\ SubSeq(arg, 1, 0) = <<>>
    <3> DEFINE m == 1
    <3>1. m \in Nat /\ m <= m /\ m <= Len(path) /\ arg = SubSeq(path, 1, m)
        BY <1>7, <2>2
    <3> HIDE DEF m
    <3>2. Len(SubSeq(path, 1, m)) = m /\ SubSeq(path, 1, m) \in Seq(Nat)
        BY <1>7, <3>1, Firsts
    <3>3. SubSeq(arg, 1, 0) = <<>>
        BY <3>1, <3>2
    <3> QED BY <3>1, <3>2, <3>3 DEF m
  <2> QED BY <1>7, <2>2
<1>10. /\ q = 4 => pc' = "end" /\ arg' = <<>>
       /\ q = 9 => pc' = "core" /\ arg' = <<>>
  <2>1. CASE q = 4
    <3>1. cf'.depth = 0
        BY <1>7, <1>8, <2>1
    <3> QED BY <1>2, <1>7, <1>9, <2>1, <3>1
  <2>2. CASE q = 9
    <3>1. cf'.depth = 1
        BY <1>7, <1>8, <2>2
    <3>2. Len(arg) = 1 /\ SubSeq(arg, 1, 0) = <<>>
        BY <1>9, <2>2
    <3>4. Len(arg) - 1 = 0 /\ Len(arg) >= 1
        BY <3>2
    <3>3. CanPop(1) /\ Popped(1) = <<>>
        BY <3>2, <3>4 DEF CanPop, Popped
    <3> QED BY <1>2, <2>2, <3>1, <3>3
  <2> QED BY <1>6, <2>1, <2>2
<1>11. Types'
  <2>0. <<>> \in Seq(Nat) /\ Len(<<>>) = 0
      OBVIOUS
  <2>2. arg' = <<>> /\ pc' \in {"core", "end"}
      BY <1>6, <1>10
  <2>1. arg' \in Seq(Nat) /\ Len(arg') <= 3 /\ pc' \in {"core", "end"}
      BY <2>0, <2>2
  <2> QED BY <1>1, <1>2, <1>5, <1>8, <2>1, FaultsBounded DEF Types
<1>12. InParse' /\ InCore'
  <2>1. data # Null => data = [gen |-> pool.gen, idx |-> Len(pool.elem)]
      BY <1>1, <1>2 DEF InParse
  <2>2. Len(path) >= 0
      BY <1>7
  <2>3. CASE q = 4
      BY <1>10, <2>3 DEF InParse, InCore
  <2>4. CASE q = 9
    <3>1. Here' = 4 /\ open' = OpenOf(4) /\ cf'.depth = DepthOf(4) /\ ~cf'.seq
        BY <1>5, <1>6, <1>7, <1>8, <2>4
    <3>2. InParse'
        BY <1>2, <3>1, <2>1 DEF InParse
    <3>3. InCore'
        BY <1>2, <1>7, <1>9, <1>10, <2>2, <2>4, <3>1 DEF InCore
    <3> QED BY <3>2, <3>3
  <2> QED BY <1>6, <2>3, <2>4
<1>13. Found' /\ Parsed'
    BY <1>1, <1>2, <1>5, <1>6, <1>10 DEF Found, Parsed, ServersValid, OpenOf
<1> QED BY <1>6, <1>10, <1>11, <1>12, <1>13
        DEF IInv, Unparsed, InStructure, InHandle, AcceptedIsSound

(* one that closes a sequence,                                             *)
LEMMA InvSequenceEnd ==
    ASSUME IInv, SequenceEnd PROVE IInv'
<1>1. Types /\ Found /\ InParse /\ InCore /\ Parsed
    BY DEF IInv
<1>2. /\ pc = "core" /\ file[pos + 1] = "seq-" /\ pos' = pos + 1
      /\ open' = Opened(open, "seq-")
      /\ Faultless
      /\ cf' = [cf EXCEPT !.seq = FALSE]
      /\ IF CanPop(1) THEN arg' = Popped(1) /\ UNCHANGED pc
         ELSE Abort /\ UNCHANGED arg
      /\ UNCHANGED <<docs, plain, file, check, path, pool, data, leaf>>
    BY DEF SequenceEnd, Event, Validated
<1>3. PICK q : q = Here
    OBVIOUS
<1>4. PICK r : r = Goes(q, "seq-")
    OBVIOUS
<1>5. /\ pos' \in 0..Len(file) /\ q \in 4..10 /\ Here' = r /\ r # 0
      /\ open' = OpenOf(r) /\ file \in Seq(Events) /\ Shape(file) = 13 /\ ~check.error
    BY <1>2, <1>3, <1>4, EventStep
<1>6. q = 8 /\ r = 9
    BY <1>4, <1>5, CoreGoes
<1>7. /\ cf \in CfRec /\ cf.depth = 2
      /\ path \in Seq(Nat) /\ Len(path) >= 2 /\ arg = SubSeq(path, 1, 2)
    BY <1>1, <1>2, <1>3, <1>6 DEF Types, InParse, InCore, ArgsOf, DepthOf
<1>8. cf' \in CfRec /\ cf'.depth = 2 /\ ~cf'.seq
    BY <1>2, <1>7 DEF CfRec
<1>9. /\ Len(arg) = 2 /\ SubSeq(arg, 1, 1) = SubSeq(path, 1, 1)
      /\ SubSeq(path, 1, 1) \in Seq(Nat) /\ Len(SubSeq(path, 1, 1)) = 1
  <2> DEFINE n == 1
             m == 2
  <2>1. n \in Nat /\ m \in Nat /\ n <= m /\ m <= m /\ m <= Len(path) /\ arg = SubSeq(path, 1, m)
      BY <1>7
  <2> HIDE DEF n, m
  <2>2. /\ Len(SubSeq(path, 1, m)) = m /\ SubSeq(arg, 1, n) = SubSeq(path, 1, n)
        /\ SubSeq(path, 1, n) \in Seq(Nat) /\ Len(SubSeq(path, 1, n)) = n
      BY <2>1, <1>7, Firsts
  <2> QED BY <2>1, <2>2 DEF n, m
<1>10. pc' = "core" /\ arg' = SubSeq(path, 1, 1)
    BY <1>2, <1>9 DEF CanPop, Popped
<1>11. Types'
    BY <1>1, <1>2, <1>5, <1>8, <1>9, <1>10, FaultsBounded DEF Types
<1>12. InParse' /\ InCore'
  <2>1. /\ data # Null => data = [gen |-> pool.gen, idx |-> Len(pool.elem)]
        /\ data # Null /\ Len(pool.elem) > 0
        /\ path # <<>> /\ pool.elem[data.idx].name = path[1]
      BY <1>1, <1>2, <1>3, <1>6 DEF InParse
  <2>2. Len(path) >= 1 /\ DepthOf(9) = 2 /\ ArgsOf(9) = 1
      BY <1>7 DEF DepthOf, ArgsOf
  <2> QED BY <1>2, <1>5, <1>6, <1>8, <1>10, <2>1, <2>2 DEF InParse, InCore
<1>13. Found' /\ Parsed'
    BY <1>1, <1>2, <1>5, <1>10 DEF Found, Parsed, ServersValid
<1> QED BY <1>10, <1>11, <1>12, <1>13
        DEF IInv, Unparsed, InStructure, InHandle, AcceptedIsSound

(* The texts of a scalar, by where it is.                                  *)
LEMMA Texts ==
    ASSUME NEW q \in {4, 6, 7, 8, 9, 10}, open = OpenOf(q), NEW t \in ScalarTexts, path \in Seq(Nat)
    PROVE  /\ t \in Nat
           /\ q \in {4, 7, 8, 10} /\ t # Empty => t \in Text
           /\ Led(t) = SubSeq(path, 1, ArgsOf(q)) \o <<t>>
<1>1. /\ OpenOf(4) = <<"key">> /\ OpenOf(6) = <<"value", "key">>
      /\ OpenOf(7) = <<"value", "value">> /\ OpenOf(8) = <<"value", "value", "item">>
      /\ OpenOf(9) = <<"value", "key">> /\ OpenOf(10) = <<"value", "value">>
      /\ ArgsOf(4) = 0 /\ ArgsOf(6) = 1 /\ ArgsOf(7) = 2 /\ ArgsOf(8) = 2 /\ ArgsOf(9) = 1
      /\ ArgsOf(10) = 2
    BY DEF OpenOf, ArgsOf
<1>0. /\ Len(<<"key">>) = 1 /\ Last(<<"key">>) = "key" /\ 1 - 1 = 0 /\ 2 - 1 = 1 /\ 3 - 1 = 2
      /\ Len(<<"value", "key">>) = 2 /\ Last(<<"value", "key">>) = "key"
      /\ Len(<<"value", "value">>) = 2 /\ Last(<<"value", "value">>) = "value"
      /\ Len(<<"value", "value", "item">>) = 3 /\ Last(<<"value", "value", "item">>) = "item"
    BY DEF Last
<1>2. conf_commands \subseteq Nat /\ {Listen, Servers, Unknown, Empty} \subseteq Nat
    BY DEF conf_commands, Listen, Servers, Connections, Unknown, Empty
<1>3. CASE q = 4
  <2>1. open = <<"key">> /\ Len(open) = 1 /\ Last(open) = "key" /\ Len(open) - 1 = 0
      BY <1>0, <1>1, <1>3
  <2>2. open # <<"value", "key">>
      BY <2>1
  <2>3. ScalarTexts = {Empty} \cup (Text \ {Bad, NoHost})
      BY <2>1, <2>2 DEF ScalarTexts
  <2>4. Led(t) = SubSeq(path, 1, 0) \o <<t>>
      BY <2>1 DEF Led
  <2> QED BY <1>1, <1>2, <1>3, <2>3, <2>4, TextIs
<1>4. CASE q \in {6, 9}
  <2>1. open = <<"value", "key">> /\ Len(open) = 2 /\ Last(open) = "key" /\ Len(open) - 1 = 1
      BY <1>0, <1>1, <1>4
  <2>2. t \in {Empty, Listen, Servers, Unknown} \cup conf_commands
      BY <2>1 DEF ScalarTexts
  <2>3. Led(t) = SubSeq(path, 1, 1) \o <<t>>
      BY <2>1 DEF Led
  <2>4. t \in Nat
      BY <2>2 DEF conf_commands, Listen, Servers, Connections, Unknown, Empty
  <2>5. ArgsOf(q) = 1 /\ q \notin {4, 7, 8, 10}
      BY <1>1, <1>4
  <2> QED BY <2>3, <2>4, <2>5
<1>5. CASE q \in {7, 10}
  <2>1. open = <<"value", "value">> /\ Len(open) = 2 /\ Last(open) = "value"
      BY <1>0, <1>1, <1>5
  <2>2. open # <<"value", "key">>
    <3>1. open[2] = "value"
        BY <2>1
    <3> QED BY <3>1
  <2>3. t \in {Empty} \cup Text
      BY <2>1, <2>2 DEF ScalarTexts
  <2>4. Led(t) = SubSeq(path, 1, 2) \o <<t>>
      BY <2>1 DEF Led
  <2> QED BY <1>1, <1>2, <1>5, <2>3, <2>4, TextIs
<1>6. CASE q = 8
  <2>1. open = <<"value", "value", "item">> /\ Len(open) = 3 /\ Last(open) = "item" /\ Len(open) - 1 = 2
      BY <1>0, <1>1, <1>6
  <2>2. open # <<"value", "key">>
    <3>1. open[2] = "value"
        BY <2>1
    <3> QED BY <3>1
  <2>3. t \in {Empty} \cup Text
      BY <2>1, <2>2 DEF ScalarTexts
  <2>4. Led(t) = SubSeq(path, 1, 2) \o <<t>>
      BY <2>1 DEF Led
  <2> QED BY <1>1, <1>2, <1>6, <2>3, <2>4, TextIs
<1> QED BY <1>3, <1>4, <1>5, <1>6

(* Pushing a scalar on cf->arg.                                            *)
LEMMA OnceMore ==
    ASSUME NEW s \in Seq(Nat), NEW t \in Nat
    PROVE  /\ s \o <<t>> = Append(s, t) /\ Append(s, t) \in Seq(Nat)
           /\ Len(s) \in Nat /\ Len(Append(s, t)) = Len(s) + 1
           /\ Append(s, t) # <<>>
           /\ Append(s, t)[Len(s) + 1] = t
           /\ Len(s) > 0 => Append(s, t)[1] = s[1]
<1>1. s \o <<t>> = Append(s, t)
    OBVIOUS
<1> QED BY <1>1

(* A pool is pushed.                                                       *)
LEMMA Pushes ==
    ASSUME Types
    PROVE  /\ PoolPushed \in PoolsRec /\ Len(PoolPushed.elem) <= PoolPushed.nalloc
           /\ Len(PoolPushed.elem) > 0
           /\ NewData # Null /\ NewData \in [gen : Nat, idx : Nat]
           /\ NewData = [gen |-> PoolPushed.gen, idx |-> Len(PoolPushed.elem)]
           /\ ServersValid => \A i \in 1..Len(PoolPushed.elem) : AllValid(PoolPushed.elem[i])
<1> DEFINE t == Append(pool.elem, PoolNull)
           n == Len(pool.elem)
           a == pool.nalloc
           full == n = a
           g == IF full THEN pool.gen + 1 ELSE pool.gen
           m == IF full THEN 2 * a ELSE a
<1>1. /\ pool.elem \in Seq(PoolRec) /\ pool.gen \in Nat \ {0} /\ a \in Nat \ {0}
      /\ n \in Nat /\ n <= a
    BY DEF Types, PoolsRec
<1>2. PoolNull \in PoolRec /\ PoolNull.server = <<>>
    BY DEF PoolNull, PoolRec, Opt
<1>3. t \in Seq(PoolRec) /\ Len(t) = n + 1 /\ (\A i \in 1..n : t[i] = pool.elem[i]) /\ t[n + 1] = PoolNull
    BY <1>1, <1>2
<1>4. g \in Nat \ {0} /\ m \in Nat \ {0} /\ n + 1 <= m
    BY <1>1
<1>5. PoolPushed = [gen |-> g, nalloc |-> m, elem |-> t]
    BY DEF PoolPushed
<1> HIDE DEF t, g, m
<1>6. /\ PoolPushed \in PoolsRec /\ Len(PoolPushed.elem) <= PoolPushed.nalloc
      /\ Len(PoolPushed.elem) > 0 /\ PoolPushed.gen \in Nat \ {0} /\ PoolPushed.elem = t
    BY <1>1, <1>3, <1>4, <1>5 DEF PoolsRec
<1>7. /\ NewData # Null /\ NewData \in [gen : Nat, idx : Nat]
  <2>1. Len(PoolPushed.elem) \in Nat
      BY <1>1, <1>3, <1>6
  <2> QED BY <1>6, <2>1 DEF NewData, Null
<1>8. ASSUME ServersValid PROVE \A i \in 1..Len(PoolPushed.elem) : AllValid(PoolPushed.elem[i])
  <2>1. \A i \in 1..n : AllValid(t[i])
      BY <1>3, <1>8 DEF ServersValid, AllValid
  <2>2. AllValid(t[n + 1])
      BY <1>2, <1>3 DEF AllValid
  <2>3. \A i \in 1..Len(t) : i \in 1..n \/ i = n + 1
      BY <1>1, <1>3
  <2> QED BY <1>6, <2>1, <2>2, <2>3
<1> QED BY <1>6, <1>7, <1>8 DEF NewData

(* What a scalar finds, in both cases.                                     *)
LEMMA ScalarStep ==
    ASSUME IInv, pc = "core", file[pos + 1] = "scalar", pos' = pos + 1, UNCHANGED file,
           NEW t \in ScalarTexts
    PROVE  \E q, r : /\ q = Here /\ Here' = r
                     /\ \/ q = 4 /\ r = 5
                        \/ q = 6 /\ r = 7
                        \/ q = 7 /\ r = 6
                        \/ q = 8 /\ r = 8
                        \/ q = 9 /\ r = 10
                        \/ q = 10 /\ r = 9
                     /\ pos' \in 0..Len(file) /\ Opened(open, "scalar") = OpenOf(r)
                     /\ Shape(file) = 13 /\ ~check.error
                     /\ t \in Nat /\ (q \in {4, 7, 8, 10} /\ t # Empty => t \in Text)
                     /\ arg \in Seq(Nat) /\ Len(arg) = ArgsOf(q)
                     /\ ArgsOf(q) > 0 => arg[1] = path[1]
                     /\ Led(t) = Append(arg, t)
                     /\ Append(arg, t) \in Seq(Nat) /\ Len(Append(arg, t)) = Len(arg) + 1
<1>1. PICK q : q = Here
    OBVIOUS
<1>2. PICK r : r = Goes(q, "scalar")
    OBVIOUS
<1>3. /\ pos' \in 0..Len(file) /\ q \in 4..10 /\ Here' = r /\ r # 0
      /\ open = OpenOf(q) /\ Opened(open, "scalar") = OpenOf(r) /\ Shape(file) = 13 /\ ~check.error
    BY <1>1, <1>2, EventStep
<1>4. \/ q = 4 /\ r = 5
      \/ q = 6 /\ r = 7
      \/ q = 7 /\ r = 6
      \/ q = 8 /\ r = 8
      \/ q = 9 /\ r = 10
      \/ q = 10 /\ r = 9
    BY <1>2, <1>3, CoreGoes
<1>5. path \in Seq(Nat) /\ Len(path) >= ArgsOf(q) /\ arg = SubSeq(path, 1, ArgsOf(q))
    BY <1>1 DEF IInv, Types, InCore
<1> DEFINE n == ArgsOf(q)
<1>6. n \in Nat /\ n <= n /\ n <= Len(path)
    BY <1>5 DEF ArgsOf
<1> HIDE DEF n
<1>7. /\ SubSeq(path, 1, n) \in Seq(Nat) /\ Len(SubSeq(path, 1, n)) = n
      /\ n > 0 => SubSeq(path, 1, n)[1] = path[1]
    BY <1>5, <1>6, Firsts
<1>8. arg \in Seq(Nat) /\ Len(arg) = ArgsOf(q) /\ (ArgsOf(q) > 0 => arg[1] = path[1])
    BY <1>5, <1>7 DEF n
<1>9. /\ t \in Nat /\ (q \in {4, 7, 8, 10} /\ t # Empty => t \in Text)
      /\ Led(t) = SubSeq(path, 1, ArgsOf(q)) \o <<t>>
  <2>1. q \in {4, 6, 7, 8, 9, 10}
      BY <1>4
  <2> QED BY <2>1, <1>3, <1>5, Texts
<1>10. /\ Led(t) = Append(arg, t)
       /\ Append(arg, t) \in Seq(Nat) /\ Len(Append(arg, t)) = Len(arg) + 1
    BY <1>5, <1>8, <1>9, OnceMore
<1> QED BY <1>1, <1>3, <1>4, <1>8, <1>9, <1>10

(* a scalar that cannot be pushed,                                         *)
LEMMA InvScalarNoMemory ==
    ASSUME IInv, ScalarNoMemory PROVE IInv'
<1>1. Types /\ Found /\ InParse
    BY DEF IInv
<1>2. PICK t \in ScalarTexts \ {Empty} :
        /\ pc = "core" /\ file[pos + 1] = "scalar" /\ Faulty /\ pc' = "destroy"
        /\ pos' = pos + 1 /\ open' = Opened(open, "scalar")
        /\ path' = Led(t)
        /\ \/ UNCHANGED arg
           \/ ~cf.seq /\ cf.depth = CONF_ROOT_DEPTH /\ arg' = Append(arg, t)
        /\ UNCHANGED <<docs, plain, file, check, cf, pool, data, leaf>>
    BY DEF ScalarNoMemory, Fail, Validated
<1>3. PICK q, r : /\ pos' \in 0..Len(file) /\ ~check.error
                  /\ arg \in Seq(Nat) /\ Len(arg) = ArgsOf(q)
                  /\ Led(t) = Append(arg, t)
                  /\ Append(arg, t) \in Seq(Nat) /\ Len(Append(arg, t)) = Len(arg) + 1
    BY <1>2, ScalarStep
<1>4. ArgsOf(q) \in {0, 1, 2}
    BY DEF ArgsOf
<1> DEFINE a == Append(arg, t)
<1>5. a \in Seq(Nat) /\ Len(a) <= 3 /\ Len(arg) <= 3
    BY <1>3, <1>4
<1>6. path' \in Seq(Nat) /\ arg' \in Seq(Nat) /\ Len(arg') <= 3
  <2>1. path' = a /\ (arg' = arg \/ arg' = a)
      BY <1>2, <1>3
  <2> HIDE DEF a
  <2> QED BY <1>3, <1>5, <2>1
<1>7. Types'
    BY <1>1, <1>2, <1>3, <1>6, FaultsBounded DEF Types
<1> QED BY <1>2, <1>3, <1>7, NotCore

(* a scalar that is,                                                       *)
LEMMA InvScalarEvent ==
    ASSUME IInv, ScalarEvent PROVE IInv'
<1>1. Types /\ Found /\ InParse /\ InCore /\ Parsed
    BY DEF IInv
<1>2. PICK t \in ScalarTexts :
        /\ pc = "core" /\ file[pos + 1] = "scalar" /\ Faultless
        /\ pos' = pos + 1 /\ open' = Opened(open, "scalar")
        /\ path' = Led(t)
        /\ IF t = Empty
           THEN pc' = "destroy" /\ UNCHANGED <<arg, pool, data, leaf>>
           ELSE
           /\ arg' = Append(arg, t)
           /\ CASE cf.seq ->
                     /\ pc' = IF cf.depth = CONF_MAX_DEPTH THEN "handle"
                              ELSE "abort"
                     /\ leaf' = TRUE /\ UNCHANGED <<pool, data>>
                [] ~cf.seq /\ cf.depth = CONF_ROOT_DEPTH ->
                     /\ pool' = PoolPushed /\ data' = NewData
                     /\ pc' = "handle" /\ leaf' = FALSE
                [] ~cf.seq /\ cf.depth # CONF_ROOT_DEPTH
                           /\ Len(arg) = cf.depth ->
                     /\ pc' = IF cf.depth = CONF_MAX_DEPTH THEN "handle"
                              ELSE "abort"
                     /\ leaf' = TRUE /\ UNCHANGED <<pool, data>>
                [] OTHER -> UNCHANGED <<pc, pool, data, leaf>>
        /\ UNCHANGED <<docs, plain, file, check, cf>>
    BY DEF ScalarEvent, Event, Fail, Validated
<1>3. PICK q, r : /\ q = Here /\ Here' = r
                  /\ \/ q = 4 /\ r = 5
                     \/ q = 6 /\ r = 7
                     \/ q = 7 /\ r = 6
                     \/ q = 8 /\ r = 8
                     \/ q = 9 /\ r = 10
                     \/ q = 10 /\ r = 9
                  /\ pos' \in 0..Len(file) /\ Opened(open, "scalar") = OpenOf(r)
                  /\ Shape(file) = 13 /\ ~check.error
                  /\ t \in Nat /\ (q \in {4, 7, 8, 10} /\ t # Empty => t \in Text)
                  /\ arg \in Seq(Nat) /\ Len(arg) = ArgsOf(q)
                  /\ ArgsOf(q) > 0 => arg[1] = path[1]
                  /\ Led(t) = Append(arg, t)
                  /\ Append(arg, t) \in Seq(Nat) /\ Len(Append(arg, t)) = Len(arg) + 1
    BY <1>2, ScalarStep
<1>9. /\ q = 4 => r = 5
      /\ q \in {7, 8, 10} => r \in {6, 8, 9} /\ r # 5
      /\ q \in {6, 9} => r \in {7, 10}
  <2>1. CASE q = 4 /\ r = 5
      BY <2>1
  <2>2. CASE q = 6 /\ r = 7
      BY <2>2
  <2>3. CASE q = 7 /\ r = 6
      BY <2>3
  <2>4. CASE q = 8 /\ r = 8
      BY <2>4
  <2>5. CASE q = 9 /\ r = 10
      BY <2>5
  <2>6. CASE q = 10 /\ r = 9
      BY <2>6
  <2> QED BY <1>3, <2>1, <2>2, <2>3, <2>4, <2>5, <2>6
<1>4. /\ cf \in CfRec /\ cf.depth = DepthOf(q) /\ (cf.seq <=> q = 8)
      /\ data # Null => data = [gen |-> pool.gen, idx |-> Len(pool.elem)]
      /\ q # 4 => /\ data # Null /\ Len(pool.elem) > 0
                  /\ path # <<>> /\ pool.elem[data.idx].name = path[1]
    BY <1>1, <1>2, <1>3 DEF InParse, Types
<1>5. /\ ArgsOf(4) = 0 /\ ArgsOf(6) = 1 /\ ArgsOf(7) = 2 /\ ArgsOf(8) = 2 /\ ArgsOf(9) = 1
      /\ ArgsOf(10) = 2 /\ ArgsOf(5) = 1
      /\ DepthOf(4) = 1 /\ DepthOf(5) = 1 /\ DepthOf(6) = 2 /\ DepthOf(7) = 2
      /\ DepthOf(8) = 2 /\ DepthOf(9) = 2 /\ DepthOf(10) = 2
      /\ CONF_MAX_DEPTH = 2 /\ CONF_ROOT_DEPTH = 1
    BY DEF ArgsOf, DepthOf, CONF_MAX_DEPTH, CONF_ROOT_DEPTH
<1> DEFINE a == Append(arg, t)
<1>6. /\ a \in Seq(Nat) /\ Len(a) = ArgsOf(q) + 1 /\ Len(a) <= 3 /\ a # <<>> /\ path' = a
      /\ a[Len(a)] = t /\ (q # 4 => a[1] = path[1]) /\ SubSeq(a, 1, Len(a)) = a
  <2>1. a # <<>> /\ a[Len(arg) + 1] = t /\ (Len(arg) > 0 => a[1] = arg[1])
      BY <1>3, OnceMore
  <2> HIDE DEF a
  <2>2. a \in Seq(Nat) /\ Len(a) = Len(arg) + 1 /\ path' = a
      BY <1>2, <1>3 DEF a
  <2>3. q # 4 => a[1] = path[1]
      BY <1>3, <1>5, <2>1
  <2>6. a[Len(a)] = t
      BY <2>1, <2>2
  <2>7. ArgsOf(q) \in {0, 1, 2}
      BY DEF ArgsOf
  <2>4. Len(a) <= 3 /\ a[Len(a)] = t
      BY <1>3, <2>2, <2>6, <2>7
  <2>5. SubSeq(a, 1, Len(a)) = a
      BY <2>2
  <2> QED BY <1>3, <2>1, <2>2, <2>3, <2>4, <2>5
<1>7. CASE t = Empty
  <2>1. Types' /\ pc' = "destroy"
      BY <1>1, <1>2, <1>3, <1>6, <1>7, FaultsBounded DEF Types
  <2> QED BY <1>2, <1>3, <2>1, NotCore
<1>8. CASE t # Empty
  <2>1. arg' = a
      BY <1>2, <1>8
  <2>2. ASSUME q = 4
        PROVE  pc' = "handle" /\ leaf' = FALSE /\ pool' = PoolPushed /\ data' = NewData
      BY <1>2, <1>4, <1>5, <1>8, <2>2
  <2>3. ASSUME q \in {7, 8, 10}
        PROVE  pc' = "handle" /\ leaf' = TRUE /\ UNCHANGED <<pool, data>>
    <3>1. CASE q = 8
        BY <1>2, <1>4, <1>5, <1>8, <3>1
    <3>2. CASE q \in {7, 10}
        BY <1>2, <1>3, <1>4, <1>5, <1>8, <3>2
    <3> QED BY <2>3, <3>1, <3>2
  <2>4. ASSUME q \in {6, 9}
        PROVE  pc' = "core" /\ UNCHANGED <<pool, data, leaf>>
    <3>1. Len(arg) = 1 /\ ~cf.seq /\ cf.depth = 2
        BY <1>3, <1>4, <1>5, <2>4
    <3> QED BY <1>2, <1>5, <1>8, <3>1
  <2> HIDE DEF a
  <2>5. \/ q = 4 /\ r = 5
        \/ q \in {7, 10} /\ r \in {6, 9}
        \/ q = 8 /\ r = 8
        \/ q \in {6, 9} /\ r \in {7, 10}
      BY <1>3
  <2>6. /\ pool' \in PoolsRec /\ Len(pool'.elem) <= pool'.nalloc
        /\ data' \in [gen : Nat, idx : Nat] /\ leaf' \in BOOLEAN /\ pc' \in {"handle", "core"}
    <3>1. CASE q = 4
        BY <1>1, <2>2, <3>1, Pushes
    <3>2. CASE q # 4
      <4>1. UNCHANGED <<pool, data>> /\ leaf' \in BOOLEAN /\ pc' \in {"handle", "core"}
          BY <1>1, <2>3, <2>4, <2>5, <3>2 DEF Types
      <4> QED BY <1>1, <4>1 DEF Types
    <3> QED BY <3>1, <3>2
  <2>7. Types'
      BY <1>1, <1>2, <1>3, <1>6, <2>1, <2>6, FaultsBounded DEF Types
  <2>8. cf'.depth = DepthOf(r) /\ (cf'.seq <=> r = 8) /\ r \in 4..10 /\ r # 4 /\ open' = OpenOf(r)
      BY <1>2, <1>3, <1>4, <1>5, <2>5
  <2>9. /\ data' = [gen |-> pool'.gen, idx |-> Len(pool'.elem)]
        /\ data' # Null /\ Len(pool'.elem) > 0
        /\ r # 5 => path' # <<>> /\ pool'.elem[data'.idx].name = path'[1]
    <3>1. CASE q = 4
        BY <1>1, <1>3, <2>2, <3>1, Pushes
    <3>2. CASE q # 4
      <4>1. UNCHANGED <<pool, data>>
          BY <2>3, <2>4, <2>5, <3>2
      <4> QED BY <1>4, <1>6, <3>2, <4>1
    <3> QED BY <3>1, <3>2
  <2>10. pc' = "core" <=> r \in {7, 10}
    <3>1. q = 4 => pc' = "handle" /\ r = 5
        BY <1>3, <2>2
    <3>2. q \in {7, 8, 10} => pc' = "handle" /\ r \in {6, 8, 9}
        BY <1>9, <2>3
    <3>3. q \in {6, 9} => pc' = "core" /\ r \in {7, 10}
        BY <1>3, <2>4
    <3>4. q \in {4, 6, 7, 8, 9, 10}
        BY <1>3
    <3> QED BY <3>1, <3>2, <3>3, <3>4
  <2>11. InParse'
    <3>1. pc' = "core" => r # 5
        BY <2>10
    <3> QED BY <1>3, <2>8, <2>9, <3>1 DEF InParse
  <2>12. InCore'
    <3> SUFFICES ASSUME pc' = "core"
                 PROVE  Len(path') >= ArgsOf(r) /\ arg' = SubSeq(path', 1, ArgsOf(r))
        BY <1>3 DEF InCore
    <3>1. ArgsOf(r) = Len(a)
      <4>1. r \in {7, 10} /\ q \in {6, 9}
          BY <1>3, <2>10
      <4>2. ArgsOf(q) = 1 /\ ArgsOf(r) = 2
          BY <4>1 DEF ArgsOf
      <4>3. Len(a) = ArgsOf(q) + 1
          BY <1>6
      <4> QED BY <4>2, <4>3
    <3>2. Len(a) \in Nat
        BY <1>6
    <3> QED BY <1>6, <2>1, <3>1, <3>2
  <2>13. InHandle'
    <3> SUFFICES ASSUME pc' = "handle"
                 PROVE  /\ r \in {5, 6, 8, 9}
                        /\ leaf' <=> r # 5
                        /\ arg' = path'
                        /\ Len(arg') = IF r = 5 THEN 1 ELSE 3
                        /\ arg'[Len(arg')] \in Text
        BY <1>3 DEF InHandle
    <3>1. q \in {4, 7, 8, 10}
        BY <2>5, <2>10
    <3>2. t \in Text
        BY <1>3, <1>8, <3>1
    <3>3. Len(a) = IF r = 5 THEN 1 ELSE 3
      <4>1. Len(a) = ArgsOf(q) + 1
          BY <1>6
      <4>2. CASE q = 4
        <5>1. r = 5 /\ ArgsOf(q) = 0
            BY <1>3, <1>5, <4>2
        <5> QED BY <4>1, <5>1
      <4>3. CASE q \in {7, 8, 10}
        <5>1. r # 5 /\ ArgsOf(q) = 2
            BY <1>3, <1>5, <4>3
        <5> QED BY <4>1, <5>1
      <4> QED BY <3>1, <4>2, <4>3
    <3>4. leaf' <=> r # 5
      <4>1. q = 4 => r = 5 /\ leaf' = FALSE
          BY <1>3, <2>2
      <4>2. q \in {7, 8, 10} => r # 5 /\ leaf' = TRUE
          BY <1>9, <2>3
      <4> QED BY <3>1, <4>1, <4>2
    <3>5. r \in {5, 6, 8, 9}
        BY <2>5, <3>1
    <3> QED BY <1>6, <2>1, <3>2, <3>3, <3>4, <3>5
  <2>14. ServersValid'
    <3>0. ServersValid
        BY <1>1, <1>2 DEF Parsed
    <3>1. CASE q = 4
      <4>1. \A i \in 1..Len(pool'.elem) : AllValid(pool'.elem[i])
          BY <1>1, <2>2, <3>0, <3>1, Pushes
      <4> QED BY <4>1 DEF ServersValid, AllValid
    <3>2. CASE q # 4
        BY <2>3, <2>4, <2>5, <3>0, <3>2 DEF ServersValid
    <3> QED BY <3>1, <3>2
  <2>15. Found' /\ Parsed'
      BY <1>2, <1>3, <2>6, <2>14 DEF Found, Parsed
  <2> QED BY <2>6, <2>7, <2>11, <2>12, <2>13, <2>15
          DEF IInv, Unparsed, InStructure, AcceptedIsSound
<1> QED BY <1>7, <1>8

(* A sequence of one is not empty.                                         *)
LEMMA OneIsSome ==
    ASSUME NEW s, Len(s) = 1
    PROVE  s # <<>>
<1>1. Len(<<>>) = 0
    OBVIOUS
<1>2. 0 # 1
    OBVIOUS
<1> QED BY <1>1, <1>2, Zenon

(* conf_handler,                                                           *)
LEMMA InvHandler ==
    ASSUME IInv, conf_handler PROVE IInv'
<1>1. Types /\ Found /\ InParse /\ InHandle /\ Parsed
    BY DEF IInv
<1>2. /\ pc = "handle" /\ UNCHANGED <<docs, plain, file, check, pos, open, path, cf, data>>
      /\ leaf' = FALSE
    BY DEF conf_handler, Validated
<1>3. PICK q : q = Here
    OBVIOUS
<1> DEFINE n == Len(arg)
           k == data.idx
           m == n - Pops
<1>4. /\ q \in {5, 6, 8, 9} /\ Here' = q
      /\ open = OpenOf(q) /\ cf.depth = DepthOf(q) /\ (cf.seq <=> q = 8)
      /\ data = [gen |-> pool.gen, idx |-> Len(pool.elem)] /\ data # Null /\ Len(pool.elem) > 0
      /\ q # 5 => path # <<>> /\ pool.elem[data.idx].name = path[1]
      /\ leaf <=> q # 5
      /\ arg = path /\ n = IF q = 5 THEN 1 ELSE 3
      /\ arg[n] \in Text
      /\ arg \in Seq(Nat) /\ Shape(file) = 13 /\ ~check.error /\ ServersValid
  <2>1. Here' = Here
      BY <1>2 DEF Here
  <2>2. q \in {5, 6, 8, 9}
      BY <1>1, <1>2, <1>3 DEF InHandle
  <2> QED BY <1>1, <1>2, <1>3, <2>1, <2>2 DEF InParse, InHandle, Types, Found, Parsed
<1>5. /\ data.gen = pool.gen /\ k = Len(pool.elem) /\ k \in 1..Len(pool.elem)
      /\ pool \in PoolsRec /\ pool.elem \in Seq(PoolRec) /\ pool.elem[k] \in PoolRec
    BY <1>1, <1>4 DEF Types, PoolsRec
<1>6. /\ Pops = IF q = 5 THEN 0 ELSE IF q = 8 THEN 1 ELSE 2
      /\ n \in Nat /\ n # 0 /\ CanPop(Pops) /\ m = ArgsOf(q) /\ m \in 1..n /\ Popped(Pops) = SubSeq(arg, 1, m)
  <2>1. Pops = IF q = 5 THEN 0 ELSE IF q = 8 THEN 1 ELSE 2
      BY <1>4 DEF Pops
  <2>2. ArgsOf(5) = 1 /\ ArgsOf(6) = 1 /\ ArgsOf(8) = 2 /\ ArgsOf(9) = 1
      BY DEF ArgsOf
  <2>3. m = ArgsOf(q) /\ m \in 1..n /\ n \in Nat /\ n # 0 /\ n >= Pops
      BY <1>4, <2>1, <2>2
  <2> QED BY <2>1, <2>3 DEF CanPop, Popped
<1>7. PICK o \in IF n = 1 THEN conf_pool_init(arg[1])
                 ELSE Commanded(pool.elem[k], arg[n - 1], arg[n]) :
          /\ IF o.res = "fault" THEN Faulty ELSE Faultless
          /\ pool' = [pool EXCEPT !.elem[k] = o.pool]
          /\ arg' = Popped(Pops)
          /\ pc' = CASE o.res = "ok" -> "core"
                     [] o.res = "abort" -> "abort"
                     [] OTHER -> "destroy"
  <2>1. ~(\/ data = Null \/ data.gen # pool.gen
          \/ ~CanPop(Pops) \/ Len(arg) = 0)
      BY <1>4, <1>5, <1>6
  <2> QED BY <2>1 DEF conf_handler
<1>8. /\ o \in Results
      /\ o.res = "abort" => NoHost \in Text
      /\ o.res = "ok" => AllValid(o.pool)
      /\ o.res = "ok" => path # <<>> /\ o.pool.name = path[1]
  <2>0. AllValid(pool.elem[k])
      BY <1>4, <1>5 DEF ServersValid, AllValid
  <2>1. CASE q = 5
    <3>1. n = 1 /\ o \in conf_pool_init(arg[1]) /\ arg[1] \in Text
        BY <1>4, <1>7, <2>1
    <3>5. Len(path) = 1
        BY <1>4, <3>1
    <3>2. path # <<>>
      BY <3>5, OneIsSome
    <3> QED BY <1>4, <3>1, <3>2, PoolInits
  <2>2. CASE q # 5
    <3>1. n = 3
        BY <1>4, <2>2
    <3>2. o \in Commanded(pool.elem[k], arg[n - 1], arg[n])
        BY <1>7, <3>1
    <3>3. Kept(pool.elem[k], arg[n], o)
        BY <1>4, <1>5, <3>2, CommandsKeep
    <3> HIDE DEF k, n
    <3> QED BY <1>4, <2>0, <2>2, <3>3 DEF Kept, k
  <2> QED BY <2>1, <2>2
<1> DEFINE g == [pool.elem EXCEPT ![k] = o.pool]
<1>9. /\ g \in Seq(PoolRec) /\ Len(g) = Len(pool.elem) /\ g[k] = o.pool
      /\ \A i \in 1..Len(pool.elem) : i # k => g[i] = pool.elem[i]
  <2>1. o.pool \in PoolRec
      BY <1>8 DEF Results
  <2> HIDE DEF k
  <2> QED BY <1>5, <2>1
<1> HIDE DEF k, m
<1>10. pool' = [pool EXCEPT !.elem = g]
    BY <1>7
<1> HIDE DEF g
<1>11. pool' \in PoolsRec /\ pool'.elem = g /\ pool'.gen = pool.gen /\ pool'.nalloc = pool.nalloc
    BY <1>5, <1>9, <1>10 DEF PoolsRec
<1>12. /\ arg' \in Seq(Nat) /\ Len(arg') = m /\ arg' = SubSeq(path, 1, m) /\ m = ArgsOf(q)
       /\ m <= Len(path) /\ m <= 3
  <2>1. /\ arg' = SubSeq(arg, 1, m) /\ m \in Nat /\ m <= m /\ m <= Len(arg)
      BY <1>6, <1>7
  <2>2. SubSeq(arg, 1, m) \in Seq(Nat) /\ Len(SubSeq(arg, 1, m)) = m
      BY <1>4, <2>1, Firsts
  <2>3. m <= 3
      BY <1>6 DEF ArgsOf
  <2> QED BY <1>4, <1>6, <2>1, <2>2, <2>3
<1>13. pc' \in {"core", "abort", "destroy"} /\ (pc' = "core" <=> o.res = "ok")
       /\ (pc' = "abort" => o.res = "abort")
    BY <1>7
<1>14. Types'
  <2>1. nfault' \in 0..MaxFault
      BY <1>1, <1>7, FaultsBounded DEF Types
  <2>2. Len(pool'.elem) <= pool'.nalloc
      BY <1>1, <1>9, <1>11 DEF Types
  <2> QED BY <1>1, <1>2, <1>11, <1>12, <1>13, <2>1, <2>2 DEF Types
<1>15. ASSUME pc' = "core" PROVE ServersValid'
  <2>1. \A i \in 1..Len(g) : AllValid(g[i])
      BY <1>4, <1>8, <1>9, <1>13, <1>15 DEF ServersValid, AllValid
  <2> QED BY <1>11, <2>1 DEF ServersValid, AllValid
<1>16. InParse'
  <2>1. q \in 4..10 /\ q # 4
      BY <1>4
  <2>2. data' = [gen |-> pool'.gen, idx |-> Len(pool'.elem)] /\ data' # Null /\ Len(pool'.elem) > 0
      BY <1>2, <1>4, <1>9, <1>11
  <2>3. open' = OpenOf(q) /\ cf'.depth = DepthOf(q) /\ (cf'.seq <=> q = 8) /\ Here' = q
      BY <1>2, <1>4
  <2>4. pc' = "core" => path' # <<>> /\ pool'.elem[data'.idx].name = path'[1]
    <3>1. pool'.elem[data'.idx] = o.pool
        BY <1>2, <1>9, <1>11 DEF k
    <3> QED BY <1>2, <1>8, <1>13, <3>1
  <2>5. pc' # "handle"
      BY <1>13
  <2> QED BY <2>1, <2>2, <2>3, <2>4, <2>5 DEF InParse
<1>17. InCore'
    BY <1>2, <1>4, <1>12 DEF InCore
<1>18. Found' /\ Parsed'
    BY <1>2, <1>4, <1>8, <1>13, <1>15 DEF Found, Parsed
<1> QED BY <1>13, <1>14, <1>16, <1>17, <1>18
        DEF IInv, Unparsed, InStructure, InHandle, AcceptedIsSound

(* What is left of a file after its root mapping.                          *)
LEMMA Ends ==
    ASSUME NEW f \in Seq(Events), Shape(f) = 13,
           NEW i \in Nat, i <= Len(f), At(f, i) = 11
    PROVE  SubSeq(f, i + 1, Len(f)) = <<"doc-", "stream-">>
<1> DEFINE y == i + 1
           z == y + 1
<1>1. /\ i < Len(f) /\ y \in 1..Len(f) /\ At(f, y) = Goes(11, f[y]) /\ At(f, y) # 0
    BY HereNext
<1>2. f[y] = "doc-" /\ At(f, y) = 12
    BY <1>1, StepIs
<1>3. y \in Nat /\ y <= Len(f) /\ At(f, y) # 13 /\ z = y + 1 /\ Len(f) \in Nat
    BY <1>1, <1>2
<1> HIDE DEF y, z
<1>4. /\ y < Len(f) /\ z \in 1..Len(f) /\ At(f, z) = Goes(12, f[z]) /\ At(f, z) # 0
    BY <1>2, <1>3, HereNext
<1>5. f[z] = "stream-" /\ At(f, z) = 13
    BY <1>4, StepIs
<1>6. z = Len(f)
  <2>1. z \in 0..Len(f)
      BY <1>3, <1>4
  <2>2. z < Len(f) => At(f, z) \in 1..12
      BY <2>1, InShape
  <2>3. ~(z < Len(f))
      BY <1>5, <2>2
  <2> QED BY <1>3, <2>1, <2>3
<1> DEFINE s == SubSeq(f, y, z)
<1>7. s \in Seq(Events) /\ Len(s) = 2 /\ s[1] = f[y] /\ s[2] = f[z]
    BY <1>1, <1>3, <1>4
<1> HIDE DEF s
<1>8. s = <<"doc-", "stream-">>
    BY <1>2, <1>5, <1>7
<1> QED BY <1>6, <1>8 DEF s, y

(* conf_end_parse,                                                         *)
LEMMA InvEndParse ==
    ASSUME IInv, conf_end_parse PROVE IInv'
<1>1. Types /\ Found /\ Parsed
    BY DEF IInv
<1>2. /\ pc = "end" /\ UNCHANGED <<docs, plain, file, check, open, path, arg, pool, data, leaf>>
    BY DEF conf_end_parse, Validated
<1>3. /\ file \in Seq(Events) /\ Shape(file) = 13 /\ ~check.error /\ arg = <<>> /\ At(file, pos) = 11
      /\ ServersValid /\ pos \in Nat /\ pos <= Len(file) /\ cf \in CfRec /\ Len(file) \in Nat
    BY <1>1, <1>2 DEF Types, Found, Parsed, Here
<1>4. ASSUME Faulty, Fail, UNCHANGED <<pos, cf>> PROVE IInv'
  <2>1. Types' /\ pc' = "destroy"
      BY <1>1, <1>2, <1>4, FaultsBounded DEF Types, Fail
  <2> QED BY <1>2, <1>3, <2>1, NotCore
<1>5. ASSUME Faultless, pos' = Len(file),
             cf' = [conf_yaml_deinit(cf) EXCEPT !.parsed = TRUE],
             pc' = IF SubSeq(file, pos + 1, Len(file)) = <<"doc-", "stream-">>
                   THEN "validate" ELSE "abort"
      PROVE  IInv'
  <2>1. pc' = "validate"
      BY <1>3, <1>5, Ends
  <2>2. cf' \in CfRec /\ ~cf'.valid_parser
    <3> DEFINE a == conf_yaml_deinit(cf)
    <3>1. a \in CfRec /\ ~a.valid_parser
        BY <1>3, CfKept
    <3> HIDE DEF a
    <3>2. [a EXCEPT !.parsed = TRUE] \in CfRec /\ [a EXCEPT !.parsed = TRUE].valid_parser = a.valid_parser
        BY <3>1, CfKept
    <3>3. cf' = [a EXCEPT !.parsed = TRUE]
        BY <1>5 DEF a
    <3> QED BY <3>1, <3>2, <3>3
  <2>3. Types'
      BY <1>1, <1>2, <1>3, <1>5, <2>1, <2>2, FaultsBounded DEF Types
  <2>4. Found' /\ Parsed'
      BY <1>2, <1>3, <2>1, <2>2 DEF Found, Parsed, ServersValid
  <2> QED BY <2>1, <2>3, <2>4
          DEF IInv, Unparsed, InStructure, InParse, InCore, InHandle, AcceptedIsSound
<1> QED BY <1>4, <1>5 DEF conf_end_parse

(* and conf_destroy.                                                       *)
LEMMA InvDestroy ==
    ASSUME IInv, conf_destroy PROVE IInv'
<1>1. Types
    BY DEF IInv
<1>2. /\ pc' = "failed"
      /\ arg' = <<>> /\ pool' = [pool EXCEPT !.elem = <<>>]
      /\ data' = Null /\ file' = <<>> /\ pos' = 0 /\ path' = <<>>
      /\ check' = [check EXCEPT !.error = FALSE]
      /\ Faultless /\ UNCHANGED <<docs, plain, cf, leaf>>
    BY DEF conf_destroy
<1>3. check' \in CheckRec /\ ~check'.error
    BY <1>1, <1>2 DEF Types, CheckRec
<1>4. pool' \in PoolsRec /\ Len(pool'.elem) <= pool'.nalloc
  <2>1. <<>> \in Seq(PoolRec) /\ Len(<<>>) = 0
      OBVIOUS
  <2>2. pool \in PoolsRec /\ pool.nalloc \in Nat
      BY <1>1 DEF Types, PoolsRec
  <2> DEFINE e == <<>>
  <2>3. e \in Seq(PoolRec) /\ Len(e) = 0 /\ pool' = [pool EXCEPT !.elem = e]
      BY <1>2, <2>1
  <2> HIDE DEF e
  <2>4. pool' \in PoolsRec /\ pool'.elem = e /\ pool'.nalloc = pool.nalloc
      BY <2>2, <2>3 DEF PoolsRec
  <2> QED BY <2>2, <2>3, <2>4
<1>5. arg' \in Seq(Nat) /\ Len(arg') <= 3 /\ file' \in Seq(Events) /\ pos' \in 0..Len(file') /\ path' \in Seq(Nat)
  <2>1. <<>> \in Seq(Nat) /\ Len(<<>>) = 0 /\ <<>> \in Seq(Events)
      OBVIOUS
  <2> QED BY <1>2, <2>1
<1>6. data' \in [gen : Nat, idx : Nat]
    BY <1>2 DEF Null
<1>7. Types'
    BY <1>1, <1>2, <1>3, <1>4, <1>5, <1>6, FaultsBounded DEF Types
<1> QED BY <1>2, <1>3, <1>7
        DEF IInv, Unparsed, InStructure, Found, InParse, InCore, InHandle, Parsed, AcceptedIsSound

(* Names are texts, and texts are ordered.                                 *)
LEMMA NamesAreInt ==
    /\ \A x \in ServerRec : x.name \in Int
    /\ \A x \in PoolRec : x.name \in Int /\ x.listen \in Int
<1> DEFINE T == Text \cup {Empty}
<1>1. T \subseteq Int
    BY TextIs DEF Empty
<1>2. ASSUME NEW x \in ServerRec
      PROVE  x.name \in T
    BY <1>2 DEF ServerRec
<1>3. ASSUME NEW x \in PoolRec
      PROVE  x.name \in T /\ x.listen \in T
    BY <1>3 DEF PoolRec
<1> QED BY <1>1, <1>2, <1>3

(* What the defaults and the order of conf_validate_pool make of a pool.   *)
LEMMA Sound ==
    ASSUME NEW p \in PoolRec, PoolAccepted(p), AllValid(p)
    PROVE  LET r == conf_validate_pool(p)
           IN /\ r \in PoolRec
              /\ r.valid /\ r.lvalid /\ r.server # <<>>
              /\ Different(r.server, Name)
              /\ \A s \in ToSet(r.server) : s.valid
              /\ NONE \notin {r.hash, r.redis, r.server_connections}
              /\ r.server_connections > 0
              /\ r.redis_auth # Empty => r.redis = 1
<1> DEFINE t == Sorted(p.server, Name)
           h == Default(p.hash, 1)
           d == Default(p.redis, 0)
           c == Default(p.server_connections, 1)
           r == conf_validate_pool(p)
<1>1. /\ p.server \in Seq(ServerRec) /\ p.hash \in {1, 2, NONE} /\ p.redis \in {0, 1, NONE}
      /\ p.server_connections \in {0, 1, NONE} /\ NONE = -1
    BY DEF PoolRec, Opt, NONE
<1>2. /\ p.lvalid /\ p.server_connections # 0 /\ (p.redis_auth # Empty => p.redis = 1)
      /\ p.server # <<>> /\ ~Adjacent(t, Name)
    BY DEF PoolAccepted, conf_validate_server
<1>3. \A x \in ServerRec : x.name \in Int
    BY NamesAreInt
<1>4. t \in Seq(ServerRec) /\ Len(t) = Len(p.server) /\ ToSet(t) = ToSet(p.server) /\ Different(t, Name)
    BY <1>1, <1>2, <1>3, SortedName
<1>5. t # <<>>
    BY <1>1, <1>2, <1>4, EmptySeq
<1>6. \A s \in ToSet(t) : s.valid
  <2>1. \A s \in ToSet(p.server) : \E i \in 1..Len(p.server) : p.server[i] = s
      BY <1>1, PlaceOf
  <2> QED BY <1>4, <2>1 DEF AllValid
<1>7. h \in {1, 2} /\ d \in {0, 1} /\ c = 1 /\ (p.redis_auth # Empty => d = 1)
    BY <1>1, <1>2 DEF Default
<1> HIDE DEF t, h, d, c
<1>8. r = [p EXCEPT !.hash = h, !.redis = d, !.server_connections = c, !.server = t, !.valid = TRUE]
    BY DEF conf_validate_pool, t, h, d, c
<1> HIDE DEF r
<1>9. /\ r.hash = h /\ r.redis = d /\ r.server_connections = c /\ r.server = t /\ r.valid = TRUE
      /\ r.lvalid = p.lvalid /\ r.redis_auth = p.redis_auth
    BY <1>8 DEF PoolRec
<1>10. r \in PoolRec
  <2>1. h \in Opt({1, 2}) /\ d \in Opt({0, 1}) /\ c \in Opt({0, 1})
      BY <1>7 DEF Opt
  <2> QED BY <1>4, <1>8, <2>1 DEF PoolRec
<1>11. NONE \notin {h, d, c} /\ c > 0
    BY <1>1, <1>7
<1> QED BY <1>2, <1>4, <1>5, <1>6, <1>7, <1>9, <1>10, <1>11 DEF r

SoundPool(p) ==
    /\ p.valid /\ p.lvalid /\ p.server # <<>>
    /\ Different(p.server, Name)
    /\ \A s \in ToSet(p.server) : s.valid
    /\ NONE \notin {p.hash, p.redis, p.server_connections}
    /\ p.server_connections > 0
    /\ p.redis_auth # Empty => p.redis = 1

(* conf_post_validate,                                                     *)
LEMMA InvPostValidate ==
    ASSUME IInv, conf_post_validate PROVE IInv'
<1> DEFINE done == [i \in DOMAIN pool.elem |-> conf_validate_pool(pool.elem[i])]
           byListen == Sorted(done, ListenPname)
           byName == Sorted(byListen, Name)
           accepted == /\ pool.elem # <<>>
                       /\ \A i \in DOMAIN pool.elem : PoolAccepted(pool.elem[i])
                       /\ ~Adjacent(byListen, ListenPname)
                       /\ ~Adjacent(byName, Name)
<1>1. Types /\ Found /\ Parsed
    BY DEF IInv
<1>2. /\ pc = "validate" /\ Faultless
      /\ UNCHANGED <<docs, plain, file, check, pos, open, path, cf, arg, data, leaf>>
      /\ IF accepted THEN pc' = "ok" /\ pool' = [pool EXCEPT !.elem = byName]
         ELSE pc' = "destroy" /\ UNCHANGED pool
    BY DEF conf_post_validate, Validated, Fail
<1>3. /\ ~check.error /\ arg = <<>> /\ ~cf.valid_parser /\ ServersValid
      /\ pool \in PoolsRec /\ pool.elem \in Seq(PoolRec) /\ Len(pool.elem) <= pool.nalloc
    BY <1>1, <1>2 DEF Types, PoolsRec, Found, Parsed
<1> HIDE DEF done, byListen, byName, accepted
<1>4. CASE ~accepted
  <2>1. Types' /\ pc' = "destroy"
      BY <1>1, <1>2, <1>4, FaultsBounded DEF Types
  <2> QED BY <1>2, <1>3, <2>1, NotCore
<1>5. CASE accepted
  <2>1. pc' = "ok" /\ pool' = [pool EXCEPT !.elem = byName]
      BY <1>2, <1>5
  <2>2. /\ pool.elem # <<>> /\ \A i \in DOMAIN pool.elem : PoolAccepted(pool.elem[i])
        /\ ~Adjacent(byListen, ListenPname) /\ ~Adjacent(byName, Name)
      BY <1>5 DEF accepted
  <2>3. DOMAIN pool.elem = 1..Len(pool.elem) /\ Len(pool.elem) \in Nat
        /\ \A i \in 1..Len(pool.elem) : pool.elem[i] \in PoolRec
      BY <1>3, PlaceOf
  <2>4. ASSUME NEW i \in 1..Len(pool.elem)
        PROVE  conf_validate_pool(pool.elem[i]) \in PoolRec
               /\ SoundPool(conf_validate_pool(pool.elem[i]))
    <3>1. pool.elem[i] \in PoolRec /\ PoolAccepted(pool.elem[i])
        BY <2>2, <2>3
    <3>2. AllValid(pool.elem[i])
        BY <1>3 DEF ServersValid, AllValid
    <3> QED BY <3>1, <3>2, Sound DEF SoundPool
  <2>5. done \in Seq(PoolRec) /\ Len(done) = Len(pool.elem)
        /\ \A i \in 1..Len(pool.elem) : SoundPool(done[i])
    <3>1. done = [i \in 1..Len(pool.elem) |-> conf_validate_pool(pool.elem[i])]
        BY <2>3 DEF done
    <3>2. done \in [1..Len(pool.elem) -> PoolRec]
        BY <2>4, <3>1
    <3>3. \A i \in 1..Len(pool.elem) : SoundPool(done[i])
        BY <2>4, <3>1
    <3> QED BY <2>3, <3>2, <3>3
  <2>6. \A x \in PoolRec : x.name \in Int /\ x.listen \in Int
      BY NamesAreInt
  <2>7. /\ byListen \in Seq(PoolRec) /\ Len(byListen) = Len(done)
        /\ ToSet(byListen) = ToSet(done) /\ Different(byListen, ListenPname)
      BY <2>2, <2>5, <2>6, SortedListen DEF byListen
  <2>8. /\ byName \in Seq(PoolRec) /\ Len(byName) = Len(byListen)
        /\ ToSet(byName) = ToSet(byListen) /\ Different(byName, Name)
        /\ Different(byName, ListenPname)
      BY <2>2, <2>6, <2>7, SortedName DEF byName
  <2>9. /\ Len(byName) = Len(pool.elem) /\ byName # <<>>
        /\ \A p \in ToSet(byName) : SoundPool(p)
    <3>1. Len(byName) = Len(pool.elem) /\ ToSet(byName) = ToSet(done)
        BY <2>5, <2>7, <2>8
    <3>2. byName # <<>>
        BY <1>3, <2>2, <2>8, <3>1, EmptySeq
    <3>3. \A p \in ToSet(done) : \E i \in 1..Len(done) : done[i] = p
        BY <2>5, PlaceOf
    <3> QED BY <2>5, <3>1, <3>2, <3>3
  <2>10. /\ pool' \in PoolsRec /\ pool'.elem = byName /\ Len(pool'.elem) <= pool'.nalloc
      BY <1>3, <2>1, <2>8, <2>9 DEF PoolsRec
  <2>11. Types'
      BY <1>1, <1>2, <2>1, <2>10, FaultsBounded DEF Types
  <2>12. AcceptedIsSound'
      BY <1>2, <1>3, <2>8, <2>9, <2>10 DEF AcceptedIsSound, SoundPool
  <2>13. Found' /\ Parsed'
      BY <1>2, <1>3, <2>1 DEF Found, Parsed
  <2> QED BY <2>1, <2>11, <2>12, <2>13
          DEF IInv, Unparsed, InStructure, InParse, InCore, InHandle
<1> QED BY <1>4, <1>5

(* Every step keeps the invariant.                                         *)
LEMMA InvNext ==
    ASSUME IInv, [Next]_vars PROVE IInv'
<1>1. CASE UNCHANGED vars
    BY <1>1 DEF vars, IInv, Types, Unparsed, InStructure, LastOf, Count, Checked, Found, InParse,
                InCore, InHandle, Parsed, Here, ServersValid, AcceptedIsSound
<1>2. CASE Next
    BY <1>2, InvDocument, InvTokens, InvStart, InvStructure, InvBegin, InvCannotRead,
       InvStartEvent, InvMappingEnd, InvSequenceEnd, InvScalarEvent, InvScalarNoMemory,
       InvHandler, InvEndParse, InvPostValidate, InvDestroy DEF Next
<1> QED BY <1>1, <1>2

(* The program keeps the inductive invariant: the depths, flags, counts    *)
(* and arguments of the four passes are those of the automaton.            *)
THEOREM ConfInvariant == Spec => []IInv
<1> QED BY InvInit, InvNext, PTL DEF Spec

(* conf_validate_structure, while it has not refused the file, is where    *)
(* the automaton of pool: {key: value, seq: [...]} is, and it accepts      *)
(* exactly the files that are of that shape.                               *)
THEOREM ConfStructureExact == Spec => []StructureExact
<1>1. IInv => StructureExact
  <2> SUFFICES ASSUME IInv, pc \in {"structure", "begin"} \/ check.error
               PROVE  check.error <=> Shape(file) = 0
      BY DEF StructureExact
  <2> QED BY DEF IInv, InStructure, Found
<1> QED BY <1>1, ConfInvariant, PTL

(* What conf_pre_validate lets through violates no assertion of            *)
(* conf_parse_core, conf_handler and what they call, if no text has a port *)
(* and no host: string_copy asserts that a name is not empty.              *)
THEOREM ConfAssertionsHold ==
    ASSUME NoHost \notin Text PROVE Spec => []AssertionsHold
<1>1. IInv => AssertionsHold
    BY DEF IInv, Parsed, AssertionsHold
<1> QED BY <1>1, ConfInvariant, PTL

(* How many values are open.                                               *)
LEMMA OpenValues ==
    ASSUME NEW q \in 4..11
    PROVE  LET o == OpenOf(q)
           IN Cardinality({i \in DOMAIN o : o[i] = "value"}) = ArgsOf(q)
<1>1. /\ {i \in DOMAIN <<>> : <<>>[i] = "value"} = {}
      /\ {i \in DOMAIN <<"key">> : <<"key">>[i] = "value"} = {}
      /\ {i \in DOMAIN <<"value">> : <<"value">>[i] = "value"} = {1}
      /\ {i \in DOMAIN <<"value", "key">> : <<"value", "key">>[i] = "value"} = {1}
      /\ {i \in DOMAIN <<"value", "value">> : <<"value", "value">>[i] = "value"} = {1, 2}
      /\ {i \in DOMAIN <<"value", "value", "item">> : <<"value", "value", "item">>[i] = "value"} = {1, 2}
    OBVIOUS
<1>2. Cardinality({}) = 0 /\ Cardinality({1}) = 1
    BY FS_EmptySet, FS_Singleton
<1>3. Cardinality({1, 2}) = 2
  <2>1. IsFiniteSet({1}) /\ 2 \notin {1} /\ {1} \cup {2} = {1, 2}
      BY FS_Singleton
  <2> QED BY <1>2, <2>1, FS_AddElement
<1>4. q \in {4, 5, 6, 7, 8, 9, 10, 11}
    OBVIOUS
<1> QED BY <1>1, <1>2, <1>3, <1>4 DEF OpenOf, ArgsOf

(* conf_handler gets the scalars that lead from the root to the value, and *)
(* every value, and sets it in the pool under whose name the file has it,  *)
(* in the array that is allocated.                                         *)
THEOREM ConfHandlersRight == Spec => []HandlersRight
<1>1. ASSUME IInv PROVE HandlersRight
  <2>1. TypeOK
      BY <1>1, TypesOK DEF IInv
  <2>2. HandlerSeesPath
    <3>1. pc = "handle" => arg = path
        BY <1>1 DEF IInv, InHandle
    <3> SUFFICES ASSUME pc \in {"core", "end"}
                 PROVE  arg = SubSeq(path, 1, Cardinality({i \in DOMAIN open : open[i] = "value"}))
        BY <3>1 DEF HandlerSeesPath
    <3>2. CASE pc = "core"
      <4>1. Here \in 4..11 /\ open = OpenOf(Here) /\ arg = SubSeq(path, 1, ArgsOf(Here))
          BY <1>1, <3>2 DEF IInv, InParse, InCore
      <4> QED BY <4>1, OpenValues
    <3>3. CASE pc = "end"
      <4>1. open = OpenOf(11) /\ arg = <<>> /\ path \in Seq(Nat) /\ ArgsOf(11) = 0
          BY <1>1, <3>3 DEF IInv, Parsed, Types, OpenOf, ArgsOf
      <4>2. Cardinality({i \in DOMAIN open : open[i] = "value"}) = 0
          BY <4>1, OpenValues
      <4>3. SubSeq(path, 1, 0) = <<>>
          BY <4>1
      <4> QED BY <4>1, <4>2, <4>3
    <3> QED BY <3>2, <3>3
  <2>3. ValuesToTheirPool
    <3>1. pc \in {"core", "handle"} /\ data # Null =>
              data = [gen |-> pool.gen, idx |-> Len(pool.elem)]
        BY <1>1 DEF IInv, InParse
    <3>2. ASSUME pc \in {"core", "handle"}, Len(open) >= 2
          PROVE  pool.elem[data.idx].name = path[1]
      <4>1. Here \in 4..10 /\ open = OpenOf(Here)
          BY <1>1, <3>2 DEF IInv, InParse
      <4>2. Here \notin {4, 5}
        <5>1. CASE Here = 4
          <6>1. open = <<"key">>
              BY <4>1, <5>1 DEF OpenOf
          <6> QED BY <3>2, <6>1
        <5>2. CASE Here = 5
          <6>1. open = <<"value">>
              BY <4>1, <5>2 DEF OpenOf
          <6> QED BY <3>2, <6>1
        <5> QED BY <5>1, <5>2
      <4> QED BY <1>1, <3>2, <4>2 DEF IInv, InParse
    <3> QED BY <3>1, <3>2 DEF ValuesToTheirPool
  <2> QED BY <2>1, <2>2, <2>3 DEF HandlersRight
<1> QED BY <1>1, ConfInvariant, PTL

(* A configuration that conf_create returns has valid pools and servers,   *)
(* no name or listen address twice, and every directive set.               *)
THEOREM ConfAcceptedIsSound == Spec => []AcceptedIsSound
<1>1. IInv => AcceptedIsSound
    BY DEF IInv
<1> QED BY <1>1, ConfInvariant, PTL
=============================================================================
