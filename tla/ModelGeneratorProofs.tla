------------------------ MODULE ModelGeneratorProofs ------------------------
(***************************************************************************)
(* Theorems about the model generator: ModelEditor and, on its tab, the    *)
(* StepResponseTool, for any tables, files, recorded series and bounds.    *)
(*                                                                         *)
(* The induction theorems of the library take an operator as a parameter,  *)
(* which the provers cannot instantiate.  Sets do as well: the first       *)
(* section derives induction over an interval for sets from the            *)
(* well-foundedness of strict inclusion, and what recursive functions      *)
(* compute is proved with it.                                              *)
(***************************************************************************)
EXTENDS StepResponseTool, FiniteSetTheorems, TLAPS

-----------------------------------------------------------------------------
(* Induction.                                                              *)

(* A set of natural numbers that is not empty has a smallest element.      *)
LEMMA Smallest ==
  ASSUME NEW S \in SUBSET Nat, S # {}
  PROVE  \E m \in S : \A k \in S : m <= k
<1> DEFINE Upto(k) == S \cap (0..k)
           family == {Upto(k) : k \in S}
<1>1. \A k \in S : Upto(k) \in FiniteSubsetsOf(Nat)
  <2>1. SUFFICES ASSUME NEW k \in S PROVE IsFiniteSet(Upto(k))
    BY DEF FiniteSubsetsOf
  <2>2. IsFiniteSet(0..k)
    BY FS_Interval
  <2>3. QED
    BY <2>2, FS_Subset
<1>2. family \subseteq FiniteSubsetsOf(Nat) /\ family # {}
  BY <1>1
<1>3. IsWellFoundedOn(StrictSubsetOrdering(Nat), FiniteSubsetsOf(Nat))
  BY FS_StrictSubsetOrderingWellFounded
<1> HIDE DEF family
<1>4. PICK x \in family : \A y \in family : <<y, x>> \notin StrictSubsetOrdering(Nat)
  BY <1>2, <1>3, WFMin
<1>5. PICK m \in S : x = Upto(m)
  BY <1>4 DEF family
<1>6. ASSUME NEW k \in S, k < m PROVE FALSE
  <2>1. Upto(k) \subseteq Upto(m) /\ m \in Upto(m) /\ m \notin Upto(k)
    BY <1>6
  <2>2. Upto(k) \in family
    BY DEF family
  <2>3. <<Upto(k), Upto(m)>> \in StrictSubsetOrdering(Nat)
    BY <2>1 DEF StrictSubsetOrdering
  <2>4. QED
    BY <1>4, <1>5, <2>2, <2>3
<1>7. QED
  BY <1>6

LEMMA Counting ==
  ASSUME NEW n \in Nat, NEW S, 0 \in S, \A k \in 0..n : k \in S /\ k < n => k + 1 \in S
  PROVE  0..n \subseteq S
<1> DEFINE Missing == {k \in 0..n : k \notin S}
<1>1. SUFFICES ASSUME Missing # {} PROVE FALSE
  OBVIOUS
<1>2. Missing \in SUBSET Nat
  OBVIOUS
<1>3. PICK m \in Missing : \A k \in Missing : m <= k
  BY <1>1, <1>2, Smallest
<1>4. m \in 0..n /\ m # 0 /\ m - 1 \in 0..n /\ m - 1 \in S /\ m - 1 < n
  BY <1>3
<1>5. (m - 1) + 1 \in S
  BY <1>4
<1>6. QED
  BY <1>3, <1>4, <1>5

(* A recursion over an interval has a solution.                            *)
Follows(g, first, step, m) == g[0] = first /\ \A k \in 1..m : g[k] = step[k][g[k-1]]

LEMMA Recursion ==
  ASSUME NEW n \in Nat, NEW T, NEW first \in T, NEW step \in [1..n -> [T -> T]]
  PROVE  \E g \in [0..n -> T] : Follows(g, first, step, n)
<1> DEFINE Solves(m, g) == g[0] = first /\ \A k \in 1..m : g[k] = step[k][g[k-1]]
           S == {m \in 0..n : \E g \in [0..m -> T] : Solves(m, g)}
<1>1. 0 \in S
  <2> DEFINE h == [k \in 0..0 |-> first]
  <2>1. h \in [0..0 -> T] /\ Solves(0, h)
    OBVIOUS
  <2> HIDE DEF h, Solves
  <2>2. QED
    BY <2>1
<1>2. ASSUME NEW m \in 0..n, m \in S, m < n PROVE m + 1 \in S
  <2>1. PICK g \in [0..m -> T] : Solves(m, g)
    BY <1>2
  <2> DEFINE h == [k \in 0..(m+1) |-> IF k = m + 1 THEN step[m+1][g[m]] ELSE g[k]]
  <2>2. h \in [0..(m+1) -> T]
    <3>1. g[m] \in T /\ step[m+1] \in [T -> T]
      BY <1>2
    <3>2. step[m+1][g[m]] \in T
      BY <3>1
    <3>3. QED
      BY <3>2
  <2>3. h[0] = first
    BY <2>1
  <2>4. ASSUME NEW k \in 1..(m+1) PROVE h[k] = step[k][h[k-1]]
    <3>1. h[k-1] = g[k-1]
      OBVIOUS
    <3>2. CASE k = m + 1
      BY <3>1, <3>2
    <3>3. CASE k \in 1..m
      BY <2>1, <3>1, <3>3
    <3>4. QED
      BY <3>2, <3>3
  <2>5. Solves(m + 1, h)
    BY <2>3, <2>4
  <2> HIDE DEF h, Solves
  <2>6. QED
    BY <1>2, <2>2, <2>5
<1>3. 0..n \subseteq S
  <2> HIDE DEF S
  <2>1. QED
    BY <1>1, <1>2, Counting
<1>4. \E g \in [0..n -> T] : Solves(n, g)
  BY <1>3
<1>5. QED
  BY <1>4 DEF Follows

(* Filtering a sequence keeps its type.                                    *)
LEMMA KeptTyped ==
  ASSUME NEW T, NEW s \in Seq(T), NEW keep
  PROVE  Kept(s, keep) \in Seq(T)
<1> DEFINE F(g) == [n \in 0..Len(s) |-> IF n = 0 THEN <<>>
                      ELSE IF s[n] \in keep THEN Append(g[n-1], s[n]) ELSE g[n-1]]
           K == CHOOSE g : g = F(g)
           step == [n \in 1..Len(s) |-> [x \in Seq(T) |->
                      IF s[n] \in keep THEN Append(x, s[n]) ELSE x]]
<1>1. step \in [1..Len(s) -> [Seq(T) -> Seq(T)]] /\ <<>> \in Seq(T) /\ Len(s) \in Nat
  OBVIOUS
<1>2. PICK g \in [0..Len(s) -> Seq(T)] : Follows(g, <<>>, step, Len(s))
  <2> HIDE DEF step
  <2>1. QED
    BY <1>1, Recursion
<1>3. g = F(g)
  <2>1. ASSUME NEW n \in 1..Len(s)
        PROVE  g[n] = IF s[n] \in keep THEN Append(g[n-1], s[n]) ELSE g[n-1]
    <3>1. g[n-1] \in Seq(T) /\ g[n] = step[n][g[n-1]]
      <4> HIDE DEF step
      <4>1. n - 1 \in 0..Len(s)
        BY <1>1
      <4>2. QED
        BY <1>2, <4>1 DEF Follows
    <3>2. step[n] = [x \in Seq(T) |-> IF s[n] \in keep THEN Append(x, s[n]) ELSE x]
      OBVIOUS
    <3> HIDE DEF step
    <3>3. QED
      BY <3>1, <3>2
  <2>2. g[0] = <<>>
    BY <1>2 DEF Follows
  <2>3. g = [n \in 0..Len(s) |-> g[n]]
    OBVIOUS
  <2>4. \A n \in 0..Len(s) : g[n] = IF n = 0 THEN <<>>
                      ELSE IF s[n] \in keep THEN Append(g[n-1], s[n]) ELSE g[n-1]
    <3> HIDE DEF step
    <3>1. \A n \in 0..Len(s) : n = 0 \/ n \in 1..Len(s)
      BY <1>1
    <3>2. QED
      BY <2>1, <2>2, <3>1
  <2>5. QED
    BY <2>3, <2>4
<1>4. K = F(K)
  <2> HIDE DEF F
  <2>1. QED
    BY <1>3
<1> HIDE DEF K
<1> DEFINE S == {n \in 0..Len(s) : K[n] \in Seq(T)}
<1>5. 0 \in S
  BY <1>4
<1>6. ASSUME NEW n \in 0..Len(s), n \in S, n < Len(s) PROVE n + 1 \in S
  <2>1. n + 1 \in 0..Len(s) /\ n + 1 # 0 /\ s[n+1] \in T /\ (n + 1) - 1 = n
    BY <1>6
  <2>2. K[n+1] = F(K)[n+1]
    BY <1>4
  <2>3. F(K)[n+1] = IF s[n+1] \in keep THEN Append(K[n], s[n+1]) ELSE K[n]
    BY <2>1
  <2> HIDE DEF F
  <2>4. K[n] \in Seq(T)
    BY <1>6
  <2>5. K[n+1] \in Seq(T)
    BY <2>1, <2>2, <2>3, <2>4
  <2>6. QED
    BY <2>1, <2>5
<1>7. 0..Len(s) \subseteq S
  <2> HIDE DEF S
  <2>1. QED
    BY <1>1, <1>5, <1>6, Counting
<1>8. K[Len(s)] \in Seq(T)
  BY <1>7
<1>9. Kept(s, keep) = K[Len(s)]
  BY DEF Kept, K
<1>10. QED
  BY <1>8, <1>9

-----------------------------------------------------------------------------
(* The step of a recorded input.                                           *)
Point == [at : Nat, value : Int]
Best  == [change : Int, at : Nat]

LEMMA ChangeTyped ==
  ASSUME NEW ps \in Seq(Point), NEW i \in 2..Len(ps)
  PROVE  Change(ps, i) \in Nat
<1>1. ps[i].value \in Int /\ ps[i-1].value \in Int
  <2>1. ps[i] \in Point /\ ps[i-1] \in Point
    OBVIOUS
  <2>2. QED
    BY <2>1 DEF Point
<1>2. QED
  BY <1>1 DEF Change

(* What the search has found among the first i points.                     *)
Found(ps, b, i) ==
  \/ b.change = 0 /\ \A j \in 2..i : Change(ps, j) <= 0
  \/ /\ b.at \in 2..i /\ b.change = Change(ps, b.at)
     /\ \A j \in 2..i : /\ Change(ps, j) <= b.change
                        /\ j < b.at => Change(ps, j) < b.change

LEMMA FoundMore ==
  ASSUME NEW ps \in Seq(Point), NEW i \in 2..Len(ps), NEW b \in Best, Found(ps, b, i - 1),
         NEW d \in Best,
         d = IF Change(ps, i) > b.change THEN [change |-> Change(ps, i), at |-> i] ELSE b
  PROVE  Found(ps, d, i)
<1>1. \A j \in 2..i : Change(ps, j) \in Nat
  BY ChangeTyped
<1>2. \A j \in 2..i : j = i \/ j \in 2..(i - 1)
  OBVIOUS
<1>3. b.change \in Int /\ b.at \in Nat
  BY DEF Best
<1>4. CASE Change(ps, i) > b.change
  <2>1. d.change = Change(ps, i) /\ d.at = i
    BY <1>4
  <2>2. \A j \in 2..(i - 1) : Change(ps, j) < Change(ps, i)
    BY <1>1, <1>3, <1>4 DEF Found
  <2>3. \A j \in 2..i : /\ Change(ps, j) <= d.change
                        /\ j < d.at => Change(ps, j) < d.change
    BY <1>1, <1>2, <2>1, <2>2
  <2>4. QED
    BY <2>1, <2>3 DEF Found
<1>5. CASE ~(Change(ps, i) > b.change)
  <2>1. d = b /\ Change(ps, i) <= b.change
    BY <1>1, <1>3, <1>5
  <2>2. CASE b.change = 0 /\ \A j \in 2..(i - 1) : Change(ps, j) <= 0
    BY <1>2, <2>1, <2>2 DEF Found
  <2>3. CASE ~(b.change = 0 /\ \A j \in 2..(i - 1) : Change(ps, j) <= 0)
    <3>1. /\ b.at \in 2..(i - 1) /\ b.change = Change(ps, b.at)
          /\ \A j \in 2..(i - 1) : /\ Change(ps, j) <= b.change
                                   /\ j < b.at => Change(ps, j) < b.change
      BY <2>3 DEF Found
    <3>2. b.at \in 2..i /\ ~(i < b.at)
      BY <3>1
    <3>3. \A j \in 2..i : /\ Change(ps, j) <= b.change
                          /\ j < b.at => Change(ps, j) < b.change
      BY <1>2, <2>1, <3>1, <3>2
    <3>4. QED
      BY <2>1, <3>1, <3>2, <3>3 DEF Found
  <2>4. QED
    BY <2>2, <2>3
<1>6. QED
  BY <1>4, <1>5

LEMMA LargestFound ==
  ASSUME NEW ps \in Seq(Point), Len(ps) >= 1
  PROVE  Largest(ps) \in Best /\ Found(ps, Largest(ps), Len(ps))
<1> DEFINE n == Len(ps) - 1
           none == [change |-> 0, at |-> 1]
           F(g) == [i \in 1..Len(ps) |-> IF i = 1 THEN [change |-> 0, at |-> 1]
                      ELSE IF Change(ps, i) > g[i-1].change
                           THEN [change |-> Change(ps, i), at |-> i] ELSE g[i-1]]
           K == CHOOSE g : g = F(g)
           step == [k \in 1..n |-> [b \in Best |->
                      IF Change(ps, k + 1) > b.change
                      THEN [change |-> Change(ps, k + 1), at |-> k + 1] ELSE b]]
<1>1. n \in Nat /\ none \in Best /\ Len(ps) \in Nat
  BY DEF Best
<1>2. step \in [1..n -> [Best -> Best]]
  <2>1. ASSUME NEW k \in 1..n, NEW b \in Best
        PROVE  (IF Change(ps, k + 1) > b.change
                THEN [change |-> Change(ps, k + 1), at |-> k + 1] ELSE b) \in Best
    <3>1. k + 1 \in 2..Len(ps)
      OBVIOUS
    <3>2. Change(ps, k + 1) \in Nat
      BY <3>1, ChangeTyped
    <3>3. QED
      BY <3>1, <3>2 DEF Best
  <2>2. QED
    BY <2>1
<1>3. PICK g \in [0..n -> Best] : Follows(g, none, step, n)
  <2> HIDE DEF step, n, none
  <2>1. QED
    BY <1>1, <1>2, Recursion
<1> DEFINE h == [i \in 1..Len(ps) |-> g[i-1]]
<1>4. h = F(h)
  <2>1. ASSUME NEW i \in 2..Len(ps)
        PROVE  h[i] = IF Change(ps, i) > h[i-1].change
                      THEN [change |-> Change(ps, i), at |-> i] ELSE h[i-1]
    <3>1. i - 1 \in 1..n /\ (i - 1) + 1 = i /\ i - 1 \in 1..Len(ps) /\ i \in 1..Len(ps)
      BY <1>1
    <3>2. h[i] = g[i-1] /\ h[i-1] = g[(i-1)-1] /\ g[(i-1)-1] \in Best
      BY <3>1
    <3>3. g[i-1] = step[i-1][g[(i-1)-1]]
      <4> HIDE DEF step, n
      <4>1. QED
        BY <1>3, <3>1 DEF Follows
    <3>4. step[i-1] = [b \in Best |-> IF Change(ps, i) > b.change
                         THEN [change |-> Change(ps, i), at |-> i] ELSE b]
      BY <3>1
    <3> HIDE DEF step, h, n
    <3>5. QED
      BY <3>2, <3>3, <3>4
  <2>2. h[1] = none
    <3>1. h[1] = g[0]
      BY <1>1
    <3> HIDE DEF h, step, n, none
    <3>2. QED
      BY <1>3, <3>1 DEF Follows
  <2>3. h = [i \in 1..Len(ps) |-> h[i]]
    OBVIOUS
  <2> HIDE DEF h
  <2>4. \A i \in 1..Len(ps) : h[i] = IF i = 1 THEN [change |-> 0, at |-> 1]
                      ELSE IF Change(ps, i) > h[i-1].change
                           THEN [change |-> Change(ps, i), at |-> i] ELSE h[i-1]
    <3>1. \A i \in 1..Len(ps) : i = 1 \/ i \in 2..Len(ps)
      OBVIOUS
    <3>2. QED
      BY <2>1, <2>2, <3>1
  <2>5. QED
    BY <2>3, <2>4
<1>5. K = F(K)
  <2> HIDE DEF F, h
  <2>1. QED
    BY <1>4
<1> HIDE DEF K
<1>6. K[1] = none /\ \A i \in 2..Len(ps) : K[i] = IF Change(ps, i) > K[i-1].change
                           THEN [change |-> Change(ps, i), at |-> i] ELSE K[i-1]
  <2>1. F(K)[1] = none
    <3>1. 1 \in 1..Len(ps)
      BY <1>1
    <3>2. QED
      BY <3>1
  <2>2. ASSUME NEW i \in 2..Len(ps)
        PROVE  F(K)[i] = IF Change(ps, i) > K[i-1].change
                         THEN [change |-> Change(ps, i), at |-> i] ELSE K[i-1]
    <3>1. i \in 1..Len(ps) /\ i # 1
      BY <1>1
    <3>2. QED
      BY <3>1
  <2> HIDE DEF F, h, none, n
  <2>3. QED
    BY <1>5, <2>1, <2>2
<1> HIDE DEF F, h
<1> DEFINE S == {k \in 0..n : K[k+1] \in Best /\ Found(ps, K[k+1], k + 1)}
<1>7. 0 \in S
  BY <1>1, <1>6 DEF Found
<1>8. ASSUME NEW k \in 0..n, k \in S, k < n PROVE k + 1 \in S
  <2>1. k + 2 \in 2..Len(ps) /\ k + 1 \in 0..n /\ (k + 2) - 1 = k + 1 /\ (k + 1) + 1 = k + 2
    BY <1>1, <1>8
  <2>2. K[k+1] \in Best /\ Found(ps, K[k+1], k + 1)
    BY <1>8
  <2>3. K[k+2] = IF Change(ps, k + 2) > K[k+1].change
                 THEN [change |-> Change(ps, k + 2), at |-> k + 2] ELSE K[k+1]
    BY <1>6, <2>1
  <2>4. Change(ps, k + 2) \in Nat
    BY <2>1, ChangeTyped
  <2>5. K[k+2] \in Best
    BY <2>1, <2>2, <2>3, <2>4 DEF Best
  <2>6. Found(ps, K[k+2], k + 2)
    BY <2>1, <2>2, <2>3, <2>5, FoundMore
  <2>7. QED
    BY <2>1, <2>5, <2>6
<1>9. 0..n \subseteq S
  <2> HIDE DEF S, n
  <2>1. QED
    BY <1>1, <1>7, <1>8, Counting
<1>10. K[Len(ps)] \in Best /\ Found(ps, K[Len(ps)], Len(ps))
  <2>1. n + 1 = Len(ps)
    BY <1>1
  <2>2. n \in S
    <3> HIDE DEF S, n
    <3>1. QED
      BY <1>1, <1>9
  <2> HIDE DEF n
  <2>3. K[n+1] \in Best /\ Found(ps, K[n+1], n + 1)
    BY <2>2
  <2>4. QED
    BY <2>1, <2>3
<1>11. Largest(ps) = K[Len(ps)]
  BY DEF Largest, K, F
<1>12. QED
  BY <1>10, <1>11

(* autoDetectStep finds the first of the largest changes.                  *)
LEMMA DetectedIsFirst ==
  ASSUME NEW ps \in Seq(Point), Detects(ps)
  PROVE  /\ Largest(ps).at \in DOMAIN ps /\ IsFirstLargest(ps, Largest(ps).at)
         /\ StepOf(ps) \in Nat
<1> DEFINE b == Largest(ps)
<1>1. Len(ps) >= 2 /\ b.change > Threshold /\ Threshold \in Nat
  BY ToolAssumption DEF Detects
<1>2. b \in Best /\ Found(ps, b, Len(ps))
  BY <1>1, LargestFound
<1> HIDE DEF b
<1>3. b.change # 0
  BY <1>1, <1>2 DEF Best
<1>4. /\ b.at \in 2..Len(ps) /\ b.change = Change(ps, b.at)
      /\ \A j \in 2..Len(ps) : /\ Change(ps, j) <= b.change
                               /\ j < b.at => Change(ps, j) < b.change
  BY <1>2, <1>3 DEF Found
<1>5. b.at \in DOMAIN ps /\ ps[b.at] \in Point
  BY <1>4
<1>6. IsFirstLargest(ps, b.at)
  BY <1>1, <1>4 DEF IsFirstLargest
<1>7. QED
  BY <1>5, <1>6 DEF b, StepOf, Point

-----------------------------------------------------------------------------
(* Arrays.                                                                 *)
LEMMA WithoutTyped ==
  ASSUME NEW T, NEW s \in Seq(T), NEW i \in DOMAIN s
  PROVE  Without(s, i) \in Seq(T) /\ Len(Without(s, i)) = Len(s) - 1
<1>1. Len(s) \in Nat /\ i \in 1..Len(s) /\ Len(s) - 1 \in Nat
  OBVIOUS
<1>2. Without(s, i) \in [1..(Len(s) - 1) -> T]
  BY <1>1 DEF Without
<1>3. QED
  BY <1>1, <1>2

LEMMA CellTyped ==
  ASSUME NEW T, NEW mat \in Seq(Seq(T)), NEW r, NEW c, NEW default \in T
  PROVE  Row(mat, r) \in Seq(T) /\ Cell(mat, r, c, default) \in T
<1>1. Row(mat, r) \in Seq(T) /\ (r \in DOMAIN mat => Row(mat, r) = mat[r])
  BY DEF Row
<1>2. CASE c \in DOMAIN Row(mat, r)
  <2>1. CASE r \in DOMAIN mat
    BY <1>1, <1>2, <2>1 DEF Cell
  <2>2. CASE r \notin DOMAIN mat
    BY <1>2, <2>2 DEF Row
  <2>3. QED
    BY <2>1, <2>2
<1>3. CASE c \notin DOMAIN Row(mat, r)
  BY <1>1, <1>3 DEF Cell
<1>4. QED
  BY <1>1, <1>2, <1>3

Grid == Seq(Seq(Entries))

LEMMA EntriesHold ==
  /\ Zero \in Entries /\ None \in Entries
  /\ \A t \in CvTags, x \in InputTags : <<t, x>> \in Entries
BY DEF Entries

LEMMA RowsMakeGrid ==
  ASSUME NEW n \in Nat, NEW g, g = [r \in 1..n |-> g[r]], \A r \in 1..n : g[r] \in Seq(Entries)
  PROVE  g \in Grid /\ Len(g) = n
<1> DEFINE T == Seq(Entries)
<1>1. g \in [1..n -> T]
  OBVIOUS
<1> HIDE DEF T
<1>2. g \in Seq(T) /\ Len(g) = n
  BY <1>1
<1>3. QED
  BY <1>2 DEF T, Grid

LEMMA Assigned ==
  ASSUME NEW T, NEW s \in Seq(T), NEW c, NEW e \in T
  PROVE  /\ [s EXCEPT ![c] = e] \in Seq(T) /\ Len([s EXCEPT ![c] = e]) = Len(s)
         /\ \A k \in 1..Len(s) : [s EXCEPT ![c] = e][k] = IF k = c THEN e ELSE s[k]
<1>1. Len(s) \in Nat /\ s \in [1..Len(s) -> T]
  OBVIOUS
<1>2. [s EXCEPT ![c] = e] \in [1..Len(s) -> T]
  BY <1>1
<1>3. QED
  BY <1>1, <1>2

LEMMA CellOfGrid ==
  ASSUME NEW mat \in Grid, NEW default \in Entries
  PROVE  \A r, c : Row(mat, r) \in Seq(Entries) /\ Cell(mat, r, c, default) \in Entries
<1> DEFINE T == Entries
<1>1. mat \in Seq(Seq(T)) /\ default \in T
  BY DEF Grid
<1> HIDE DEF T
<1>2. ASSUME NEW r, NEW c PROVE Row(mat, r) \in Seq(T) /\ Cell(mat, r, c, default) \in T
  BY <1>1, CellTyped
<1>3. QED
  BY <1>2 DEF T

LEMMA ResizeTyped ==
  ASSUME NEW mat \in Grid, NEW rows \in Nat, NEW cols \in Nat
  PROVE  /\ Resize(mat, rows, cols) \in Grid /\ Len(Resize(mat, rows, cols)) = rows
         /\ \A r \in 1..rows : Len(Resize(mat, rows, cols)[r]) = cols
<1>1. \A r, c : Cell(mat, r, c, Zero) \in Entries
  BY CellOfGrid, EntriesHold
<1>2. \A r : /\ [c \in 1..cols |-> Cell(mat, r, c, Zero)] \in Seq(Entries)
             /\ Len([c \in 1..cols |-> Cell(mat, r, c, Zero)]) = cols
  BY <1>1
<1>3. QED
  BY <1>2 DEF Resize, Grid

LEMMA WithoutColumnTyped ==
  ASSUME NEW mat \in Grid, NEW i
  PROVE  /\ WithoutColumn(mat, i) \in Grid /\ Len(WithoutColumn(mat, i)) = Len(mat)
         /\ \A r \in 1..Len(mat) :
              Len(WithoutColumn(mat, i)[r])
                = IF i \in DOMAIN mat[r] THEN Len(mat[r]) - 1 ELSE Len(mat[r])
<1> DEFINE T == Entries
<1>1. mat \in Seq(Seq(T))
  BY DEF Grid
<1> HIDE DEF T
<1>2. ASSUME NEW r \in 1..Len(mat)
      PROVE  /\ (IF i \in DOMAIN mat[r] THEN Without(mat[r], i) ELSE mat[r]) \in Seq(T)
             /\ Len(IF i \in DOMAIN mat[r] THEN Without(mat[r], i) ELSE mat[r])
                  = IF i \in DOMAIN mat[r] THEN Len(mat[r]) - 1 ELSE Len(mat[r])
  <2>1. mat[r] \in Seq(T)
    BY <1>1
  <2>2. QED
    BY <2>1, WithoutTyped
<1>3. QED
  BY <1>1, <1>2 DEF WithoutColumn, Grid, T

LEMMA WithColumnTyped ==
  ASSUME NEW mat \in Grid, NEW from \in Grid, NEW i, NEW rows \in Nat, NEW default \in Entries
  PROVE  /\ WithColumn(mat, from, i, rows, default) \in Grid
         /\ Len(WithColumn(mat, from, i, rows, default)) = rows
         /\ \A r \in 1..rows :
              Len(WithColumn(mat, from, i, rows, default)[r]) = Len(Row(mat, r)) + 1
<1>1. \A r : Row(mat, r) \in Seq(Entries) /\ Cell(from, r, i, default) \in Entries
  BY CellOfGrid
<1>2. \A r : /\ Append(Row(mat, r), Cell(from, r, i, default)) \in Seq(Entries)
             /\ Len(Append(Row(mat, r), Cell(from, r, i, default))) = Len(Row(mat, r)) + 1
  BY <1>1
<1>3. QED
  BY <1>2 DEF WithColumn, Grid

LEMMA PaddedTyped ==
  ASSUME NEW mat \in Grid, NEW rows \in Nat, NEW cols \in Nat
  PROVE  /\ Padded(mat, rows, cols) \in Grid /\ Len(Padded(mat, rows, cols)) >= rows
         /\ \A r \in 1..Len(Padded(mat, rows, cols)) :
              /\ Len(Padded(mat, rows, cols)[r]) >= cols
              /\ \A c \in 1..Len(Padded(mat, rows, cols)[r]) :
                   Padded(mat, rows, cols)[r][c] = Cell(mat, r, c, Zero)
<1> DEFINE line(r) == [c \in 1..Larger(Len(Row(mat, r)), cols) |-> Cell(mat, r, c, Zero)]
<1>1. \A r, c : Cell(mat, r, c, Zero) \in Entries /\ Row(mat, r) \in Seq(Entries)
  BY CellOfGrid, EntriesHold
<1>2. ASSUME NEW r
      PROVE  /\ line(r) \in Seq(Entries) /\ Len(line(r)) >= cols
             /\ \A c \in 1..Len(line(r)) : line(r)[c] = Cell(mat, r, c, Zero)
  <2>1. Larger(Len(Row(mat, r)), cols) \in Nat /\ Larger(Len(Row(mat, r)), cols) >= cols
    BY <1>1 DEF Larger
  <2>2. QED
    BY <1>1, <2>1
<1>3. Larger(Len(mat), rows) \in Nat /\ Larger(Len(mat), rows) >= rows
  BY DEF Larger, Grid
<1>4. Padded(mat, rows, cols) = [r \in 1..Larger(Len(mat), rows) |-> line(r)]
  BY DEF Padded
<1> HIDE DEF line
<1>5. QED
  BY <1>2, <1>3, <1>4 DEF Grid

LEMMA SetTyped ==
  ASSUME NEW row \in Seq(Entries), NEW c \in Nat, NEW e \in Entries
  PROVE  Set(row, c, e) \in Seq(Entries) /\ Len(Set(row, c, e)) >= Len(row)
<1>1. Larger(Len(row), c) \in Nat /\ Larger(Len(row), c) >= Len(row)
  BY DEF Larger
<1>2. QED
  BY <1>1, EntriesHold DEF Set

-----------------------------------------------------------------------------
(* The editor's invariant.  A model whose curves were not imported has a   *)
(* row of gains for every CV, each as long at least as its table of MVs,   *)
(* in either mode: this is what the engine's loader looks at once the      *)
(* model is saved as parametric.  Files hold models, and what is read goes *)
(* on with a model.                                                        *)
ModelType ==
  [mode : Modes, cvs : Seq(CvTags), mvs : Seq(InputTags), dvs : Seq(InputTags),
   targets : SUBSET InputTags, gain : Grid, gainDv : Grid, loaded : BOOLEAN,
   step : Grid, stepDv : Grid]
DiskType ==
  [mode : Modes, cvs : Seq(CvTags), mvs : Seq(InputTags), dvs : Seq(InputTags),
   targets : SUBSET InputTags, gain : Grid, gainDv : Grid, step : Grid, stepDv : Grid]
ReadType ==
  [what : {"model"}, file : DiskType, base : {None}]
  \cup [what : {"mdl"}, file : MdlFiles, base : ModelType]
  \cup [what : {"json"}, file : JsonFiles, base : ModelType]

Clean(m) ==
  ~m.loaded => /\ m.step = <<>> /\ m.stepDv = <<>> /\ Len(m.gain) = Len(m.cvs)
               /\ \A r \in 1..Len(m.gain) : Len(m.gain[r]) >= Len(m.mvs)
GoodModel(m) == m \in ModelType /\ Clean(m)

EditorTyped ==
  /\ GoodModel(model) /\ disk \in DiskType \cup {None} /\ reading \subseteq ReadType
  /\ deploying \in BOOLEAN /\ ops \in 0..MaxOps

LEMMA Untyped == \A m \in ModelType : GenerateJson(m) \in DiskType
BY DEF GenerateJson, ModelType, DiskType, HasTarget, Grid

LEMMA SizedModel ==
  ASSUME NEW m \in ModelType, m.loaded \/ (m.step = <<>> /\ m.stepDv = <<>>),
         NEW cvs \in Seq(CvTags), NEW mvs \in Seq(InputTags), NEW dvs \in Seq(InputTags)
  PROVE  GoodModel(UpdateMatrixSize(m, cvs, mvs, dvs))
<1> DEFINE new == UpdateMatrixSize(m, cvs, mvs, dvs)
<1>1. m.gain \in Grid /\ m.gainDv \in Grid /\ Len(cvs) \in Nat /\ Len(mvs) \in Nat /\ Len(dvs) \in Nat
  BY DEF ModelType
<1>2. /\ Resize(m.gain, Len(cvs), Len(mvs)) \in Grid
      /\ Len(Resize(m.gain, Len(cvs), Len(mvs))) = Len(cvs)
      /\ \A r \in 1..Len(cvs) : Len(Resize(m.gain, Len(cvs), Len(mvs))[r]) = Len(mvs)
  BY <1>1, ResizeTyped, ZenonT(40)
<1>3. Resize(m.gainDv, Len(cvs), Len(dvs)) \in Grid
  BY <1>1, ResizeTyped
<1>4. /\ new \in ModelType
      /\ new.gain = Resize(m.gain, Len(cvs), Len(mvs)) /\ new.cvs = cvs /\ new.mvs = mvs
      /\ new.loaded = m.loaded /\ new.step = m.step /\ new.stepDv = m.stepDv
  BY <1>2, <1>3 DEF UpdateMatrixSize, ModelType
<1> HIDE DEF new
<1>5. Clean(new)
  BY <1>1, <1>2, <1>4 DEF Clean
<1>6. QED
  BY <1>4, <1>5 DEF GoodModel, new

LEMMA MvMoved ==
  ASSUME NEW m, GoodModel(m), NEW i \in DOMAIN m.mvs
  PROVE  GoodModel(MoveMvToDv(m, i))
<1> DEFINE new == MoveMvToDv(m, i)
<1>1. /\ m.cvs \in Seq(CvTags) /\ m.mvs \in Seq(InputTags) /\ m.dvs \in Seq(InputTags)
      /\ m.gain \in Grid /\ m.gainDv \in Grid /\ m.step \in Grid /\ m.stepDv \in Grid
      /\ m \in ModelType /\ Len(m.cvs) \in Nat /\ m.mvs[i] \in InputTags
  BY DEF GoodModel, ModelType
<1>2. Without(m.mvs, i) \in Seq(InputTags) /\ Len(Without(m.mvs, i)) = Len(m.mvs) - 1
  BY <1>1, WithoutTyped
<1>3. /\ WithoutColumn(m.gain, i) \in Grid /\ WithoutColumn(m.step, i) \in Grid
      /\ Len(WithoutColumn(m.gain, i)) = Len(m.gain)
      /\ \A r \in 1..Len(m.gain) : Len(WithoutColumn(m.gain, i)[r])
                = IF i \in DOMAIN m.gain[r] THEN Len(m.gain[r]) - 1 ELSE Len(m.gain[r])
  BY <1>1, WithoutColumnTyped
<1>4. /\ WithColumn(m.gainDv, m.gain, i, Len(m.cvs), Zero) \in Grid
      /\ WithColumn(m.stepDv, m.step, i, Len(m.cvs), None) \in Grid
  BY <1>1, EntriesHold, WithColumnTyped
<1>5. /\ new \in ModelType /\ new.gain = WithoutColumn(m.gain, i) /\ new.cvs = m.cvs
      /\ new.mvs = Without(m.mvs, i) /\ new.loaded = m.loaded
      /\ ~m.loaded => new.step = m.step /\ new.stepDv = m.stepDv
  <2>1. Append(m.dvs, m.mvs[i]) \in Seq(InputTags)
    BY <1>1
  <2>2. QED
    BY <1>1, <1>2, <1>3, <1>4, <2>1 DEF MoveMvToDv, MovesCurves, ModelType
<1> HIDE DEF new
<1>6. ASSUME ~new.loaded, NEW r \in 1..Len(m.gain)
      PROVE  Len(new.gain[r]) >= Len(new.mvs)
  <2>1. Len(m.gain[r]) >= Len(m.mvs) /\ m.gain[r] \in Seq(Entries)
    BY <1>1, <1>5, <1>6 DEF GoodModel, Clean, Grid
  <2>2. i \in 1..Len(m.mvs) /\ Len(m.mvs) \in Nat
    BY <1>1
  <2>3. i \in DOMAIN m.gain[r]
    BY <2>1, <2>2
  <2>4. QED
    BY <1>2, <1>3, <1>5, <2>1, <2>2, <2>3
<1>7. Clean(new)
  BY <1>3, <1>5, <1>6 DEF GoodModel, Clean
<1>8. QED
  BY <1>5, <1>7 DEF GoodModel, new

LEMMA DvMoved ==
  ASSUME NEW m, GoodModel(m), NEW i \in DOMAIN m.dvs
  PROVE  GoodModel(MoveDvToMv(m, i))
<1> DEFINE new == MoveDvToMv(m, i)
<1>1. /\ m.cvs \in Seq(CvTags) /\ m.mvs \in Seq(InputTags) /\ m.dvs \in Seq(InputTags)
      /\ m.gain \in Grid /\ m.gainDv \in Grid /\ m.step \in Grid /\ m.stepDv \in Grid
      /\ m \in ModelType /\ Len(m.cvs) \in Nat /\ m.dvs[i] \in InputTags
  BY DEF GoodModel, ModelType
<1>2. Without(m.dvs, i) \in Seq(InputTags)
  BY <1>1, WithoutTyped
<1>3. WithoutColumn(m.gainDv, i) \in Grid /\ WithoutColumn(m.stepDv, i) \in Grid
  BY <1>1, WithoutColumnTyped
<1>4. /\ WithColumn(m.gain, m.gainDv, i, Len(m.cvs), Zero) \in Grid
      /\ WithColumn(m.step, m.stepDv, i, Len(m.cvs), None) \in Grid
      /\ Len(WithColumn(m.gain, m.gainDv, i, Len(m.cvs), Zero)) = Len(m.cvs)
      /\ \A r \in 1..Len(m.cvs) : Len(WithColumn(m.gain, m.gainDv, i, Len(m.cvs), Zero)[r])
                                    = Len(Row(m.gain, r)) + 1
  <2>1. m.gain \in Grid /\ m.gainDv \in Grid /\ Zero \in Entries /\ Len(m.cvs) \in Nat
    BY <1>1, EntriesHold
  <2>2. WithColumn(m.step, m.stepDv, i, Len(m.cvs), None) \in Grid
    BY <1>1, EntriesHold, WithColumnTyped
  <2>3. /\ WithColumn(m.gain, m.gainDv, i, Len(m.cvs), Zero) \in Grid
        /\ Len(WithColumn(m.gain, m.gainDv, i, Len(m.cvs), Zero)) = Len(m.cvs)
        /\ \A r \in 1..Len(m.cvs) : Len(WithColumn(m.gain, m.gainDv, i, Len(m.cvs), Zero)[r])
                                      = Len(Row(m.gain, r)) + 1
    <3>1. ASSUME NEW mat \in Grid, NEW from \in Grid, NEW rows \in Nat, NEW default \in Entries
          PROVE  /\ WithColumn(mat, from, i, rows, default) \in Grid
                 /\ Len(WithColumn(mat, from, i, rows, default)) = rows
                 /\ \A r \in 1..rows : Len(WithColumn(mat, from, i, rows, default)[r])
                                         = Len(Row(mat, r)) + 1
      BY WithColumnTyped
    <3>2. QED
      BY <2>1, <3>1, ZenonT(40)
  <2>4. QED
    BY <2>2, <2>3
<1>5. /\ new \in ModelType /\ new.gain = WithColumn(m.gain, m.gainDv, i, Len(m.cvs), Zero)
      /\ new.cvs = m.cvs /\ new.mvs = Append(m.mvs, m.dvs[i]) /\ new.loaded = m.loaded
      /\ ~m.loaded => new.step = m.step /\ new.stepDv = m.stepDv
  <2>1. Append(m.mvs, m.dvs[i]) \in Seq(InputTags)
    BY <1>1
  <2>2. QED
    BY <1>1, <1>2, <1>3, <1>4, <2>1 DEF MoveDvToMv, MovesCurves, ModelType
<1> HIDE DEF new
<1>6. ASSUME ~new.loaded, NEW r \in 1..Len(m.cvs)
      PROVE  Len(new.gain[r]) >= Len(new.mvs)
  <2>1. Len(m.gain[r]) >= Len(m.mvs) /\ m.gain[r] \in Seq(Entries) /\ r \in DOMAIN m.gain
    BY <1>1, <1>5, <1>6 DEF GoodModel, Clean, Grid
  <2>2. Row(m.gain, r) = m.gain[r] /\ Len(new.mvs) = Len(m.mvs) + 1 /\ Len(m.mvs) \in Nat
    BY <1>1, <1>5, <2>1 DEF Row
  <2>3. QED
    BY <1>4, <1>5, <2>1, <2>2
<1>7. Clean(new)
  BY <1>4, <1>5, <1>6 DEF GoodModel, Clean
<1>8. QED
  BY <1>5, <1>7 DEF GoodModel, new

(* Loading brings every matrix to size, whatever the file held.            *)
LEMMA Loaded == \A f \in DiskType : GoodModel(Load(f))
<1>1. SUFFICES ASSUME NEW f \in DiskType PROVE GoodModel(Load(f))
  OBVIOUS
<1> DEFINE m == LoadedModel(f)
<1>2. m \in ModelType
  <2>1. <<>> \in Grid /\ (f.step # <<>>) \in BOOLEAN
    BY DEF Grid
  <2>2. QED
    BY <2>1 DEF LoadedModel, DiskType, ModelType
<1>3. m.loaded \/ (m.step = <<>> /\ m.stepDv = <<>>)
  BY DEF LoadedModel
<1>4. f.cvs \in Seq(CvTags) /\ f.mvs \in Seq(InputTags) /\ f.dvs \in Seq(InputTags)
  BY DEF DiskType
<1> HIDE DEF m
<1>5. GoodModel(UpdateMatrixSize(m, f.cvs, f.mvs, f.dvs))
  BY <1>2, <1>3, <1>4, SizedModel
<1>6. QED
  BY <1>5 DEF Load, m

(* A legacy file gives a row for every CV and a curve for every MV.        *)
LEMMA CurvesTyped ==
  ASSUME NEW f \in MdlFiles
  PROVE  /\ f.cvs \in Seq(CvTags) /\ f.mvs \in Seq(InputTags)
         /\ Curves(f) \in Grid /\ Len(Curves(f)) = Len(f.cvs)
         /\ \A r \in 1..Len(f.cvs) :
              Len(Curves(f)[r]) = Len(f.mvs) /\ None \notin Elems(Curves(f)[r])
<1> DEFINE E == (CvTags \X InputTags) \cup {Zero}
           entry(r, c) == IF f.mvs[c] \in f.blocks[BlockOf(f)[r]].mvs
                          THEN <<f.cvs[r], f.mvs[c]>> ELSE Zero
<1>1. f.cvs \in Seq(CvTags) /\ f.mvs \in Seq(InputTags)
  BY EditorAssumption
<1>2. \A r \in 1..Len(f.cvs), c \in 1..Len(f.mvs) : entry(r, c) \in E
  BY <1>1
<1>3. E \subseteq Entries /\ None \notin E
  BY EditorAssumption DEF Entries
<1>4. Curves(f) = [r \in 1..Len(f.cvs) |-> [c \in 1..Len(f.mvs) |-> entry(r, c)]]
  BY DEF Curves
<1> HIDE DEF entry, E
<1>5. \A r \in 1..Len(f.cvs) : [c \in 1..Len(f.mvs) |-> entry(r, c)] \in Seq(E)
  BY <1>1, <1>2
<1>6. \A x \in Seq(E) : x \in Seq(Entries)
  BY <1>3
<1>7. Curves(f) \in Grid /\ Len(Curves(f)) = Len(f.cvs)
  <2>1. /\ Curves(f) = [r \in 1..Len(f.cvs) |-> Curves(f)[r]] /\ Len(f.cvs) \in Nat
        /\ \A r \in 1..Len(f.cvs) : Curves(f)[r] \in Seq(Entries)
    <3> DEFINE row(r) == [c \in 1..Len(f.mvs) |-> entry(r, c)]
    <3>1. Curves(f) = [r \in 1..Len(f.cvs) |-> row(r)]
      BY <1>4
    <3>2. \A r \in 1..Len(f.cvs) : row(r) \in Seq(Entries)
      BY <1>5, <1>6
    <3> HIDE DEF row
    <3>3. QED
      BY <1>1, <3>1, <3>2
  <2>2. QED
    BY <2>1, RowsMakeGrid
<1>8. ASSUME NEW r \in 1..Len(f.cvs)
      PROVE  Len(Curves(f)[r]) = Len(f.mvs) /\ None \notin Elems(Curves(f)[r])
  <2>1. Curves(f)[r] = [c \in 1..Len(f.mvs) |-> entry(r, c)] /\ Len(f.mvs) \in Nat
    BY <1>1, <1>4
  <2>2. QED
    BY <1>2, <1>3, <2>1 DEF Elems
<1>9. QED
  BY <1>1, <1>7, <1>8

LEMMA Uploaded ==
  ASSUME NEW m \in ModelType, NEW f \in MdlFiles
  PROVE  GoodModel(UploadMdl(m, f)) /\ CountsMatch(GenerateJson(UploadMdl(m, f)))
<1> DEFINE new == UploadMdl(m, f)
<1>1. /\ new \in ModelType /\ new.mode = "step_response" /\ new.loaded
      /\ new.cvs = f.cvs /\ new.mvs = f.mvs /\ new.step = Curves(f) /\ new.stepDv = <<>>
  <2>1. <<>> \in Grid /\ <<>> \in Seq(InputTags) /\ "step_response" \in Modes
    BY DEF Grid, Modes
  <2>2. QED
    BY <2>1, CurvesTyped DEF UploadMdl, ModelType
<1> HIDE DEF new
<1>2. GoodModel(new)
  BY <1>1 DEF GoodModel, Clean
<1>3. CountsMatch(GenerateJson(new))
  <2> DEFINE g == GenerateJson(new)
  <2>1. /\ g.mode = "step_response" /\ g.cvs = f.cvs /\ g.mvs = f.mvs
        /\ g.step = Curves(f) /\ g.stepDv = <<>>
    BY <1>1 DEF GenerateJson
  <2> HIDE DEF g
  <2>2. CountsMatch(g)
    BY <2>1, CurvesTyped DEF CountsMatch
  <2>3. QED
    BY <2>2 DEF g
<1>4. QED
  BY <1>2, <1>3 DEF new

LEMMA MergedTyped ==
  ASSUME NEW mat \in Grid, NEW cvs \in Seq(CvTags), NEW f \in JsonFiles, NEW col
  PROVE  /\ Merged(mat, cvs, f, col) \in Grid /\ Len(Merged(mat, cvs, f, col)) = Len(mat)
         /\ \A r \in 1..Len(mat) :
              /\ Len(Merged(mat, cvs, f, col)[r]) = Len(mat[r])
              /\ \A c \in 1..Len(mat[r]) :
                   Merged(mat, cvs, f, col)[r][c]
                     = IF r <= Len(cvs) /\ cvs[r] \in Elems(f.cvs) /\ c = col
                       THEN <<cvs[r], f.input>> ELSE mat[r][c]
<1> DEFINE new == Merged(mat, cvs, f, col)
           with(r) == r <= Len(cvs) /\ cvs[r] \in Elems(f.cvs)
<1>1. f.input \in InputTags /\ mat \in Seq(Seq(Entries)) /\ Len(mat) \in Nat
  BY EditorAssumption DEF Grid
<1>2. new = [r \in 1..Len(mat) |->
               IF with(r) THEN [mat[r] EXCEPT ![col] = <<cvs[r], f.input>>] ELSE mat[r]]
  BY DEF Merged
<1> HIDE DEF new
<1>3. ASSUME NEW r \in 1..Len(mat)
      PROVE  /\ new[r] \in Seq(Entries) /\ Len(new[r]) = Len(mat[r])
             /\ \A c \in 1..Len(mat[r]) :
                  new[r][c] = IF with(r) /\ c = col THEN <<cvs[r], f.input>> ELSE mat[r][c]
  <2>1. mat[r] \in Seq(Entries)
    BY <1>1
  <2>2. CASE ~with(r)
    <3>1. new[r] = mat[r]
      BY <1>2, <2>2
    <3> HIDE DEF with
    <3>2. QED
      BY <2>1, <2>2, <3>1
  <2>3. CASE with(r)
    <3>1. <<cvs[r], f.input>> \in Entries
      BY <1>1, <2>3, EntriesHold
    <3>2. new[r] = [mat[r] EXCEPT ![col] = <<cvs[r], f.input>>]
      BY <1>2, <2>3
    <3>3. /\ new[r] \in Seq(Entries) /\ Len(new[r]) = Len(mat[r])
          /\ \A c \in 1..Len(mat[r]) :
               new[r][c] = IF c = col THEN <<cvs[r], f.input>> ELSE mat[r][c]
      <4> DEFINE T == Entries
      <4>1. mat[r] \in Seq(T) /\ <<cvs[r], f.input>> \in T
        BY <2>1, <3>1
      <4> HIDE DEF T, with
      <4>2. /\ new[r] \in Seq(T) /\ Len(new[r]) = Len(mat[r])
            /\ \A c \in 1..Len(mat[r]) :
                 new[r][c] = IF c = col THEN <<cvs[r], f.input>> ELSE mat[r][c]
        BY <3>2, <4>1, Assigned
      <4>3. QED
        BY <4>2 DEF T
    <3> HIDE DEF with
    <3>4. QED
      BY <2>3, <3>3
  <2>4. QED
    BY <2>2, <2>3
<1>4. new \in Grid /\ Len(new) = Len(mat)
  <2>1. new = [r \in 1..Len(mat) |-> new[r]]
    BY <1>1, <1>2
  <2>2. QED
    BY <1>1, <1>3, <2>1, RowsMakeGrid
<1>5. QED
  BY <1>3, <1>4 DEF new

(* An import gives a model, whatever the sizes of its tables and matrices. *)
LEMMA Joined ==
  ASSUME NEW m \in ModelType, NEW f \in JsonFiles
  PROVE  /\ f.input \in InputTags /\ f.type \in {"MV", "DV"} /\ f.cvs \in Seq(CvTags)
         /\ NewCvs(m, f) \in Seq(CvTags) /\ m.cvs \o NewCvs(m, f) \in Seq(CvTags)
         /\ Len(m.cvs \o NewCvs(m, f)) = Len(m.cvs) + Len(NewCvs(m, f))
         /\ \A s \in Seq(InputTags) : WithInput(s, f.input) \in Seq(InputTags)
<1>1. /\ f.input \in InputTags /\ f.type \in {"MV", "DV"} /\ f.cvs \in Seq(CvTags)
      /\ m.cvs \in Seq(CvTags)
  BY EditorAssumption DEF ModelType
<1>2. NewCvs(m, f) \in Seq(CvTags)
  BY <1>1, KeptTyped DEF NewCvs
<1>3. \A s \in Seq(InputTags) : WithInput(s, f.input) \in Seq(InputTags)
  BY <1>1 DEF WithInput
<1>4. QED
  BY <1>1, <1>2, <1>3

(* A matrix with at least so many rows and columns, and mat's data.        *)
Extends(rows, mat, height, cols) ==
  /\ rows \in Grid /\ Len(rows) >= height
  /\ \A r \in 1..Len(rows) : /\ Len(rows[r]) >= cols
                             /\ \A c \in 1..Len(rows[r]) : rows[r][c] = Cell(mat, r, c, Zero)

LEMMA RowsForTyped ==
  ASSUME NEW m \in ModelType, NEW f \in JsonFiles, NEW mat \in Grid, NEW cols \in Nat
  PROVE  Extends(RowsFor(mat, m, f, cols), mat, Len(m.cvs \o NewCvs(m, f)), cols)
<1> DEFINE rows == Larger(Len(mat), Larger(Len(m.cvs), Len(f.cvs))) + Len(NewCvs(m, f))
<1>1. Len(m.cvs) \in Nat /\ Len(f.cvs) \in Nat /\ Len(NewCvs(m, f)) \in Nat /\ Len(mat) \in Nat
  BY Joined DEF ModelType, Grid
<1>2. rows \in Nat /\ rows >= Len(m.cvs) + Len(NewCvs(m, f))
  BY <1>1 DEF Larger
<1>3. RowsFor(mat, m, f, cols) = Padded(mat, rows, cols)
  BY DEF RowsFor
<1> HIDE DEF rows
<1>4. /\ Padded(mat, rows, cols) \in Grid /\ Len(Padded(mat, rows, cols)) >= rows
      /\ \A r \in 1..Len(Padded(mat, rows, cols)) :
           /\ Len(Padded(mat, rows, cols)[r]) >= cols
           /\ \A c \in 1..Len(Padded(mat, rows, cols)[r]) :
                Padded(mat, rows, cols)[r][c] = Cell(mat, r, c, Zero)
  BY <1>2, PaddedTyped
<1>5. Len(Padded(mat, rows, cols)) \in Nat
  BY <1>4 DEF Grid
<1>6. Len(Padded(mat, rows, cols)) >= Len(m.cvs \o NewCvs(m, f))
  BY <1>1, <1>2, <1>4, <1>5, Joined
<1>7. QED
  BY <1>3, <1>4, <1>6 DEF Extends

LEMMA Imported ==
  ASSUME NEW m \in ModelType, NEW f \in JsonFiles
  PROVE  GoodModel(ImportJson(m, f)) /\ Merges(m, f, ImportJson(m, f))
<1> DEFINE new == ImportJson(m, f)
           cvs == m.cvs \o NewCvs(m, f)
           mvs == IF f.type = "MV" THEN WithInput(m.mvs, f.input) ELSE m.mvs
           dvs == IF f.type = "DV" THEN WithInput(m.dvs, f.input) ELSE m.dvs
           step == RowsFor(m.step, m, f, Len(mvs))
           stepDv == RowsFor(m.stepDv, m, f, Len(dvs))
<1>1. /\ m.step \in Grid /\ m.stepDv \in Grid /\ m.targets \subseteq InputTags
      /\ f.input \in InputTags /\ f.type \in {"MV", "DV"} /\ cvs \in Seq(CvTags)
      /\ mvs \in Seq(InputTags) /\ dvs \in Seq(InputTags)
      /\ Len(mvs) \in Nat /\ Len(dvs) \in Nat /\ Len(cvs) \in Nat
  BY Joined, SMTT(20) DEF ModelType
<1>2. /\ step \in Grid /\ Len(step) >= Len(cvs)
      /\ \A r \in 1..Len(step) :
           /\ Len(step[r]) >= Len(mvs)
           /\ \A c \in 1..Len(step[r]) : step[r][c] = Cell(m.step, r, c, Zero)
  <2> HIDE DEF mvs
  <2>1. Extends(step, m.step, Len(cvs), Len(mvs))
    BY <1>1, RowsForTyped
  <2> HIDE DEF step, cvs
  <2>2. QED
    BY <2>1 DEF Extends
<1>3. /\ stepDv \in Grid /\ Len(stepDv) >= Len(cvs)
      /\ \A r \in 1..Len(stepDv) :
           /\ Len(stepDv[r]) >= Len(dvs)
           /\ \A c \in 1..Len(stepDv[r]) : stepDv[r][c] = Cell(m.stepDv, r, c, Zero)
  <2> HIDE DEF dvs
  <2>1. Extends(stepDv, m.stepDv, Len(cvs), Len(dvs))
    BY <1>1, RowsForTyped
  <2> HIDE DEF stepDv, cvs
  <2>2. QED
    BY <2>1 DEF Extends
<1>4. /\ new.mode = "step_response" /\ new.cvs = cvs /\ new.mvs = mvs /\ new.dvs = dvs
      /\ new.loaded = TRUE
      /\ new.step = IF f.type = "MV" THEN Merged(step, cvs, f, Index(mvs, f.input)) ELSE step
      /\ new.stepDv = IF f.type = "DV" THEN Merged(stepDv, cvs, f, Index(dvs, f.input)) ELSE stepDv
      /\ new.targets \subseteq InputTags /\ new.gain = m.gain /\ new.gainDv = m.gainDv
      /\ DOMAIN new = DOMAIN m
  <2> HIDE DEF cvs, mvs, dvs, step, stepDv
  <2>1. QED
    BY <1>1 DEF ImportJson, ModelType, cvs, mvs, dvs, step, stepDv
<1> HIDE DEF new, cvs, mvs, dvs, step, stepDv
<1>5. new.step \in Grid /\ new.stepDv \in Grid
  BY <1>1, <1>2, <1>3, <1>4, MergedTyped
<1>6. new \in ModelType
  BY <1>1, <1>4, <1>5 DEF ImportJson, ModelType, Modes, new
<1>7. GoodModel(new)
  BY <1>4, <1>6 DEF GoodModel, Clean
<1>8. CASE f.type = "MV"
  <2>1. ASSUME NEW r \in 1..Len(cvs), NEW c \in 1..Len(mvs)
        PROVE  Cell(new.step, r, c, None) =
                 IF cvs[r] \in Elems(f.cvs) /\ c = Index(mvs, f.input)
                 THEN <<cvs[r], f.input>> ELSE Cell(m.step, r, c, Zero)
    <3>1. Len(step) \in Nat /\ r \in 1..Len(step) /\ Len(step[r]) \in Nat /\ c \in 1..Len(step[r])
      BY <1>1, <1>2 DEF Grid
    <3>2. /\ new.step \in Grid /\ Len(new.step) = Len(step) /\ Len(new.step[r]) = Len(step[r])
          /\ new.step[r][c] = IF r <= Len(cvs) /\ cvs[r] \in Elems(f.cvs) /\ c = Index(mvs, f.input)
                              THEN <<cvs[r], f.input>> ELSE step[r][c]
      BY <1>1, <1>2, <1>4, <1>8, <3>1, MergedTyped
    <3>3. Cell(new.step, r, c, None) = new.step[r][c]
      BY <3>1, <3>2 DEF Cell, Row, Grid
    <3>4. r <= Len(cvs) /\ step[r][c] = Cell(m.step, r, c, Zero)
      BY <1>1, <1>2, <3>1
    <3>5. QED
      BY <3>2, <3>3, <3>4
  <2>2. Merges(m, f, new)
    <3>1. DOMAIN new.cvs = 1..Len(cvs) /\ DOMAIN new.mvs = 1..Len(mvs) /\ new.cvs = cvs /\ new.mvs = mvs
      BY <1>1, <1>4
    <3>2. QED
      BY <1>8, <2>1, <3>1 DEF Merges
  <2>3. QED
    BY <1>7, <2>2 DEF new
<1>9. CASE f.type = "DV"
  <2>1. ASSUME NEW r \in 1..Len(cvs), NEW c \in 1..Len(dvs)
        PROVE  Cell(new.stepDv, r, c, None) =
                 IF cvs[r] \in Elems(f.cvs) /\ c = Index(dvs, f.input)
                 THEN <<cvs[r], f.input>> ELSE Cell(m.stepDv, r, c, Zero)
    <3>1. /\ Len(stepDv) \in Nat /\ r \in 1..Len(stepDv) /\ Len(stepDv[r]) \in Nat
          /\ c \in 1..Len(stepDv[r])
      BY <1>1, <1>3 DEF Grid
    <3>2. /\ new.stepDv \in Grid /\ Len(new.stepDv) = Len(stepDv)
          /\ Len(new.stepDv[r]) = Len(stepDv[r])
          /\ new.stepDv[r][c] = IF r <= Len(cvs) /\ cvs[r] \in Elems(f.cvs) /\ c = Index(dvs, f.input)
                                THEN <<cvs[r], f.input>> ELSE stepDv[r][c]
      BY <1>1, <1>3, <1>4, <1>9, <3>1, MergedTyped
    <3>3. Cell(new.stepDv, r, c, None) = new.stepDv[r][c]
      BY <3>1, <3>2 DEF Cell, Row, Grid
    <3>4. r <= Len(cvs) /\ stepDv[r][c] = Cell(m.stepDv, r, c, Zero)
      BY <1>1, <1>3, <3>1
    <3>5. QED
      BY <3>2, <3>3, <3>4
  <2>2. Merges(m, f, new)
    <3>1. DOMAIN new.cvs = 1..Len(cvs) /\ DOMAIN new.dvs = 1..Len(dvs) /\ new.cvs = cvs /\ new.dvs = dvs
      BY <1>1, <1>4
    <3>2. QED
      BY <1>9, <2>1, <3>1 DEF Merges
  <2>3. QED
    BY <1>7, <2>2 DEF new
<1>10. QED
  BY <1>1, <1>8, <1>9

-----------------------------------------------------------------------------
(* Every operation keeps the editor's invariant.                           *)
LEMMA EditorStarts == GeneratorInit => EditorTyped
<1>1. SUFFICES ASSUME GeneratorInit PROVE EditorTyped
  OBVIOUS
<1>2. PICK t \in CvTags, x \in InputTags : model = DefaultModel(t, x)
  BY <1>1 DEF GeneratorInit, Init
<1>3. /\ <<t>> \in Seq(CvTags) /\ <<x>> \in Seq(InputTags) /\ <<>> \in Seq(InputTags)
      /\ << <<Zero>> >> \in Grid /\ <<>> \in Grid
  BY EntriesHold DEF Grid
<1>4. model \in ModelType
  BY <1>2, <1>3 DEF DefaultModel, ModelType, Modes
<1>5. Len(<<t>>) = 1 /\ Len(<<x>>) = 1 /\ Len(<< <<Zero>> >>) = 1
      /\ \A r \in 1..1 : Len(<< <<Zero>> >>[r]) >= 1
  OBVIOUS
<1>6. Clean(model)
  BY <1>2, <1>5 DEF DefaultModel, Clean
<1>7. QED
  <2>1. GoodModel(model)
    BY <1>4, <1>6 DEF GoodModel
  <2>2. disk = None /\ reading = {} /\ deploying = FALSE /\ ops = 0
    BY <1>1 DEF GeneratorInit, Init
  <2>3. MaxOps \in Nat
    BY EditorAssumption
  <2>4. ops \in 0..MaxOps
    BY <2>2, <2>3
  <2>5. disk \in DiskType \cup {None} /\ reading \subseteq ReadType /\ deploying \in BOOLEAN
    BY <2>2
  <2>6. QED
    BY <2>1, <2>4, <2>5 DEF EditorTyped

LEMMA EditorEdited ==
  ASSUME EditorTyped, NEW m, GoodModel(m), Edited(m)
  PROVE  EditorTyped'
<1>1. model' = m /\ UNCHANGED <<disk, reading, deploying>> /\ ops < MaxOps /\ ops' = ops + 1
  BY DEF Edited, Step
<1>2. GoodModel(model)'
  BY <1>1 DEF GoodModel, Clean
<1>3. ops' \in 0..MaxOps
  BY <1>1, EditorAssumption DEF EditorTyped
<1>4. QED
  BY <1>1, <1>2, <1>3 DEF EditorTyped

LEMMA TablesStep == ASSUME EditorTyped, Tables PROVE EditorTyped'
<1>1. /\ GoodModel(model) /\ model \in ModelType
      /\ model.cvs \in Seq(CvTags) /\ model.mvs \in Seq(InputTags) /\ model.dvs \in Seq(InputTags)
      /\ model.loaded \/ (model.step = <<>> /\ model.stepDv = <<>>)
  BY DEF EditorTyped, GoodModel, ModelType, Clean
<1>2. ASSUME NEW t \in CvTags, AddCv(t) PROVE EditorTyped'
  <2>1. Append(model.cvs, t) \in Seq(CvTags)
    BY <1>1
  <2>2. GoodModel(UpdateMatrixSize(model, Append(model.cvs, t), model.mvs, model.dvs))
    BY <1>1, <2>1, SizedModel
  <2>3. QED
    BY <1>2, <2>2, EditorEdited DEF AddCv
<1>3. ASSUME NEW x \in InputTags, AddMv(x) PROVE EditorTyped'
  <2>1. Append(model.mvs, x) \in Seq(InputTags)
    BY <1>1
  <2>2. /\ Untargeted(x) \in ModelType
        /\ Untargeted(x).loaded \/ (Untargeted(x).step = <<>> /\ Untargeted(x).stepDv = <<>>)
    BY <1>1 DEF Untargeted, ModelType
  <2>3. GoodModel(UpdateMatrixSize(Untargeted(x), model.cvs, Append(model.mvs, x), model.dvs))
    BY <1>1, <2>1, <2>2, SizedModel
  <2>4. QED
    BY <1>3, <2>3, EditorEdited DEF AddMv
<1>4. ASSUME NEW x \in InputTags, AddDv(x) PROVE EditorTyped'
  <2>1. Append(model.dvs, x) \in Seq(InputTags)
    BY <1>1
  <2>2. /\ Untargeted(x) \in ModelType
        /\ Untargeted(x).loaded \/ (Untargeted(x).step = <<>> /\ Untargeted(x).stepDv = <<>>)
    BY <1>1 DEF Untargeted, ModelType
  <2>3. GoodModel(UpdateMatrixSize(Untargeted(x), model.cvs, model.mvs, Append(model.dvs, x)))
    BY <1>1, <2>1, <2>2, SizedModel
  <2>4. QED
    BY <1>4, <2>3, EditorEdited DEF AddDv
<1>5. ASSUME NEW i \in DOMAIN model.cvs, RemoveCv(i) PROVE EditorTyped'
  <2>1. Without(model.cvs, i) \in Seq(CvTags)
    BY <1>1, WithoutTyped
  <2>2. GoodModel(UpdateMatrixSize(model, Without(model.cvs, i), model.mvs, model.dvs))
    BY <1>1, <2>1, SizedModel
  <2>3. QED
    BY <1>5, <2>2, EditorEdited DEF RemoveCv
<1>6. ASSUME NEW i \in DOMAIN model.mvs, RemoveMv(i) \/ ToDv(i) \/ SetTarget(i) PROVE EditorTyped'
  <2>1. CASE RemoveMv(i)
    <3>1. Without(model.mvs, i) \in Seq(InputTags)
      BY <1>1, WithoutTyped
    <3>2. GoodModel(UpdateMatrixSize(model, model.cvs, Without(model.mvs, i), model.dvs))
      BY <1>1, <3>1, SizedModel
    <3>3. QED
      BY <2>1, <3>2, EditorEdited DEF RemoveMv
  <2>2. CASE ToDv(i)
    BY <1>1, <2>2, MvMoved, EditorEdited DEF ToDv
  <2>3. CASE SetTarget(i)
    <3>1. model.mvs[i] \in InputTags
      BY <1>1
    <3>2. ASSUME NEW T \in SUBSET InputTags PROVE GoodModel([model EXCEPT !.targets = T])
      BY <1>1 DEF GoodModel, Clean, ModelType
    <3>3. /\ GoodModel([model EXCEPT !.targets = @ \cup {model.mvs[i]}])
          /\ GoodModel([model EXCEPT !.targets = @ \ {model.mvs[i]}])
      <4>1. model.targets \subseteq InputTags
        BY <1>1 DEF ModelType
      <4>2. QED
        BY <3>1, <3>2, <4>1
    <3>4. QED
      BY <2>3, <3>3, EditorEdited DEF SetTarget
  <2>4. QED
    BY <1>6, <2>1, <2>2, <2>3
<1>7. ASSUME NEW i \in DOMAIN model.dvs, RemoveDv(i) \/ ToMv(i) PROVE EditorTyped'
  <2>1. CASE RemoveDv(i)
    <3>1. Without(model.dvs, i) \in Seq(InputTags)
      BY <1>1, WithoutTyped
    <3>2. GoodModel(UpdateMatrixSize(model, model.cvs, model.mvs, Without(model.dvs, i)))
      BY <1>1, <3>1, SizedModel
    <3>3. QED
      BY <2>1, <3>2, EditorEdited DEF RemoveDv
  <2>2. CASE ToMv(i)
    BY <1>1, <2>2, DvMoved, EditorEdited DEF ToMv
  <2>3. QED
    BY <1>7, <2>1, <2>2
<1>8. QED
  BY <1>2, <1>3, <1>4, <1>5, <1>6, <1>7 DEF Tables

(* A cell that is written leaves its row as long as it was, or longer.     *)
LEMMA MatricesStep == ASSUME EditorTyped, Matrices PROVE EditorTyped'
<1>1. /\ model \in ModelType /\ Clean(model) /\ model.gain \in Grid /\ model.gainDv \in Grid
      /\ model.cvs \in Seq(CvTags) /\ model.mvs \in Seq(InputTags) /\ model.dvs \in Seq(InputTags)
  BY DEF EditorTyped, GoodModel, ModelType
<1>2. ASSUME NEW mat \in Grid, NEW r \in DOMAIN mat, NEW c \in Nat, NEW e \in Entries
      PROVE  /\ [mat EXCEPT ![r] = Set(@, c, e)] \in Grid
             /\ Len([mat EXCEPT ![r] = Set(@, c, e)]) = Len(mat)
             /\ \A k \in 1..Len(mat) : Len([mat EXCEPT ![r] = Set(@, c, e)][k]) >= Len(mat[k])
  <2> DEFINE T == Seq(Entries)
             row == Set(mat[r], c, e)
  <2>1. mat \in Seq(T) /\ mat[r] \in Seq(Entries) /\ Len(mat) \in Nat
    BY DEF Grid
  <2>2. row \in T /\ Len(row) >= Len(mat[r])
    BY <2>1, SetTyped
  <2>3. \A k \in 1..Len(mat) : Len(mat[k]) \in Nat
    BY <2>1
  <2> HIDE DEF T, row
  <2>4. /\ [mat EXCEPT ![r] = row] \in Seq(T) /\ Len([mat EXCEPT ![r] = row]) = Len(mat)
        /\ \A k \in 1..Len(mat) : [mat EXCEPT ![r] = row][k] = IF k = r THEN row ELSE mat[k]
    BY <2>1, <2>2, Assigned
  <2>5. \A k \in 1..Len(mat) : Len([mat EXCEPT ![r] = row][k]) >= Len(mat[k])
    BY <2>2, <2>3, <2>4
  <2>6. QED
    BY <2>4, <2>5 DEF Grid, T, row
<1>3. ASSUME NEW r \in DOMAIN model.cvs, NEW c \in DOMAIN model.mvs, EditMatrix(r, c)
      PROVE  EditorTyped'
  <2> DEFINE e == <<model.cvs[r], model.mvs[c]>>
             mat == [model.gain EXCEPT ![r] = Set(@, c, e)]
  <2>1. e \in Entries /\ c \in Nat /\ r \in DOMAIN model.gain
    BY <1>1, <1>3, EntriesHold DEF EditMatrix
  <2>2. /\ mat \in Grid /\ Len(mat) = Len(model.gain)
        /\ \A k \in 1..Len(model.gain) : Len(mat[k]) >= Len(model.gain[k])
    <3> HIDE DEF e
    <3>1. QED
      BY <1>1, <1>2, <2>1
  <2>3. Edited([model EXCEPT !.gain = mat])
    BY <1>3 DEF EditMatrix
  <2> HIDE DEF mat
  <2>4. [model EXCEPT !.gain = mat] \in ModelType
    BY <1>1, <2>2 DEF ModelType
  <2>5. Clean([model EXCEPT !.gain = mat])
    <3>1. ASSUME NEW k \in 1..Len(model.gain)
          PROVE  Len(mat[k]) \in Nat /\ Len(model.gain[k]) \in Nat
      <4>1. mat \in Seq(Seq(Entries)) /\ model.gain \in Seq(Seq(Entries)) /\ k \in 1..Len(mat)
        BY <1>1, <2>2 DEF Grid
      <4>2. mat[k] \in Seq(Entries) /\ model.gain[k] \in Seq(Entries)
        BY <4>1
      <4>3. QED
        BY <4>2
    <3>2. Len(model.mvs) \in Nat
      BY <1>1
    <3>3. QED
      BY <1>1, <2>2, <3>1, <3>2 DEF Clean, ModelType
  <2>6. QED
    BY <2>3, <2>4, <2>5, EditorEdited DEF GoodModel
<1>4. ASSUME NEW r \in DOMAIN model.cvs, NEW c \in DOMAIN model.dvs, EditMatrixDv(r, c)
      PROVE  EditorTyped'
  <2> DEFINE e == <<model.cvs[r], model.dvs[c]>>
             mat == [model.gainDv EXCEPT ![r] = Set(@, c, e)]
  <2>1. e \in Entries /\ c \in Nat /\ r \in DOMAIN model.gainDv
    BY <1>1, <1>4, EntriesHold DEF EditMatrixDv
  <2>2. mat \in Grid
    <3> HIDE DEF e
    <3>1. QED
      BY <1>1, <1>2, <2>1
  <2>3. Edited([model EXCEPT !.gainDv = mat])
    BY <1>4 DEF EditMatrixDv
  <2> HIDE DEF mat
  <2>4. GoodModel([model EXCEPT !.gainDv = mat])
    BY <1>1, <2>2 DEF GoodModel, Clean, ModelType
  <2>5. QED
    BY <2>3, <2>4, EditorEdited
<1>5. QED
  BY <1>3, <1>4 DEF Matrices

(* What is read goes on with a model.                                      *)
LEMMA AnswersStep ==
  ASSUME EditorTyped, Answers
  PROVE  /\ EditorTyped'
         /\ \A p \in reading : ReadMdl(p) => CountsMatch(GenerateJson(model'))
         /\ \A p \in reading : ReadJson(p) => Merges(p.base, p.file, model')
<1>1. ASSUME NEW p \in reading
      PROVE  /\ p.what = "model" => p.file \in DiskType
             /\ p.what = "mdl" => p.file \in MdlFiles /\ p.base \in ModelType
             /\ p.what = "json" => p.file \in JsonFiles /\ p.base \in ModelType
  <2>1. p \in ReadType
    BY DEF EditorTyped
  <2>2. QED
    BY <2>1 DEF ReadType
<1>2. ASSUME NEW p \in reading, NEW m, GoodModel(m), Ends(p), model' = m PROVE EditorTyped'
  <2>1. reading' \subseteq reading /\ UNCHANGED <<disk, deploying, ops>>
    BY <1>2 DEF Ends
  <2>2. GoodModel(model)'
    BY <1>2 DEF GoodModel, Clean
  <2>3. QED
    BY <2>1, <2>2 DEF EditorTyped
<1>3. ASSUME NEW p \in reading, ReadModel(p) PROVE EditorTyped'
  <2>1. GoodModel(Load(p.file))
    BY <1>1, <1>3, Loaded DEF ReadModel
  <2>2. QED
    BY <1>2, <1>3, <2>1 DEF ReadModel
<1>4. ASSUME NEW p \in reading, ReadMdl(p)
      PROVE  EditorTyped' /\ CountsMatch(GenerateJson(model'))
  <2>1. GoodModel(UploadMdl(p.base, p.file)) /\ CountsMatch(GenerateJson(UploadMdl(p.base, p.file)))
    BY <1>1, <1>4, Uploaded DEF ReadMdl
  <2>2. model' = UploadMdl(p.base, p.file) /\ Ends(p)
    BY <1>4 DEF ReadMdl
  <2>3. CountsMatch(GenerateJson(model'))
    BY <2>1, <2>2
  <2>4. QED
    BY <1>2, <2>1, <2>2, <2>3
<1>5. ASSUME NEW p \in reading, ReadJson(p)
      PROVE  EditorTyped' /\ Merges(p.base, p.file, model')
  <2>1. GoodModel(ImportJson(p.base, p.file)) /\ Merges(p.base, p.file, ImportJson(p.base, p.file))
    BY <1>1, <1>5, Imported DEF ReadJson
  <2>2. model' = ImportJson(p.base, p.file) /\ Ends(p)
    BY <1>5 DEF ReadJson
  <2>3. Merges(p.base, p.file, model')
    BY <2>1, <2>2
  <2>4. QED
    BY <1>2, <2>1, <2>2, <2>3
<1>6. ASSUME NEW p \in reading, ReadFails(p) PROVE EditorTyped'
  <2>1. model' = model /\ Ends(p) /\ GoodModel(model)
    BY <1>6 DEF ReadFails, EditorTyped
  <2>2. reading' \subseteq reading /\ UNCHANGED <<disk, deploying, ops>>
    BY <2>1 DEF Ends
  <2>3. QED
    BY <2>1, <2>2 DEF EditorTyped, GoodModel, Clean
<1>7. EditorTyped'
  BY <1>3, <1>4, <1>5, <1>6 DEF Answers
<1>8. QED
  BY <1>4, <1>5, <1>7

LEMMA EditorStep == ASSUME EditorTyped, [Next]_vars PROVE EditorTyped'
<1>1. /\ GoodModel(model) /\ model \in ModelType /\ disk \in DiskType \cup {None}
      /\ GenerateJson(model) \in DiskType /\ reading \subseteq ReadType
      /\ deploying \in BOOLEAN /\ ops \in 0..MaxOps /\ MaxOps \in Nat
  BY Untyped, EditorAssumption DEF EditorTyped, GoodModel
<1>2. Step => ops' \in 0..MaxOps
  BY <1>1 DEF Step
<1>3. CASE Tables
  BY <1>3, TablesStep
<1>4. CASE Matrices
  BY <1>4, MatricesStep
<1>5. CASE Answers
  BY <1>5, AnswersStep
<1>6. ASSUME NEW mode \in Modes, SetMode(mode) PROVE EditorTyped'
  <2>1. GoodModel([model EXCEPT !.mode = mode])
    BY <1>1 DEF GoodModel, Clean, ModelType
  <2>2. QED
    BY <1>6, <2>1, EditorEdited DEF SetMode
<1>7. CASE Download
  BY <1>1, <1>2, <1>7 DEF Download, EditorTyped, GoodModel, Clean
<1>8. CASE Deploy
  BY <1>1, <1>2, <1>8 DEF Deploy, EditorTyped, GoodModel, Clean
<1>9. CASE Deployed
  BY <1>1, <1>9 DEF Deployed, EditorTyped, GoodModel, Clean
<1>10. ASSUME NEW what, NEW f, NEW base, Begin(what, f, base),
              [what |-> what, file |-> f, base |-> base] \in ReadType
       PROVE  EditorTyped'
  BY <1>1, <1>2, <1>10 DEF Begin, EditorTyped, GoodModel, Clean
<1>11. CASE PickModel
  <2>1. [what |-> "model", file |-> disk, base |-> None] \in ReadType
    BY <1>1, <1>11 DEF PickModel, ReadType
  <2>2. QED
    BY <1>10, <1>11, <2>1 DEF PickModel
<1>12. ASSUME NEW f \in MdlFiles, PickMdl(f) PROVE EditorTyped'
  <2>1. [what |-> "mdl", file |-> f, base |-> model] \in ReadType
    BY <1>1 DEF ReadType
  <2>2. QED
    BY <1>10, <1>12, <2>1 DEF PickMdl
<1>13. ASSUME NEW f \in JsonFiles, PickJson(f) PROVE EditorTyped'
  <2>1. [what |-> "json", file |-> f, base |-> model] \in ReadType
    BY <1>1 DEF ReadType
  <2>2. QED
    BY <1>10, <1>13, <2>1 DEF PickJson
<1>14. CASE UNCHANGED vars
  BY <1>1, <1>14 DEF vars, EditorTyped, GoodModel, Clean
<1>15. QED
  BY <1>3, <1>4, <1>5, <1>6, <1>7, <1>8, <1>9, <1>11, <1>12, <1>13, <1>14 DEF Next

LEMMA EditorKept == EditorTyped /\ [GeneratorNext]_<<vars, toolVars>> => EditorTyped'
<1>1. [GeneratorNext]_<<vars, toolVars>> => [Next]_vars
  BY DEF GeneratorNext
<1>2. QED
  BY <1>1, EditorStep

LEMMA EditorInvFollows == EditorTyped => EditorInv
<1>1. SUFFICES ASSUME EditorTyped PROVE EditorInv
  OBVIOUS
<1>2. model \in ModelType /\ Clean(model) /\ deploying \in BOOLEAN /\ ops \in 0..MaxOps
  BY <1>1 DEF EditorTyped, GoodModel
<1>3. TypeOK
  BY <1>2 DEF TypeOK, ModelType, Clean, Grid
<1>4. CleanModelsLoad
  <2>1. SUFFICES ASSUME ~model.loaded, model.mode = "parametric"
                 PROVE  CountsMatch(GenerateJson(model))
    BY DEF CleanModelsLoad
  <2> DEFINE g == GenerateJson(model)
  <2>2. g.mode = "parametric" /\ g.gain = model.gain /\ g.cvs = model.cvs /\ g.mvs = model.mvs
    BY <2>1 DEF GenerateJson
  <2> HIDE DEF g
  <2>3. CountsMatch(g)
    BY <1>2, <2>1, <2>2 DEF Clean, CountsMatch
  <2>4. QED
    BY <2>3 DEF g
<1>5. NodesCoverModel
  BY DEF NodesCoverModel, NodeIds, GenerateYaml, MvNodes, GenerateJson
<1>6. QED
  BY <1>3, <1>4, <1>5 DEF EditorInv

(* The editor keeps its types; a model without imported coefficients, once *)
(* saved as parametric, has the rows and columns the loader wants after    *)
(* any sequence of additions, removals, moves, loads and cells written;    *)
(* and the node file names every node the model file names                 *)
(* (updateMatrixSize, moveMvToDv, generateYaml).                           *)
THEOREM EditorHolds == GeneratorSpec => []EditorInv
BY EditorStarts, EditorKept, EditorInvFollows, PTL DEF GeneratorSpec

(* A legacy file that parses gives a curve for every pair of its CVs and   *)
(* MVs, so that the model saved has the rows and columns the loader wants  *)
(* (handleStepResponseUpload); the length of the curves is not claimed.    *)
THEOREM UploadsFillTables == GeneratorSpec => UploadsFill
<1>1. EditorTyped => [\A p \in reading : ReadMdl(p) => CountsMatch(GenerateJson(model'))]_vars
  BY AnswersStep DEF Answers
<1>2. QED
  BY <1>1, EditorStarts, EditorKept, PTL DEF GeneratorSpec, UploadsFill

(* Every response of an imported file ends at its pair, and no other pair  *)
(* is changed (handleStepResponseJsonImport).                              *)
THEOREM ImportsMerge == GeneratorSpec => ImportMerges
<1>1. EditorTyped => [\A p \in reading : ReadJson(p) => Merges(p.base, p.file, model')]_vars
  BY AnswersStep DEF Answers
<1>2. QED
  BY <1>1, EditorStarts, EditorKept, PTL DEF GeneratorSpec, ImportMerges

-----------------------------------------------------------------------------
(* Inputs moved between the tables.  Names that occur once have one index, *)
(* in a table and in what a move makes of it.                              *)
Unique(s) == \A j, k \in 1..Len(s) : s[j] = s[k] => j = k

LEMMA DistinctIsUnique ==
  ASSUME NEW T, NEW s \in Seq(T), Distinct(s)
  PROVE  Unique(s)
<1> DEFINE S == 1..Len(s)
<1>1. Len(s) \in Nat /\ DOMAIN s = S /\ s = [k \in S |-> s[k]]
  OBVIOUS
<1>2. IsFiniteSet(S) /\ Cardinality(S) = Len(s)
  <2>1. 1 \in Int /\ Len(s) \in Int
    BY <1>1
  <2>2. /\ IsFiniteSet(1..Len(s))
        /\ Cardinality(1..Len(s)) = IF 1 > Len(s) THEN 0 ELSE Len(s) - 1 + 1
    BY <2>1, FS_Interval
  <2>3. QED
    BY <1>1, <2>2
<1> HIDE DEF S
<1>3. s \in [S -> Elems(s)] /\ \A x \in Elems(s) : \E k \in S : s[k] = x
  BY <1>1 DEF Elems
<1>4. s \in Surjection(S, Elems(s))
  BY <1>3 DEF Surjection
<1>5. Cardinality(S) = Cardinality(Elems(s))
  BY <1>2 DEF Distinct
<1>6. s \in Injection(S, Elems(s))
  BY <1>2, <1>4, <1>5, FS_SurjSameCardinalityImpliesInj
<1>7. \A j, k \in S : s[j] = s[k] => j = k
  BY <1>3, <1>6 DEF Injection, IsInjective
<1>8. QED
  BY <1>7 DEF Unique, S

LEMMA IndexIs ==
  ASSUME NEW T, NEW s \in Seq(T), Unique(s), NEW k \in 1..Len(s)
  PROVE  Index(s, s[k]) = k /\ s[k] \in Elems(s)
BY DEF Index, Unique, Elems

LEMMA WithoutUnique ==
  ASSUME NEW T, NEW s \in Seq(T), Unique(s), NEW i \in 1..Len(s)
  PROVE  /\ Unique(Without(s, i)) /\ Elems(Without(s, i)) = Elems(s) \ {s[i]}
         /\ \A k \in 1..Len(s) : k < i => Index(Without(s, i), s[k]) = k
         /\ \A k \in 1..Len(s) : k > i => Index(Without(s, i), s[k]) = k - 1
<1> DEFINE w == Without(s, i)
<1>1. Len(s) \in Nat /\ Len(w) = Len(s) - 1 /\ w \in Seq(T) /\ DOMAIN w = 1..(Len(s) - 1)
      /\ DOMAIN s = 1..Len(s)
  BY WithoutTyped
<1>2. \A k \in 1..(Len(s) - 1) : w[k] = IF k < i THEN s[k] ELSE s[k+1]
  BY <1>1 DEF Without
<1> HIDE DEF w
<1>3. Unique(w)
  BY <1>1, <1>2 DEF Unique
<1>4. \A k \in 1..Len(s) : k < i => k \in 1..Len(w) /\ w[k] = s[k]
  BY <1>1, <1>2
<1>5. \A k \in 1..Len(s) : k > i => k - 1 \in 1..Len(w) /\ w[k-1] = s[k]
  BY <1>1, <1>2
<1>6. Elems(w) = Elems(s) \ {s[i]}
  <2>1. ASSUME NEW x \in Elems(w) PROVE x \in Elems(s) \ {s[i]}
    <3>1. PICK k \in 1..Len(w) : x = w[k]
      BY <1>1 DEF Elems
    <3>2. \E j \in 1..Len(s) : x = s[j] /\ j # i
      BY <1>1, <1>2, <3>1
    <3>3. QED
      BY <1>1, <3>2 DEF Elems, Unique
  <2>2. ASSUME NEW x \in Elems(s) \ {s[i]} PROVE x \in Elems(w)
    <3>1. PICK k \in 1..Len(s) : x = s[k]
      BY <1>1 DEF Elems
    <3>2. k < i \/ k > i
      BY <2>2, <3>1
    <3>3. \E j \in 1..Len(w) : x = w[j]
      BY <1>4, <1>5, <3>1, <3>2
    <3>4. QED
      BY <1>1, <3>3 DEF Elems
  <2>3. QED
    BY <2>1, <2>2
<1>7. \A k \in 1..Len(s) : k < i => Index(w, s[k]) = k
  BY <1>1, <1>3, <1>4, IndexIs
<1>8. \A k \in 1..Len(s) : k > i => Index(w, s[k]) = k - 1
  BY <1>1, <1>3, <1>5, IndexIs
<1>9. QED
  BY <1>3, <1>6, <1>7, <1>8 DEF w

LEMMA AppendUnique ==
  ASSUME NEW T, NEW s \in Seq(T), Unique(s), NEW x \in T, x \notin Elems(s)
  PROVE  /\ Elems(Append(s, x)) = Elems(s) \cup {x}
         /\ \A k \in 1..Len(s) : Index(Append(s, x), s[k]) = k
         /\ Index(Append(s, x), x) = Len(s) + 1
<1> DEFINE a == Append(s, x)
<1>1. Len(s) \in Nat /\ Len(a) = Len(s) + 1 /\ a \in Seq(T) /\ a[Len(s)+1] = x
      /\ \A k \in 1..Len(s) : a[k] = s[k]
  OBVIOUS
<1>2. DOMAIN a = 1..(Len(s) + 1) /\ DOMAIN s = 1..Len(s)
  OBVIOUS
<1> HIDE DEF a
<1>3. \A k \in 1..Len(s) : s[k] # x
  BY <1>2 DEF Elems
<1>4. \A k \in 1..Len(a) : k \in 1..Len(s) \/ k = Len(s) + 1
  BY <1>1
<1>5. Unique(a)
  BY <1>1, <1>3, <1>4 DEF Unique
<1>6. Elems(a) = Elems(s) \cup {x}
  BY <1>1, <1>2, <1>4 DEF Elems
<1>7. \A k \in 1..Len(s) : k \in 1..Len(a) /\ Index(a, a[k]) = k
  BY <1>1, <1>5, IndexIs
<1>8. Len(s) + 1 \in 1..Len(a) /\ Index(a, a[Len(s)+1]) = Len(s) + 1
  BY <1>1, <1>5, IndexIs
<1>9. QED
  BY <1>1, <1>6, <1>7, <1>8 DEF a

(* The input x of a table a leaves it for a table b, and its column leaves *)
(* a's matrix for b's: what the tables and matrices become.                *)
Carries(a, A, b, B, a2, A2, b2, B2, rows, x) ==
  /\ Sized(A2, rows, Len(a2)) /\ Sized(B2, rows, Len(b2))
  /\ Elems(a2) = Elems(a) \ {x} /\ Elems(b2) = Elems(b) \cup {x}
  /\ \A r \in 1..rows :
       /\ Cell(B2, r, Index(b2, x), None) = Cell(A, r, Index(a, x), None)
       /\ \A y \in Elems(a) \ {x} :
            Cell(A2, r, Index(a2, y), None) = Cell(A, r, Index(a, y), None)
       /\ \A y \in Elems(b) :
            Cell(B2, r, Index(b2, y), None) = Cell(B, r, Index(b, y), None)

LEMMA Carried ==
  ASSUME NEW a \in Seq(InputTags), NEW b \in Seq(InputTags), Unique(a), Unique(b),
         Elems(a) \cap Elems(b) = {}, NEW A \in Grid, NEW B \in Grid, NEW rows \in Nat,
         Sized(A, rows, Len(a)), Sized(B, rows, Len(b)) \/ (b = <<>> /\ B = <<>>),
         NEW i \in DOMAIN a, NEW default \in Entries
  PROVE  Carries(a, A, b, B, Without(a, i), WithoutColumn(A, i),
                 Append(b, a[i]), WithColumn(B, A, i, rows, default), rows, a[i])
<1> SUFFICES ASSUME NEW a2, a2 = Without(a, i), NEW b2, b2 = Append(b, a[i]),
                    NEW A2, A2 = WithoutColumn(A, i), NEW B2, B2 = WithColumn(B, A, i, rows, default)
             PROVE  Carries(a, A, b, B, a2, A2, b2, B2, rows, a[i])
  OBVIOUS
<1>1. /\ Len(a) \in Nat /\ Len(b) \in Nat /\ i \in 1..Len(a) /\ a[i] \in InputTags
      /\ a[i] \in Elems(a) /\ a[i] \notin Elems(b)
  <2>1. Len(a) \in Nat /\ Len(b) \in Nat /\ i \in 1..Len(a) /\ a[i] \in InputTags
    OBVIOUS
  <2>2. a[i] \in Elems(a)
    BY DEF Elems
  <2>3. QED
    BY <2>1, <2>2
<1>2. /\ Elems(a2) = Elems(a) \ {a[i]} /\ Len(a2) = Len(a) - 1
      /\ \A k \in 1..Len(a) : k < i => Index(a2, a[k]) = k
      /\ \A k \in 1..Len(a) : k > i => Index(a2, a[k]) = k - 1
  BY <1>1, WithoutUnique, WithoutTyped
<1>3. /\ Elems(b2) = Elems(b) \cup {a[i]} /\ Len(b2) = Len(b) + 1
      /\ \A k \in 1..Len(b) : Index(b2, b[k]) = k
      /\ Index(b2, a[i]) = Len(b) + 1
  BY <1>1, AppendUnique
<1>4. ASSUME NEW r \in 1..rows
      PROVE  /\ r \in DOMAIN A /\ A[r] \in Seq(Entries) /\ Len(A[r]) = Len(a)
             /\ Row(B, r) \in Seq(Entries) /\ Len(Row(B, r)) = Len(b)
  <2>1. r \in DOMAIN A /\ A[r] \in Seq(Entries) /\ Len(A[r]) = Len(a)
    BY DEF Sized, Grid
  <2>2. Row(B, r) \in Seq(Entries)
    BY CellOfGrid, EntriesHold
  <2>3. CASE Sized(B, rows, Len(b))
    <3>1. r \in DOMAIN B /\ Len(B[r]) = Len(b)
      BY <2>3 DEF Sized, Grid
    <3>2. QED
      BY <2>1, <2>2, <3>1 DEF Row
  <2>4. CASE b = <<>> /\ B = <<>>
    BY <2>1, <2>2, <2>4 DEF Row
  <2>5. QED
    BY <2>3, <2>4
<1>5. /\ A2 \in Grid /\ Len(A2) = rows
      /\ \A r \in 1..rows : A2[r] = Without(A[r], i) /\ Len(A2[r]) = Len(a) - 1
  <2>1. A2 \in Grid /\ Len(A2) = Len(A) /\ Len(A) = rows
    BY WithoutColumnTyped DEF Sized
  <2>2. ASSUME NEW r \in 1..rows PROVE A2[r] = Without(A[r], i) /\ Len(A2[r]) = Len(a) - 1
    <3>1. i \in DOMAIN A[r] /\ A[r] \in Seq(Entries) /\ Len(A[r]) = Len(a)
      BY <1>1, <1>4
    <3>2. A2[r] = Without(A[r], i)
      BY <2>1, <3>1 DEF WithoutColumn
    <3>3. Len(Without(A[r], i)) = Len(A[r]) - 1
      BY <1>1, <3>1 DEF Without
    <3>4. QED
      BY <3>1, <3>2, <3>3
  <2>3. QED
    BY <2>1, <2>2
<1>6. /\ B2 \in Grid /\ Len(B2) = rows
      /\ \A r \in 1..rows : /\ B2[r] = Append(Row(B, r), Cell(A, r, i, default))
                            /\ Len(B2[r]) = Len(b) + 1
  <2>1. /\ B2 \in Grid /\ Len(B2) = rows
        /\ \A r \in 1..rows : Len(B2[r]) = Len(Row(B, r)) + 1
    BY WithColumnTyped
  <2>2. \A r \in 1..rows : B2[r] = Append(Row(B, r), Cell(A, r, i, default))
    BY DEF WithColumn
  <2>3. QED
    BY <1>4, <2>1, <2>2
<1>7. Sized(A2, rows, Len(a2)) /\ Sized(B2, rows, Len(b2))
  BY <1>2, <1>3, <1>5, <1>6 DEF Sized
<1>8. ASSUME NEW r \in 1..rows
      PROVE  Cell(B2, r, Index(b2, a[i]), None) = Cell(A, r, Index(a, a[i]), None)
  <2>1. r \in DOMAIN B2 /\ Row(B2, r) = B2[r] /\ Len(b) + 1 \in DOMAIN B2[r]
    BY <1>1, <1>6 DEF Row, Grid
  <2>2. B2[r][Len(b)+1] = Cell(A, r, i, default)
    BY <1>4, <1>6
  <2>3. Index(a, a[i]) = i
    BY <1>1, IndexIs
  <2>4. i \in DOMAIN Row(A, r)
    BY <1>1, <1>4 DEF Row
  <2>5. QED
    BY <1>3, <2>1, <2>2, <2>3, <2>4 DEF Cell
<1>9. ASSUME NEW r \in 1..rows, NEW x \in Elems(a) \ {a[i]}
      PROVE  Cell(A2, r, Index(a2, x), None) = Cell(A, r, Index(a, x), None)
  <2>1. PICK k \in 1..Len(a) : x = a[k]
    BY DEF Elems
  <2>2. Index(a, x) = k /\ (k < i \/ k > i)
    <3>1. Index(a, x) = k
      BY <2>1, IndexIs
    <3>2. k # i
      BY <2>1
    <3>3. QED
      BY <1>1, <3>1, <3>2
  <2>3. /\ r \in DOMAIN A2 /\ Row(A2, r) = A2[r] /\ Row(A, r) = A[r] /\ k \in DOMAIN A[r]
        /\ A2[r] = Without(A[r], i) /\ DOMAIN A2[r] = 1..(Len(a) - 1)
    <3>1. A2[r] \in Seq(Entries) /\ r \in DOMAIN A2
      BY <1>5 DEF Grid
    <3>2. QED
      BY <1>1, <1>4, <1>5, <3>1 DEF Row
  <2>4. CASE k < i
    <3>1. Index(a2, x) = k /\ k \in 1..(Len(a) - 1) /\ A2[r][k] = A[r][k]
      <4>1. Index(a2, x) = k /\ k \in 1..(Len(a) - 1) /\ Len(A[r]) = Len(a)
        BY <1>1, <1>2, <1>4, <2>1, <2>4
      <4>2. Without(A[r], i)[k] = A[r][k]
        BY <2>4, <4>1 DEF Without
      <4>3. QED
        BY <2>3, <4>1, <4>2
    <3>2. QED
      BY <2>2, <2>3, <3>1 DEF Cell
  <2>5. CASE k > i
    <3>1. Index(a2, x) = k - 1 /\ k - 1 \in 1..(Len(a) - 1) /\ A2[r][k-1] = A[r][k]
      <4>1. /\ Index(a2, x) = k - 1 /\ k - 1 \in 1..(Len(a) - 1) /\ Len(A[r]) = Len(a)
            /\ ~(k - 1 < i) /\ (k - 1) + 1 = k
        BY <1>1, <1>2, <1>4, <2>1, <2>5
      <4>2. Without(A[r], i)[k-1] = A[r][k]
        BY <4>1 DEF Without
      <4>3. QED
        BY <2>3, <4>1, <4>2
    <3>2. QED
      BY <2>2, <2>3, <3>1 DEF Cell
  <2>6. QED
    BY <2>2, <2>4, <2>5
<1>10. ASSUME NEW r \in 1..rows, NEW x \in Elems(b)
       PROVE  Cell(B2, r, Index(b2, x), None) = Cell(B, r, Index(b, x), None)
  <2>1. PICK k \in 1..Len(b) : x = b[k]
    BY DEF Elems
  <2>2. Index(b, x) = k /\ Index(b2, x) = k
    BY <1>3, <2>1, IndexIs
  <2>3. r \in DOMAIN B2 /\ Row(B2, r) = B2[r] /\ k \in DOMAIN B2[r] /\ B2[r][k] = Row(B, r)[k]
    <3> DEFINE e == Cell(A, r, i, default)
    <3>1. r \in DOMAIN B2 /\ B2[r] \in Seq(Entries)
      BY <1>6 DEF Grid
    <3>2. Row(B2, r) = B2[r]
      BY <3>1 DEF Row
    <3>3. B2[r] = Append(Row(B, r), e) /\ Row(B, r) \in Seq(Entries) /\ Len(Row(B, r)) = Len(b)
      BY <1>4, <1>6
    <3> HIDE DEF e
    <3>4. k \in DOMAIN B2[r] /\ B2[r][k] = Row(B, r)[k]
      BY <1>1, <3>3
    <3>5. QED
      BY <3>1, <3>2, <3>4
  <2>4. r \in DOMAIN B /\ Row(B, r) = B[r] /\ k \in DOMAIN Row(B, r)
    <3>1. k \in DOMAIN Row(B, r)
      BY <1>4
    <3>2. QED
      BY <3>1 DEF Row
  <2>5. QED
    BY <2>2, <2>3, <2>4 DEF Cell
<1>11. QED
  BY <1>2, <1>3, <1>7, <1>8, <1>9, <1>10 DEF Carries

LEMMA TablesUnique ==
  ASSUME NEW a \in Seq(InputTags), NEW b \in Seq(InputTags), Distinct(a \o b)
  PROVE  /\ Unique(a) /\ Unique(b) /\ Elems(a) \cap Elems(b) = {}
         /\ Elems(a \o b) = Elems(a) \cup Elems(b)
<1>1. /\ a \o b \in Seq(InputTags) /\ Len(a) \in Nat /\ Len(b) \in Nat
      /\ Len(a \o b) = Len(a) + Len(b)
      /\ \A k \in 1..Len(a) : (a \o b)[k] = a[k]
      /\ \A k \in 1..Len(b) : (a \o b)[Len(a) + k] = b[k]
  OBVIOUS
<1>2. Unique(a \o b)
  BY <1>1, DistinctIsUnique
<1> DEFINE c == a \o b
<1>3. /\ DOMAIN a = 1..Len(a) /\ DOMAIN b = 1..Len(b) /\ DOMAIN c = 1..(Len(a) + Len(b))
      /\ \A k \in DOMAIN c : k \in 1..Len(a) \/ \E j \in 1..Len(b) : k = Len(a) + j
  <2>1. DOMAIN a = 1..Len(a) /\ DOMAIN b = 1..Len(b) /\ DOMAIN c = 1..(Len(a) + Len(b))
    BY <1>1
  <2>2. ASSUME NEW k \in 1..(Len(a) + Len(b)), k \notin 1..Len(a)
        PROVE  \E j \in 1..Len(b) : k = Len(a) + j
    <3>1. k - Len(a) \in 1..Len(b) /\ k = Len(a) + (k - Len(a))
      BY <1>1, <2>2
    <3>2. QED
      BY <3>1
  <2> HIDE DEF c
  <2>3. QED
    BY <2>1, <2>2
<1> HIDE DEF c
<1>4. Unique(a)
  BY <1>1, <1>2 DEF Unique, c
<1>5. Unique(b)
  <2>1. ASSUME NEW j \in 1..Len(b), NEW k \in 1..Len(b), b[j] = b[k] PROVE j = k
    <3>1. Len(a) + j \in 1..Len(a \o b) /\ Len(a) + k \in 1..Len(a \o b)
      BY <1>1
    <3>2. Len(a) + j = Len(a) + k
      BY <1>1, <1>2, <2>1, <3>1 DEF Unique
    <3>3. QED
      BY <1>1, <3>2
  <2>2. QED
    BY <2>1 DEF Unique
<1>6. ASSUME NEW j \in 1..Len(a), NEW k \in 1..Len(b), a[j] = b[k] PROVE FALSE
  <2>1. j \in 1..Len(a \o b) /\ Len(a) + k \in 1..Len(a \o b)
    BY <1>1
  <2>2. j = Len(a) + k
    BY <1>1, <1>2, <1>6, <2>1 DEF Unique
  <2>3. QED
    BY <1>1, <2>2
<1>7. Elems(a) \cap Elems(b) = {}
  BY <1>3, <1>6 DEF Elems
<1>8. Elems(c) = Elems(a) \cup Elems(b)
  <2>1. /\ \A k \in 1..Len(a) : k \in DOMAIN c /\ c[k] = a[k]
        /\ \A k \in 1..Len(b) : Len(a) + k \in DOMAIN c /\ c[Len(a) + k] = b[k]
    BY <1>1, <1>3 DEF c
  <2>2. ASSUME NEW x \in Elems(c) PROVE x \in Elems(a) \cup Elems(b)
    <3>1. PICK k \in DOMAIN c : x = c[k]
      BY DEF Elems
    <3>2. CASE k \in 1..Len(a)
      BY <1>3, <2>1, <3>1, <3>2 DEF Elems
    <3>3. CASE \E j \in 1..Len(b) : k = Len(a) + j
      BY <1>3, <2>1, <3>1, <3>3 DEF Elems
    <3>4. QED
      BY <1>3, <3>2, <3>3
  <2>3. Elems(a) \subseteq Elems(c)
    BY <1>3, <2>1 DEF Elems
  <2>4. Elems(b) \subseteq Elems(c)
    BY <1>3, <2>1 DEF Elems
  <2>5. QED
    BY <2>2, <2>3, <2>4
<1>9. QED
  BY <1>4, <1>5, <1>7, <1>8 DEF c

(* The matrices of the mode in use.                                        *)
OfMvs(m) == IF m.mode = "parametric" THEN m.gain ELSE m.step
OfDvs(m) == IF m.mode = "parametric" THEN m.gainDv ELSE m.stepDv

Same(m, new) ==
  \A r \in DOMAIN m.cvs, x \in Elems(m.mvs \o m.dvs) : Datum(new, r, x) = Datum(m, r, x)

LEMMA DatumOf ==
  ASSUME NEW m, NEW r, NEW x
  PROVE  /\ x \in Elems(m.mvs) => Datum(m, r, x) = Cell(OfMvs(m), r, Index(m.mvs, x), None)
         /\ x \notin Elems(m.mvs) => Datum(m, r, x) = Cell(OfDvs(m), r, Index(m.dvs, x), None)
BY DEF Datum, OfMvs, OfDvs

LEMMA FitsMeans ==
  ASSUME NEW m
  PROVE  Fits(m) <=> /\ Sized(OfMvs(m), Len(m.cvs), Len(m.mvs))
                     /\ Sized(OfDvs(m), Len(m.cvs), Len(m.dvs)) \/ (m.dvs = <<>> /\ OfDvs(m) = <<>>)
BY DEF Fits, OfMvs, OfDvs

LEMMA ToDvKeeps ==
  ASSUME NEW m, GoodModel(m), NEW i \in DOMAIN m.mvs, Fits(m), Distinct(m.mvs \o m.dvs),
         NEW new, new.cvs = m.cvs, new.mvs = Without(m.mvs, i), new.dvs = Append(m.dvs, m.mvs[i]),
         NEW default \in Entries, OfMvs(new) = WithoutColumn(OfMvs(m), i),
         OfDvs(new) = WithColumn(OfDvs(m), OfMvs(m), i, Len(m.cvs), default)
  PROVE  Fits(new) /\ Same(m, new)
<1> DEFINE a == m.mvs
           b == m.dvs
           A == OfMvs(m)
           B == OfDvs(m)
<1>1. /\ a \in Seq(InputTags) /\ b \in Seq(InputTags) /\ A \in Grid /\ B \in Grid
      /\ m.cvs \in Seq(CvTags) /\ Len(m.cvs) \in Nat
  BY DEF GoodModel, ModelType, OfMvs, OfDvs
<1>2. Unique(a) /\ Unique(b) /\ Elems(a) \cap Elems(b) = {} /\ Elems(a \o b) = Elems(a) \cup Elems(b)
  BY <1>1, TablesUnique
<1>3. Sized(A, Len(m.cvs), Len(a)) /\ (Sized(B, Len(m.cvs), Len(b)) \/ (b = <<>> /\ B = <<>>))
  BY FitsMeans
<1>4. a[i] \in Elems(a)
  BY DEF Elems
<1>5. Carries(a, A, b, B, new.mvs, OfMvs(new), new.dvs, OfDvs(new), Len(m.cvs), a[i])
  <2> HIDE DEF A, B
  <2>1. Carries(a, A, b, B, Without(a, i), WithoutColumn(A, i), Append(b, a[i]),
                WithColumn(B, A, i, Len(m.cvs), default), Len(m.cvs), a[i])
    BY <1>1, <1>2, <1>3, Carried
  <2>2. QED
    BY <2>1 DEF A, B
<1>6. Fits(new)
  BY <1>5, FitsMeans DEF Carries
<1>7. ASSUME NEW r \in 1..Len(m.cvs), NEW x \in Elems(a) \cup Elems(b)
      PROVE  Datum(new, r, x) = Datum(m, r, x)
  <2>1. CASE x = a[i]
    <3>1. x \in Elems(m.mvs) /\ x \notin Elems(new.mvs)
      BY <1>2, <1>4, <1>5, <2>1 DEF Carries
    <3>2. Datum(m, r, x) = Cell(OfMvs(m), r, Index(m.mvs, x), None)
      BY <3>1, DatumOf
    <3>3. Datum(new, r, x) = Cell(OfDvs(new), r, Index(new.dvs, x), None)
      BY <3>1, DatumOf
    <3>4. QED
      BY <1>5, <2>1, <3>2, <3>3 DEF Carries
  <2>2. CASE x \in Elems(a) \ {a[i]}
    <3>1. x \in Elems(m.mvs) /\ x \in Elems(new.mvs)
      BY <1>2, <1>4, <1>5, <2>2 DEF Carries
    <3>2. Datum(m, r, x) = Cell(OfMvs(m), r, Index(m.mvs, x), None)
      BY <3>1, DatumOf
    <3>3. Datum(new, r, x) = Cell(OfMvs(new), r, Index(new.mvs, x), None)
      BY <3>1, DatumOf
    <3>4. QED
      BY <1>5, <2>2, <3>2, <3>3 DEF Carries
  <2>3. CASE x \in Elems(b)
    <3>1. x \notin Elems(m.mvs) /\ x \notin Elems(new.mvs)
      BY <1>2, <1>4, <1>5, <2>3 DEF Carries
    <3>2. Datum(m, r, x) = Cell(OfDvs(m), r, Index(m.dvs, x), None)
      BY <3>1, DatumOf
    <3>3. Datum(new, r, x) = Cell(OfDvs(new), r, Index(new.dvs, x), None)
      BY <3>1, DatumOf
    <3>4. QED
      BY <1>5, <2>3, <3>2, <3>3 DEF Carries
  <2>4. QED
    BY <2>1, <2>2, <2>3
<1>8. Same(m, new)
  <2>1. DOMAIN m.cvs = 1..Len(m.cvs)
    BY <1>1
  <2>2. QED
    BY <1>2, <1>7, <2>1 DEF Same
<1>9. QED
  BY <1>6, <1>8

LEMMA ToMvKeeps ==
  ASSUME NEW m, GoodModel(m), NEW i \in DOMAIN m.dvs, Fits(m), Distinct(m.mvs \o m.dvs),
         NEW new, new.cvs = m.cvs, new.dvs = Without(m.dvs, i), new.mvs = Append(m.mvs, m.dvs[i]),
         NEW default \in Entries, OfDvs(new) = WithoutColumn(OfDvs(m), i),
         OfMvs(new) = WithColumn(OfMvs(m), OfDvs(m), i, Len(m.cvs), default)
  PROVE  Fits(new) /\ Same(m, new)
<1> DEFINE a == m.dvs
           b == m.mvs
           A == OfDvs(m)
           B == OfMvs(m)
<1>1. /\ a \in Seq(InputTags) /\ b \in Seq(InputTags) /\ A \in Grid /\ B \in Grid
      /\ m.cvs \in Seq(CvTags) /\ Len(m.cvs) \in Nat /\ a # <<>>
  BY DEF GoodModel, ModelType, OfMvs, OfDvs
<1>2. Unique(a) /\ Unique(b) /\ Elems(a) \cap Elems(b) = {} /\ Elems(b \o a) = Elems(a) \cup Elems(b)
  BY <1>1, TablesUnique
<1>3. Sized(A, Len(m.cvs), Len(a)) /\ Sized(B, Len(m.cvs), Len(b))
  BY <1>1, FitsMeans
<1>4. a[i] \in Elems(a)
  BY DEF Elems
<1>5. Carries(a, A, b, B, new.dvs, OfDvs(new), new.mvs, OfMvs(new), Len(m.cvs), a[i])
  <2> HIDE DEF A, B
  <2>1. Carries(a, A, b, B, Without(a, i), WithoutColumn(A, i), Append(b, a[i]),
                WithColumn(B, A, i, Len(m.cvs), default), Len(m.cvs), a[i])
    BY <1>1, <1>2, <1>3, Carried
  <2>2. QED
    BY <2>1 DEF A, B
<1>6. Fits(new)
  BY <1>5, FitsMeans DEF Carries
<1>7. ASSUME NEW r \in 1..Len(m.cvs), NEW x \in Elems(a) \cup Elems(b)
      PROVE  Datum(new, r, x) = Datum(m, r, x)
  <2>1. CASE x = a[i]
    <3>1. x \notin Elems(m.mvs) /\ x \in Elems(new.mvs)
      BY <1>2, <1>4, <1>5, <2>1 DEF Carries
    <3>2. Datum(m, r, x) = Cell(OfDvs(m), r, Index(m.dvs, x), None)
      BY <3>1, DatumOf
    <3>3. Datum(new, r, x) = Cell(OfMvs(new), r, Index(new.mvs, x), None)
      BY <3>1, DatumOf
    <3>4. QED
      BY <1>5, <2>1, <3>2, <3>3 DEF Carries
  <2>2. CASE x \in Elems(a) \ {a[i]}
    <3>1. x \notin Elems(m.mvs) /\ x \notin Elems(new.mvs)
      BY <1>2, <1>4, <1>5, <2>2 DEF Carries
    <3>2. Datum(m, r, x) = Cell(OfDvs(m), r, Index(m.dvs, x), None)
      BY <3>1, DatumOf
    <3>3. Datum(new, r, x) = Cell(OfDvs(new), r, Index(new.dvs, x), None)
      BY <3>1, DatumOf
    <3>4. QED
      BY <1>5, <2>2, <3>2, <3>3 DEF Carries
  <2>3. CASE x \in Elems(b)
    <3>1. x \in Elems(m.mvs) /\ x \in Elems(new.mvs)
      BY <1>2, <1>4, <1>5, <2>3 DEF Carries
    <3>2. Datum(m, r, x) = Cell(OfMvs(m), r, Index(m.mvs, x), None)
      BY <3>1, DatumOf
    <3>3. Datum(new, r, x) = Cell(OfMvs(new), r, Index(new.mvs, x), None)
      BY <3>1, DatumOf
    <3>4. QED
      BY <1>5, <2>3, <3>2, <3>3 DEF Carries
  <2>4. QED
    BY <2>1, <2>2, <2>3
<1>8. Same(m, new)
  <2>1. DOMAIN m.cvs = 1..Len(m.cvs)
    BY <1>1
  <2>2. QED
    BY <1>2, <1>7, <2>1 DEF Same
<1>9. QED
  BY <1>6, <1>8

LEMMA MoveKeepsToDv ==
  ASSUME NEW m, GoodModel(m), NEW i \in DOMAIN m.mvs, Fits(m), Distinct(m.mvs \o m.dvs)
  PROVE  Fits(MoveMvToDv(m, i)) /\ Same(m, MoveMvToDv(m, i))
<1> DEFINE new == MoveMvToDv(m, i)
<1>1. m \in ModelType /\ Clean(m) /\ m.mode \in Modes /\ m.loaded \in BOOLEAN
  BY DEF GoodModel, ModelType
<1>2. /\ new.mode = m.mode /\ new.cvs = m.cvs /\ new.mvs = Without(m.mvs, i)
      /\ new.dvs = Append(m.dvs, m.mvs[i])
      /\ new.gain = WithoutColumn(m.gain, i)
      /\ new.gainDv = WithColumn(m.gainDv, m.gain, i, Len(m.cvs), Zero)
      /\ new.step = IF MovesCurves(m) THEN WithoutColumn(m.step, i) ELSE m.step
      /\ new.stepDv = IF MovesCurves(m) THEN WithColumn(m.stepDv, m.step, i, Len(m.cvs), None)
                                        ELSE m.stepDv
  BY <1>1 DEF MoveMvToDv, ModelType
<1> HIDE DEF new
<1>3. CASE m.mode = "parametric"
  <2>1. /\ OfMvs(new) = WithoutColumn(OfMvs(m), i)
        /\ OfDvs(new) = WithColumn(OfDvs(m), OfMvs(m), i, Len(m.cvs), Zero)
    BY <1>2, <1>3 DEF OfMvs, OfDvs
  <2>2. Fits(new) /\ Same(m, new)
    BY <1>2, <2>1, EntriesHold, ToDvKeeps
  <2>3. QED
    BY <2>2 DEF new
<1>4. CASE m.mode # "parametric" /\ m.loaded
  <2>1. MovesCurves(m)
    BY <1>1, <1>4 DEF MovesCurves, Modes
  <2>2. /\ OfMvs(new) = WithoutColumn(OfMvs(m), i)
        /\ OfDvs(new) = WithColumn(OfDvs(m), OfMvs(m), i, Len(m.cvs), None)
    BY <1>2, <1>4, <2>1 DEF OfMvs, OfDvs
  <2>3. Fits(new) /\ Same(m, new)
    BY <1>2, <2>2, EntriesHold, ToDvKeeps
  <2>4. QED
    BY <2>3 DEF new
<1>5. CASE m.mode # "parametric" /\ ~m.loaded
  <2>1. /\ OfMvs(m) = <<>> /\ OfDvs(m) = <<>> /\ OfMvs(new) = <<>> /\ OfDvs(new) = <<>>
    BY <1>1, <1>2, <1>5 DEF OfMvs, OfDvs, MovesCurves, Clean
  <2>2. Len(m.cvs) = 0 /\ m.cvs \in Seq(CvTags)
    BY <1>1, <2>1, FitsMeans DEF Sized, ModelType
  <2>3. Fits(new) /\ Same(m, new)
    BY <1>2, <2>1, <2>2, FitsMeans DEF Sized, Same
  <2>4. QED
    BY <2>3 DEF new
<1>6. QED
  BY <1>1, <1>3, <1>4, <1>5

LEMMA MoveKeepsToMv ==
  ASSUME NEW m, GoodModel(m), NEW i \in DOMAIN m.dvs, Fits(m), Distinct(m.mvs \o m.dvs)
  PROVE  Fits(MoveDvToMv(m, i)) /\ Same(m, MoveDvToMv(m, i))
<1> DEFINE new == MoveDvToMv(m, i)
<1>1. m \in ModelType /\ Clean(m) /\ m.mode \in Modes /\ m.loaded \in BOOLEAN
  BY DEF GoodModel, ModelType
<1>2. /\ new.mode = m.mode /\ new.cvs = m.cvs /\ new.dvs = Without(m.dvs, i)
      /\ new.mvs = Append(m.mvs, m.dvs[i])
      /\ new.gainDv = WithoutColumn(m.gainDv, i)
      /\ new.gain = WithColumn(m.gain, m.gainDv, i, Len(m.cvs), Zero)
      /\ new.stepDv = IF MovesCurves(m) THEN WithoutColumn(m.stepDv, i) ELSE m.stepDv
      /\ new.step = IF MovesCurves(m) THEN WithColumn(m.step, m.stepDv, i, Len(m.cvs), None)
                                      ELSE m.step
  BY <1>1 DEF MoveDvToMv, ModelType
<1> HIDE DEF new
<1>3. CASE m.mode = "parametric"
  <2>1. /\ OfDvs(new) = WithoutColumn(OfDvs(m), i)
        /\ OfMvs(new) = WithColumn(OfMvs(m), OfDvs(m), i, Len(m.cvs), Zero)
    BY <1>2, <1>3 DEF OfMvs, OfDvs
  <2>2. Fits(new) /\ Same(m, new)
    BY <1>2, <2>1, EntriesHold, ToMvKeeps
  <2>3. QED
    BY <2>2 DEF new
<1>4. CASE m.mode # "parametric" /\ m.loaded
  <2>1. MovesCurves(m)
    BY <1>1, <1>4 DEF MovesCurves, Modes
  <2>2. /\ OfDvs(new) = WithoutColumn(OfDvs(m), i)
        /\ OfMvs(new) = WithColumn(OfMvs(m), OfDvs(m), i, Len(m.cvs), None)
    BY <1>2, <1>4, <2>1 DEF OfMvs, OfDvs
  <2>3. Fits(new) /\ Same(m, new)
    BY <1>2, <2>2, EntriesHold, ToMvKeeps
  <2>4. QED
    BY <2>3 DEF new
<1>5. CASE m.mode # "parametric" /\ ~m.loaded
  <2>1. /\ OfMvs(m) = <<>> /\ OfDvs(m) = <<>> /\ OfMvs(new) = <<>> /\ OfDvs(new) = <<>>
    BY <1>1, <1>2, <1>5 DEF OfMvs, OfDvs, MovesCurves, Clean
  <2>2. Len(m.cvs) = 0 /\ m.cvs \in Seq(CvTags)
    BY <1>1, <2>1, FitsMeans DEF Sized, ModelType
  <2>3. Fits(new) /\ Same(m, new)
    BY <1>2, <2>1, <2>2, FitsMeans DEF Sized, Same
  <2>4. QED
    BY <2>3 DEF new
<1>6. QED
  BY <1>1, <1>3, <1>4, <1>5

(* An input moved between the tables takes along, for every CV, what the   *)
(* matrices of the mode in use say of it, and no other input loses or      *)
(* gains anything there (moveMvToDv, moveDvToMv).                          *)
THEOREM MovesCarryData == GeneratorSpec => MovesKeepData
<1> DEFINE Carry ==
      (\E i \in DOMAIN model.mvs : ToDv(i)) \/ (\E i \in DOMAIN model.dvs : ToMv(i)) =>
        (Fits(model) /\ Distinct(model.mvs \o model.dvs) =>
          /\ Fits(model')
          /\ \A r \in DOMAIN model.cvs, x \in Elems(model.mvs \o model.dvs) :
               Datum(model', r, x) = Datum(model, r, x))
<1>1. ASSUME EditorTyped PROVE Carry
  <2>1. SUFFICES ASSUME (\E i \in DOMAIN model.mvs : ToDv(i)) \/ (\E i \in DOMAIN model.dvs : ToMv(i)),
                        Fits(model), Distinct(model.mvs \o model.dvs)
                 PROVE  Fits(model') /\ Same(model, model')
    BY DEF Same
  <2>2. GoodModel(model)
    BY <1>1 DEF EditorTyped
  <2>3. ASSUME NEW i \in DOMAIN model.mvs, ToDv(i) PROVE Fits(model') /\ Same(model, model')
    <3>1. model' = MoveMvToDv(model, i)
      BY <2>3 DEF ToDv, Edited
    <3>2. Fits(MoveMvToDv(model, i)) /\ Same(model, MoveMvToDv(model, i))
      BY <2>1, <2>2, MoveKeepsToDv
    <3>3. QED
      BY <3>1, <3>2
  <2>4. ASSUME NEW i \in DOMAIN model.dvs, ToMv(i) PROVE Fits(model') /\ Same(model, model')
    <3>1. model' = MoveDvToMv(model, i)
      BY <2>4 DEF ToMv, Edited
    <3>2. Fits(MoveDvToMv(model, i)) /\ Same(model, MoveDvToMv(model, i))
      BY <2>1, <2>2, MoveKeepsToMv
    <3>3. QED
      BY <3>1, <3>2
  <2>5. QED
    BY <2>1, <2>3, <2>4
<1>2. MovesKeepData <=> [][Carry]_vars
  BY DEF MovesKeepData
<1> HIDE DEF Carry
<1>3. QED
  BY <1>1, <1>2, EditorStarts, EditorKept, PTL DEF GeneratorSpec

-----------------------------------------------------------------------------
(* The step response tool.  Its invariant needs the types, and that while  *)
(* no input was chosen anew, the calculations under way and the last       *)
(* result are for the input of the form.                                   *)
FormType ==
  [start : Nat \cup {None}, end : Int \cup {None}, input : InputTags \cup {None},
   cvs : SUBSET CvTags, step : Nat \cup {None}, baseline : Nat]
LoadType == [start : Nat, end : Int, input : InputTags, cvs : SUBSET CvTags]

Chosen ==
  ~rechosen => /\ \A c \in calcs : c.input = form.input
               /\ result # None => result.input = form.input
               /\ file # None => file.input = file.from.input
Located ==
  detected # <<>> =>
    \E k \in DOMAIN detected : IsFirstLargest(detected, k) /\ form.step = detected[k].at
ToolTyped ==
  /\ form \in FormType /\ loading \in LoadType \cup {None}
  /\ truncated = Truncates(form) /\ Located /\ Chosen

LEMMA ToolStarts ==
  /\ GeneratorInit => ToolTyped
  /\ ToolIsNew => ToolTyped'
<1>1. EmptyForm \in FormType /\ Truncates(EmptyForm) = FALSE
  BY ToolAssumption DEF EmptyForm, FormType, Truncates
<1>2. GeneratorInit => ToolTyped
  BY <1>1 DEF GeneratorInit, ToolInit, ToolTyped, Chosen, Located
<1>3. ToolIsNew => ToolTyped'
  BY <1>1 DEF ToolIsNew, ToolTyped, Chosen, Located, IsFirstLargest
<1>4. QED
  BY <1>2, <1>3

LEMMA FilledOther ==
  ASSUME ToolTyped, NEW f \in FormType, f.input = form.input, f.step = form.step, FillOther(f)
  PROVE  ToolTyped'
<1>1. /\ form' = f /\ truncated' = Truncates(f)
      /\ UNCHANGED <<loading, calcs, result, file, detected, rechosen>>
  BY DEF FillOther, Fill
<1>2. Located'
  BY <1>1 DEF ToolTyped, Located, IsFirstLargest
<1>3. Chosen'
  BY <1>1 DEF ToolTyped, Chosen
<1>4. QED
  BY <1>1, <1>2, <1>3 DEF ToolTyped

LEMMA UseToolStep == ASSUME EditorTyped, ToolTyped, UseTool PROVE ToolTyped'
<1>1. /\ model.cvs \in Seq(CvTags) /\ model.mvs \in Seq(InputTags) /\ model.dvs \in Seq(InputTags)
      /\ form \in FormType /\ loading \in LoadType \cup {None}
  BY DEF EditorTyped, GoodModel, ModelType, ToolTyped
<1>2. ASSUME NEW t \in Times, SetStart(t) PROVE ToolTyped'
  <2> DEFINE e == IF form.end = None THEN t + Hour - Zone ELSE form.end
             f == [form EXCEPT !.start = t, !.end = e]
  <2>1. t \in Nat /\ e \in Int \cup {None}
    BY <1>1, ToolAssumption DEF FormType
  <2>2. FillOther(f)
    BY <1>2 DEF SetStart
  <2> HIDE DEF e
  <2>3. f \in FormType /\ f.input = form.input /\ f.step = form.step
    BY <1>1, <2>1 DEF FormType
  <2>4. QED
    BY <2>2, <2>3, FilledOther
<1>3. ASSUME NEW t \in Times, SetEnd(t) PROVE ToolTyped'
  <2> DEFINE f == [form EXCEPT !.end = t]
  <2>1. t \in Int
    BY ToolAssumption
  <2>2. f \in FormType /\ f.input = form.input /\ f.step = form.step
    BY <1>1, <2>1 DEF FormType
  <2>3. QED
    BY <1>3, <2>2, FilledOther DEF SetEnd
<1>4. ASSUME NEW t \in Times, SetStep(t) PROVE ToolTyped'
  <2>1. /\ form' = [form EXCEPT !.step = t] /\ truncated' = Truncates(form') /\ detected' = <<>>
        /\ UNCHANGED <<loading, calcs, result, file, rechosen>>
    BY <1>4 DEF SetStep, Fill
  <2>2. form' \in FormType /\ form'.input = form.input
    BY <1>1, <2>1, ToolAssumption DEF FormType
  <2>3. Located' /\ Chosen'
    BY <2>1, <2>2 DEF ToolTyped, Located, Chosen
  <2>4. QED
    BY <1>1, <2>1, <2>2, <2>3 DEF ToolTyped
<1>5. ASSUME NEW x \in Elems(model.mvs) \cup Elems(model.dvs) \cup {None}, SetInput(x)
      PROVE  ToolTyped'
  <2>1. /\ form' = [form EXCEPT !.input = x] /\ truncated' = Truncates(form')
        /\ UNCHANGED <<loading, calcs, result, file, detected>>
        /\ rechosen' = (rechosen \/ calcs # {} \/ result # None)
    BY <1>5 DEF SetInput, Fill
  <2>2. x \in InputTags \cup {None}
    BY <1>1 DEF Elems
  <2>3. form' \in FormType /\ form'.step = form.step
    BY <1>1, <2>1, <2>2 DEF FormType
  <2>4. Located'
    BY <2>1, <2>3 DEF ToolTyped, Located, IsFirstLargest
  <2>5. Chosen'
    <3>1. SUFFICES ASSUME ~rechosen'
                   PROVE  /\ \A c \in calcs' : c.input = form'.input
                          /\ result' # None => result'.input = form'.input
                          /\ file' # None => file'.input = file'.from.input
      BY DEF Chosen
    <3>2. ~rechosen /\ calcs = {} /\ result = None
      BY <2>1, <3>1
    <3>3. QED
      BY <2>1, <3>2 DEF ToolTyped, Chosen
  <2>6. QED
    BY <1>1, <2>1, <2>3, <2>4, <2>5 DEF ToolTyped
<1>6. ASSUME NEW c \in Elems(model.cvs), ToggleCV(c) PROVE ToolTyped'
  <2> DEFINE cvs == IF c \in form.cvs THEN form.cvs \ {c} ELSE form.cvs \cup {c}
             f == [form EXCEPT !.cvs = cvs]
  <2>1. cvs \in SUBSET CvTags
    BY <1>1 DEF Elems, FormType
  <2>2. FillOther(f)
    BY <1>6 DEF ToggleCV
  <2> HIDE DEF cvs
  <2>3. f \in FormType /\ f.input = form.input /\ f.step = form.step
    BY <1>1, <2>1 DEF FormType
  <2>4. QED
    BY <2>2, <2>3, FilledOther
<1>7. ASSUME NEW d \in Baselines, SetBaseline(d) PROVE ToolTyped'
  <2> DEFINE f == [form EXCEPT !.baseline = d]
  <2>1. f \in FormType /\ f.input = form.input /\ f.step = form.step
    BY <1>1, ToolAssumption DEF FormType
  <2>2. QED
    BY <1>7, <2>1, FilledOther DEF SetBaseline
<1>8. CASE LoadData
  <2>1. /\ None \notin {form.start, form.end, form.input}
        /\ loading' = [start |-> form.start, end |-> form.end, input |-> form.input, cvs |-> form.cvs]
        /\ UNCHANGED <<form, truncated, calcs, result, file, detected, rechosen>>
    BY <1>8 DEF LoadData
  <2>2. loading' \in LoadType
    BY <1>1, <2>1 DEF LoadType, FormType
  <2>3. QED
    BY <2>1, <2>2 DEF ToolTyped, Located, Chosen, IsFirstLargest, Truncates
<1>9. CASE Calculate
  <2>1. /\ calcs' = calcs \cup {[input |-> form.input, cvs |-> form.cvs, points |-> data.points,
                                 step |-> form.step, baseline |-> form.baseline]}
        /\ UNCHANGED <<form, truncated, loading, result, file, detected, rechosen>>
    BY <1>9 DEF Calculate
  <2>2. Chosen'
    BY <2>1 DEF ToolTyped, Chosen
  <2>3. QED
    BY <2>1, <2>2 DEF ToolTyped, Located, IsFirstLargest, Truncates
<1>10. CASE ExportToJSON
  <2>1. /\ result # None /\ file' = [input |-> form.input, from |-> result]
        /\ UNCHANGED <<form, truncated, loading, calcs, result, detected, rechosen>>
    BY <1>10 DEF ExportToJSON
  <2>2. Chosen'
    BY <2>1 DEF ToolTyped, Chosen
  <2>3. QED
    BY <2>1, <2>2 DEF ToolTyped, Located, IsFirstLargest, Truncates
<1>11. QED
  BY <1>2, <1>3, <1>4, <1>5, <1>6, <1>7, <1>8, <1>9, <1>10 DEF UseTool

LEMMA ToolAnswersStep == ASSUME ToolTyped, ToolAnswers PROVE ToolTyped'
<1>1. form \in FormType /\ loading \in LoadType \cup {None}
  BY DEF ToolTyped
<1>2. CASE HearData
  <2>1. loading # None /\ loading \in LoadType /\ loading' = None
    BY <1>1, <1>2 DEF HearData
  <2>2. PICK nodes \in SUBSET (loading.cvs \cup {loading.input}) :
          LET d == Answered(loading, nodes)
              f == IF Detects(d.points) THEN [form EXCEPT !.step = StepOf(d.points)] ELSE form
          IN  /\ data' = d /\ form' = f /\ truncated' = Truncates(f)
              /\ detected' = IF Detects(d.points) THEN d.points ELSE detected
    BY <1>2 DEF HearData
  <2>3. UNCHANGED <<calcs, result, file, rechosen>>
    BY <1>2 DEF HearData
  <2> DEFINE ps == Answered(loading, nodes).points
  <2>4. ps \in Seq(Point)
    <3>1. loading.input \in InputTags /\ History[loading.input] \in Seq(Point)
      BY <2>1, ToolAssumption DEF LoadType, Point
    <3>2. Between(History[loading.input], loading.start, loading.end) \in Seq(Point)
      BY <3>1, KeptTyped DEF Between
    <3>3. ps = IF loading.input \in nodes
               THEN Between(History[loading.input], loading.start, loading.end) ELSE <<>>
      BY DEF Answered
    <3> HIDE DEF ps
    <3>4. QED
      BY <3>2, <3>3
  <2> HIDE DEF ps
  <2>5. CASE Detects(ps)
    <3>1. /\ form' = [form EXCEPT !.step = StepOf(ps)] /\ truncated' = Truncates(form')
          /\ detected' = ps
      BY <2>2, <2>5 DEF ps
    <3>2. /\ Largest(ps).at \in DOMAIN ps /\ IsFirstLargest(ps, Largest(ps).at)
          /\ StepOf(ps) \in Nat /\ StepOf(ps) = ps[Largest(ps).at].at
      BY <2>4, <2>5, DetectedIsFirst DEF StepOf
    <3>3. form' \in FormType /\ form'.input = form.input /\ form'.step = StepOf(ps)
      BY <1>1, <3>1, <3>2 DEF FormType
    <3>4. \E k \in DOMAIN detected' : /\ IsFirstLargest(detected', k)
                                      /\ form'.step = detected'[k].at
      BY <3>1, <3>2, <3>3
    <3>5. Located'
      BY <3>4 DEF Located, IsFirstLargest
    <3>6. Chosen'
      BY <2>3, <3>3 DEF ToolTyped, Chosen
    <3>7. QED
      BY <2>1, <3>1, <3>3, <3>5, <3>6 DEF ToolTyped
  <2>6. CASE ~Detects(ps)
    <3>1. form' = form /\ truncated' = Truncates(form) /\ detected' = detected
      BY <2>2, <2>6 DEF ps
    <3>2. QED
      BY <1>1, <2>1, <2>3, <3>1 DEF ToolTyped, Located, Chosen, IsFirstLargest
  <2>7. QED
    BY <2>5, <2>6
<1>3. CASE DataFails
  BY <1>3 DEF DataFails, ToolTyped, Located, Chosen, IsFirstLargest, Truncates
<1>4. ASSUME NEW c \in calcs, HearResponse(c) PROVE ToolTyped'
  <2>1. /\ calcs' = calcs \ {c} /\ result' = [input |-> c.input, cvs |-> c.cvs, step |-> c.step]
        /\ UNCHANGED <<form, truncated, loading, file, detected, rechosen>>
    BY <1>4 DEF HearResponse
  <2>2. Chosen'
    BY <2>1 DEF ToolTyped, Chosen
  <2>3. QED
    BY <2>1, <2>2 DEF ToolTyped, Located, IsFirstLargest, Truncates
<1>5. ASSUME NEW c \in calcs, ResponseFails(c) PROVE ToolTyped'
  <2>1. /\ calcs' = calcs \ {c}
        /\ UNCHANGED <<form, truncated, loading, result, file, detected, rechosen>>
    BY <1>5 DEF ResponseFails
  <2>2. Chosen'
    BY <2>1 DEF ToolTyped, Chosen
  <2>3. QED
    BY <2>1, <2>2 DEF ToolTyped, Located, IsFirstLargest, Truncates
<1>6. QED
  BY <1>2, <1>3, <1>4, <1>5 DEF ToolAnswers

LEMMA ToolKept ==
  EditorTyped /\ ToolTyped /\ [GeneratorNext]_<<vars, toolVars>> => ToolTyped'
<1>1. SUFFICES ASSUME EditorTyped, ToolTyped, [GeneratorNext]_<<vars, toolVars>> PROVE ToolTyped'
  OBVIOUS
<1>2. CASE UNCHANGED toolVars
  BY <1>1, <1>2 DEF toolVars, ToolTyped, Located, Chosen, IsFirstLargest, Truncates
<1>3. CASE OpenTool \/ LeaveTool
  BY <1>3, ToolStarts DEF OpenTool, LeaveTool
<1>4. CASE UseTool
  BY <1>1, <1>4, UseToolStep
<1>5. CASE ToolAnswers
  BY <1>1, <1>5, ToolAnswersStep
<1>6. QED
  BY <1>1, <1>2, <1>3, <1>4, <1>5 DEF GeneratorNext, ToolNext

LEMMA ToolInvFollows == ToolTyped => ToolInv
<1>1. SUFFICES ASSUME ToolTyped PROVE ToolInv
  OBVIOUS
<1>2. truncated = (/\ form.start # None /\ form.step # None
                   /\ form.step < form.start + form.baseline)
  <2>1. /\ form.baseline \in Nat
        /\ form.start # None => form.start \in Nat
        /\ form.step # None => form.step \in Nat
    BY <1>1 DEF ToolTyped, FormType
  <2>2. form.start # None /\ form.step # None =>
          (form.step - form.baseline < form.start <=> form.step < form.start + form.baseline)
    <3>1. \A i, j, k \in Nat : i - j < k <=> i < k + j
      OBVIOUS
    <3>2. QED
      BY <2>1, <3>1
  <2>3. QED
    BY <1>1, <2>2 DEF ToolTyped, Truncates
<1>3. QED
  BY <1>1, <1>2 DEF ToolInv, ToolTyped, Located, Chosen

(* A step time that the tool found is the instant of the first of the      *)
(* largest changes of the points it was found in (autoDetectStep), for any *)
(* recorded series; the warning of a short baseline is there exactly when  *)
(* the baseline begins before the range; and an exported file names the    *)
(* input its responses were calculated for unless another was chosen since *)
(* (exportToJSON).                                                         *)
THEOREM ToolHolds == GeneratorSpec => []ToolInv
<1>1. GeneratorInit => ToolTyped
  BY ToolStarts
<1>2. QED
  BY <1>1, EditorStarts, EditorKept, ToolKept, ToolInvFollows, PTL DEF GeneratorSpec
=============================================================================
