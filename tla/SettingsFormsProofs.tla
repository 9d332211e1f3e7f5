------------------------ MODULE SettingsFormsProofs ------------------------
(***************************************************************************)
(* Theorems about the settings page: SettingsForms with its security panel *)
(* OpcSecurityPanel, for any servers, hosts, accounts, calls and visits.   *)
(***************************************************************************)
EXTENDS SettingsForms, FiniteSetTheorems, TLAPS

-----------------------------------------------------------------------------
(* Induction over an interval, for sets, and lists.                        *)

(* A set of natural numbers that is not empty has a smallest element.      *)
LEMMA Smallest ==
  ASSUME NEW S \in SUBSET Nat, S # {}
  PROVE  \E m \in S : \A k \in S : m <= k
<1> DEFINE Upto(k) == S \cap (0..k)
           family == {Upto(k) : k \in S}
<1>1. \A k \in S : Upto(k) \in FiniteSubsetsOf(Nat)
  <2>1. SUFFICES ASSUME NEW k \in S PROVE IsFiniteSet(Upto(k))
    BY DEF FiniteSubsetsOf
  <2>2. IsFiniteSet(0..k)
    BY FS_Interval
  <2>3. QED
    BY <2>2, FS_Subset
<1>2. family \subseteq FiniteSubsetsOf(Nat) /\ family # {}
  BY <1>1
<1>3. IsWellFoundedOn(StrictSubsetOrdering(Nat), FiniteSubsetsOf(Nat))
  BY FS_StrictSubsetOrderingWellFounded
<1> HIDE DEF family
<1>4. PICK x \in family : \A y \in family : <<y, x>> \notin StrictSubsetOrdering(Nat)
  BY <1>2, <1>3, WFMin
<1>5. PICK m \in S : x = Upto(m)
  BY <1>4 DEF family
<1>6. ASSUME NEW k \in S, k < m PROVE FALSE
  <2>1. Upto(k) \subseteq Upto(m) /\ m \in Upto(m) /\ m \notin Upto(k)
    BY <1>6
  <2>2. Upto(k) \in family
    BY DEF family
  <2>3. <<Upto(k), Upto(m)>> \in StrictSubsetOrdering(Nat)
    BY <2>1 DEF StrictSubsetOrdering
  <2>4. QED
    BY <1>4, <1>5, <2>2, <2>3
<1>7. QED
  BY <1>6

LEMMA Counting ==
  ASSUME NEW n \in Nat, NEW S, 0 \in S, \A k \in 0..n : k \in S /\ k < n => k + 1 \in S
  PROVE  0..n \subseteq S
<1> DEFINE Missing == {k \in 0..n : k \notin S}
<1>1. SUFFICES ASSUME Missing # {} PROVE FALSE
  OBVIOUS
<1>2. Missing \in SUBSET Nat
  OBVIOUS
<1>3. PICK m \in Missing : \A k \in Missing : m <= k
  BY <1>1, <1>2, Smallest
<1>4. m \in 0..n /\ m # 0 /\ m - 1 \in 0..n /\ m - 1 \in S /\ m - 1 < n
  BY <1>3
<1>5. (m - 1) + 1 \in S
  BY <1>4
<1>6. QED
  BY <1>3, <1>4, <1>5

(* A recursion over an interval has a solution.                            *)
Follows(g, first, step, m) == g[0] = first /\ \A k \in 1..m : g[k] = step[k][g[k-1]]

LEMMA Recursion ==
  ASSUME NEW n \in Nat, NEW T, NEW first \in T, NEW step \in [1..n -> [T -> T]]
  PROVE  \E g \in [0..n -> T] : Follows(g, first, step, n)
<1> DEFINE Solves(m, g) == g[0] = first /\ \A k \in 1..m : g[k] = step[k][g[k-1]]
           S == {m \in 0..n : \E g \in [0..m -> T] : Solves(m, g)}
<1>1. 0 \in S
  <2> DEFINE h == [k \in 0..0 |-> first]
  <2>1. h \in [0..0 -> T] /\ Solves(0, h)
    OBVIOUS
  <2> HIDE DEF h, Solves
  <2>2. QED
    BY <2>1
<1>2. ASSUME NEW m \in 0..n, m \in S, m < n PROVE m + 1 \in S
  <2>1. PICK g \in [0..m -> T] : Solves(m, g)
    BY <1>2
  <2> DEFINE h == [k \in 0..(m+1) |-> IF k = m + 1 THEN step[m+1][g[m]] ELSE g[k]]
  <2>2. h \in [0..(m+1) -> T]
    <3>1. g[m] \in T /\ step[m+1] \in [T -> T]
      BY <1>2
    <3>2. step[m+1][g[m]] \in T
      BY <3>1
    <3>3. QED
      BY <3>2
  <2>3. h[0] = first
    BY <2>1
  <2>4. ASSUME NEW k \in 1..(m+1) PROVE h[k] = step[k][h[k-1]]
    <3>1. h[k-1] = g[k-1]
      OBVIOUS
    <3>2. CASE k = m + 1
      BY <3>1, <3>2
    <3>3. CASE k \in 1..m
      BY <2>1, <3>1, <3>3
    <3>4. QED
      BY <3>2, <3>3
  <2>5. Solves(m + 1, h)
    BY <2>3, <2>4
  <2> HIDE DEF h, Solves
  <2>6. QED
    BY <1>2, <2>2, <2>5
<1>3. 0..n \subseteq S
  <2> HIDE DEF S
  <2>1. QED
    BY <1>1, <1>2, Counting
<1>4. \E g \in [0..n -> T] : Solves(n, g)
  BY <1>3
<1>5. QED
  BY <1>4 DEF Follows

(* How a list is filtered, element by element.                             *)
LEMMA KeptUnfolds ==
  ASSUME NEW T, NEW s \in Seq(T), NEW keep
  PROVE  \E g \in [0..Len(s) -> Seq(T)] :
           /\ Kept(s, keep) = g[Len(s)] /\ g[0] = <<>>
           /\ \A n \in 1..Len(s) : g[n] = IF s[n] \in keep THEN Append(g[n-1], s[n]) ELSE g[n-1]
<1> DEFINE F(g) == [n \in 0..Len(s) |-> IF n = 0 THEN <<>>
                      ELSE IF s[n] \in keep THEN Append(g[n-1], s[n]) ELSE g[n-1]]
           K == CHOOSE g : g = F(g)
           step == [n \in 1..Len(s) |-> [x \in Seq(T) |->
                      IF s[n] \in keep THEN Append(x, s[n]) ELSE x]]
<1>1. step \in [1..Len(s) -> [Seq(T) -> Seq(T)]] /\ <<>> \in Seq(T) /\ Len(s) \in Nat
  OBVIOUS
<1>2. PICK g \in [0..Len(s) -> Seq(T)] : Follows(g, <<>>, step, Len(s))
  <2> HIDE DEF step
  <2>1. QED
    BY <1>1, Recursion
<1>3. g = F(g)
  <2>1. ASSUME NEW n \in 1..Len(s)
        PROVE  g[n] = IF s[n] \in keep THEN Append(g[n-1], s[n]) ELSE g[n-1]
    <3>1. g[n-1] \in Seq(T) /\ g[n] = step[n][g[n-1]]
      <4> HIDE DEF step
      <4>1. n - 1 \in 0..Len(s)
        BY <1>1
      <4>2. QED
        BY <1>2, <4>1 DEF Follows
    <3>2. step[n] = [x \in Seq(T) |-> IF s[n] \in keep THEN Append(x, s[n]) ELSE x]
      OBVIOUS
    <3> HIDE DEF step
    <3>3. QED
      BY <3>1, <3>2
  <2>2. g[0] = <<>>
    BY <1>2 DEF Follows
  <2>3. g = [n \in 0..Len(s) |-> g[n]]
    OBVIOUS
  <2>4. \A n \in 0..Len(s) : g[n] = IF n = 0 THEN <<>>
                      ELSE IF s[n] \in keep THEN Append(g[n-1], s[n]) ELSE g[n-1]
    <3> HIDE DEF step
    <3>1. \A n \in 0..Len(s) : n = 0 \/ n \in 1..Len(s)
      BY <1>1
    <3>2. QED
      BY <2>1, <2>2, <3>1
  <2>5. QED
    BY <2>3, <2>4
<1>4. K = F(K)
  <2> HIDE DEF F
  <2>1. QED
    BY <1>3
<1> HIDE DEF K
<1> DEFINE S == {n \in 0..Len(s) : K[n] \in Seq(T)}
<1>5. 0 \in S
  BY <1>4
<1>6. ASSUME NEW n \in 0..Len(s), n \in S, n < Len(s) PROVE n + 1 \in S
  <2>1. n + 1 \in 0..Len(s) /\ n + 1 # 0 /\ s[n+1] \in T /\ (n + 1) - 1 = n
    BY <1>6
  <2>2. K[n+1] = F(K)[n+1]
    BY <1>4
  <2>3. F(K)[n+1] = IF s[n+1] \in keep THEN Append(K[n], s[n+1]) ELSE K[n]
    BY <2>1
  <2> HIDE DEF F
  <2>4. K[n] \in Seq(T)
    BY <1>6
  <2>5. K[n+1] \in Seq(T)
    BY <2>1, <2>2, <2>3, <2>4
  <2>6. QED
    BY <2>1, <2>5
<1>7. 0..Len(s) \subseteq S
  <2> HIDE DEF S
  <2>1. QED
    BY <1>1, <1>5, <1>6, Counting
<1>8. K[Len(s)] \in Seq(T)
  BY <1>7
<1>9. Kept(s, keep) = K[Len(s)]
  BY DEF Kept, K
<1> DEFINE h == [n \in 0..Len(s) |-> K[n]]
<1>10. h \in [0..Len(s) -> Seq(T)]
  BY <1>7
<1>11. ASSUME NEW n \in 1..Len(s)
       PROVE  h[n] = IF s[n] \in keep THEN Append(h[n-1], s[n]) ELSE h[n-1]
  <2>1. n \in 0..Len(s) /\ n - 1 \in 0..Len(s) /\ n # 0
    BY <1>1
  <2>2. K[n] = F(K)[n]
    BY <1>4
  <2>3. F(K)[n] = IF s[n] \in keep THEN Append(K[n-1], s[n]) ELSE K[n-1]
    BY <2>1
  <2> HIDE DEF F
  <2>4. QED
    BY <2>1, <2>2, <2>3
<1>12. h[0] = <<>> /\ h[Len(s)] = K[Len(s)]
  BY <1>1, <1>4
<1> HIDE DEF h
<1>13. QED
  BY <1>9, <1>10, <1>11, <1>12

(* A filtered list has the elements to keep, and no other.                 *)
LEMMA KeptElems ==
  ASSUME NEW T, NEW s \in Seq(T), NEW keep
  PROVE  /\ Kept(s, keep) \in Seq(T)
         /\ \A i \in DOMAIN Kept(s, keep) : Kept(s, keep)[i] \in keep /\ \E j \in DOMAIN s : s[j] = Kept(s, keep)[i]
         /\ \A j \in DOMAIN s : s[j] \in keep => \E i \in DOMAIN Kept(s, keep) : Kept(s, keep)[i] = s[j]
<1>1. PICK g \in [0..Len(s) -> Seq(T)] :
        /\ Kept(s, keep) = g[Len(s)] /\ g[0] = <<>>
        /\ \A n \in 1..Len(s) : g[n] = IF s[n] \in keep THEN Append(g[n-1], s[n]) ELSE g[n-1]
  BY KeptUnfolds
<1>2. Len(s) \in Nat /\ DOMAIN s = 1..Len(s)
  OBVIOUS
<1> DEFINE Good(n) ==
             /\ \A i \in DOMAIN g[n] : g[n][i] \in keep /\ \E j \in DOMAIN s : s[j] = g[n][i]
             /\ \A j \in 1..n : s[j] \in keep => \E i \in DOMAIN g[n] : g[n][i] = s[j]
           S == {n \in 0..Len(s) : Good(n)}
<1>3. 0 \in S
  BY <1>1, <1>2
<1>4. ASSUME NEW n \in 0..Len(s), n \in S, n < Len(s) PROVE n + 1 \in S
  <2>1. /\ n + 1 \in 1..Len(s) /\ (n + 1) - 1 = n /\ g[n] \in Seq(T) /\ n + 1 \in DOMAIN s
        /\ n + 1 \in 0..Len(s)
    BY <1>2, <1>4
  <2>2. Good(n) /\ \A j \in 1..(n+1) : j \in 1..n \/ j = n + 1
    BY <1>4
  <2>3. CASE s[n+1] \in keep
    <3> DEFINE t == Append(g[n], s[n+1])
    <3>1. g[n+1] = t
      BY <1>1, <2>1, <2>3
    <3>2. /\ DOMAIN t = DOMAIN g[n] \cup {Len(g[n]) + 1} /\ t[Len(g[n]) + 1] = s[n+1]
          /\ \A i \in DOMAIN g[n] : t[i] = g[n][i]
      BY <2>1
    <3> HIDE DEF t
    <3>3. Good(n+1)
      BY <2>1, <2>2, <2>3, <3>1, <3>2
    <3>4. QED
      BY <2>1, <3>3
  <2>4. CASE s[n+1] \notin keep
    <3>1. g[n+1] = g[n]
      BY <1>1, <2>1, <2>4
    <3>2. Good(n+1)
      BY <2>2, <2>4, <3>1
    <3>3. QED
      BY <2>1, <3>2
  <2>5. QED
    BY <2>3, <2>4
<1>5. Good(Len(s))
  <2>1. 0..Len(s) \subseteq S
    <3> HIDE DEF S
    <3>1. QED
      BY <1>2, <1>3, <1>4, Counting
  <2>2. QED
    BY <1>2, <2>1
<1>6. QED
  BY <1>1, <1>2, <1>5

(* Two lists filtered alike stay side by side.                             *)
LEMMA KeptAligned ==
  ASSUME NEW T, NEW s \in Seq(T), NEW keepS, NEW U, NEW t \in Seq(U), NEW keepT,
         Len(s) = Len(t), \A i \in 1..Len(s) : s[i] = t[i].id,
         \A i \in 1..Len(s) : s[i] \in keepS <=> t[i] \in keepT
  PROVE  /\ Len(Kept(s, keepS)) = Len(Kept(t, keepT))
         /\ \A i \in 1..Len(Kept(s, keepS)) : Kept(s, keepS)[i] = Kept(t, keepT)[i].id
<1>1. PICK g \in [0..Len(s) -> Seq(T)] :
        /\ Kept(s, keepS) = g[Len(s)] /\ g[0] = <<>>
        /\ \A n \in 1..Len(s) : g[n] = IF s[n] \in keepS THEN Append(g[n-1], s[n]) ELSE g[n-1]
  BY KeptUnfolds
<1>2. PICK h \in [0..Len(t) -> Seq(U)] :
        /\ Kept(t, keepT) = h[Len(t)] /\ h[0] = <<>>
        /\ \A n \in 1..Len(t) : h[n] = IF t[n] \in keepT THEN Append(h[n-1], t[n]) ELSE h[n-1]
  BY KeptUnfolds
<1>3. Len(s) \in Nat
  OBVIOUS
<1> DEFINE Good(n) == Len(g[n]) = Len(h[n]) /\ \A i \in 1..Len(g[n]) : g[n][i] = h[n][i].id
           S == {n \in 0..Len(s) : Good(n)}
<1>4. 0 \in S
  BY <1>1, <1>2, <1>3
<1>5. ASSUME NEW n \in 0..Len(s), n \in S, n < Len(s) PROVE n + 1 \in S
  <2>1. /\ n + 1 \in 1..Len(s) /\ (n + 1) - 1 = n /\ g[n] \in Seq(T) /\ h[n] \in Seq(U)
        /\ n + 1 \in 0..Len(s) /\ s[n+1] = t[n+1].id
    BY <1>3, <1>5
  <2>2. Good(n)
    BY <1>5
  <2>3. CASE s[n+1] \in keepS
    <3> DEFINE a == Append(g[n], s[n+1])
               b == Append(h[n], t[n+1])
    <3>1. g[n+1] = a /\ h[n+1] = b
      BY <1>1, <1>2, <2>1, <2>3
    <3>2. /\ Len(a) = Len(g[n]) + 1 /\ Len(b) = Len(h[n]) + 1 /\ Len(g[n]) \in Nat
          /\ a[Len(a)] = s[n+1] /\ b[Len(b)] = t[n+1]
          /\ \A i \in 1..Len(g[n]) : a[i] = g[n][i]
          /\ \A i \in 1..Len(h[n]) : b[i] = h[n][i]
      BY <2>1
    <3> HIDE DEF a, b
    <3>3. Len(a) = Len(b)
      BY <2>2, <3>2
    <3>4. ASSUME NEW i \in 1..Len(a) PROVE a[i] = b[i].id
      <4>1. i = Len(a) \/ i \in 1..Len(g[n])
        BY <3>2
      <4>2. QED
        BY <2>1, <2>2, <3>2, <3>3, <4>1
    <3>5. QED
      BY <2>1, <3>1, <3>3, <3>4
  <2>4. CASE s[n+1] \notin keepS
    BY <1>1, <1>2, <2>1, <2>2, <2>4
  <2>5. QED
    BY <2>3, <2>4
<1>6. Good(Len(s))
  <2>1. 0..Len(s) \subseteq S
    <3> HIDE DEF S
    <3>1. QED
      BY <1>3, <1>4, <1>5, Counting
  <2>2. QED
    BY <1>3, <2>1
<1>7. QED
  BY <1>1, <1>2, <1>6

(* A list with one element taken away.                                     *)
LEMMA RemovedFrom ==
  ASSUME NEW T, NEW s \in Seq(T), NEW i \in DOMAIN s
  PROVE  /\ RemoveAt(s, i) \in Seq(T) /\ Len(RemoveAt(s, i)) = Len(s) - 1
         /\ \A j \in 1..(Len(s) - 1) : RemoveAt(s, i)[j] = IF j < i THEN s[j] ELSE s[j + 1]
<1> DEFINE a == SubSeq(s, 1, i-1)
           b == SubSeq(s, i+1, Len(s))
<1>1. i \in 1..Len(s) /\ Len(s) \in Nat
  OBVIOUS
<1>2. a \in Seq(T) /\ Len(a) = i - 1 /\ \A j \in 1..(i-1) : a[j] = s[j]
  BY <1>1
<1>3. b \in Seq(T) /\ Len(b) = Len(s) - i /\ \A j \in 1..(Len(s) - i) : b[j] = s[i + j]
  BY <1>1
<1>4. RemoveAt(s, i) = a \o b
  BY DEF RemoveAt
<1> HIDE DEF a, b
<1>5. Len(a \o b) = Len(s) - 1 /\ a \o b \in Seq(T)
  BY <1>1, <1>2, <1>3
<1>6. ASSUME NEW j \in 1..(Len(s) - 1) PROVE (a \o b)[j] = IF j < i THEN s[j] ELSE s[j + 1]
  <2>1. CASE j < i
    BY <1>1, <1>2, <1>3, <2>1
  <2>2. CASE ~(j < i)
    <3>1. j - (i - 1) \in 1..(Len(s) - i)
      BY <1>1, <2>2
    <3>4. (a \o b)[j] = b[j - Len(a)]
      BY <1>1, <1>2, <1>3, <2>2
    <3>2. b[j - (i - 1)] = s[i + (j - (i - 1))] /\ i + (j - (i - 1)) = j + 1
      BY <1>1, <1>3, <3>1
    <3>3. QED
      BY <1>2, <2>2, <3>2, <3>4
  <2>3. QED
    BY <2>1, <2>2
<1>7. QED
  BY <1>4, <1>5, <1>6
(* What is left of a list when its element i is taken.                     *)
LEMMA Remaining ==
  ASSUME NEW T, NEW s \in Seq(T), NEW i \in DOMAIN s, NEW t, t = RemoveAt(s, i)
  PROVE  /\ t \in Seq(T) /\ Len(t) = Len(s) - 1
         /\ \A k \in DOMAIN t : \E j \in DOMAIN s : j # i /\ t[k] = s[j]
         /\ \A j \in DOMAIN s : j # i => \E k \in DOMAIN t : t[k] = s[j]
<1>1. /\ t \in Seq(T) /\ Len(t) = Len(s) - 1 /\ Len(s) \in Nat /\ i \in 1..Len(s)
      /\ \A j \in 1..(Len(s) - 1) : t[j] = IF j < i THEN s[j] ELSE s[j + 1]
  BY RemovedFrom
<1>2. DOMAIN s = 1..Len(s) /\ DOMAIN t = 1..(Len(s) - 1)
  BY <1>1
<1>3. ASSUME NEW k \in DOMAIN t PROVE \E j \in DOMAIN s : j # i /\ t[k] = s[j]
  <2>1. CASE k < i
    BY <1>1, <1>2, <2>1
  <2>2. CASE ~(k < i)
    <3>1. k + 1 \in DOMAIN s /\ k + 1 # i /\ t[k] = s[k + 1]
      BY <1>1, <1>2, <2>2
    <3>2. QED
      BY <3>1
  <2>3. QED
    BY <2>1, <2>2
<1>4. ASSUME NEW j \in DOMAIN s, j # i PROVE \E k \in DOMAIN t : t[k] = s[j]
  <2>1. CASE j < i
    BY <1>1, <1>2, <2>1
  <2>2. CASE ~(j < i)
    <3>1. j - 1 \in DOMAIN t /\ t[j - 1] = s[j]
      BY <1>1, <1>2, <1>4, <2>2
    <3>2. QED
      BY <3>1
  <2>3. QED
    BY <2>1, <2>2
<1>5. QED
  BY <1>1, <1>3, <1>4

-----------------------------------------------------------------------------
(* The accounts.                                                           *)
Account == [role : Roles, disabled : BOOLEAN]
AccountsType == [Users -> {None} \cup Account]
Answered == {None, "ok", "refused"}
UserCall ==
  [kind : {"list"}, u : Users, arg : {None}, list : {None} \cup AccountsType, answer : Answered]
  \cup [kind : {"audit"}, u : Users, arg : {None} \cup Filters, list : {None}, answer : Answered]
  \cup [kind : {"create", "role"}, u : Users, arg : Roles, list : {None}, answer : Answered]
  \cup [kind : {"disable"}, u : Users, arg : BOOLEAN, list : {None}, answer : Answered]
  \cup [kind : {"password"}, u : Users, arg : {None}, list : {None}, answer : Answered]
LeftType == [admin : BOOLEAN, infra : Nat, panel : Nat, users : Nat]

PeopleTyped ==
  /\ users \in AccountsType /\ accounts \in AccountsType
  /\ accounts[Me] \in Account /\ accounts[Me].disabled = FALSE
  /\ userCalls \in Seq(UserCall)
  /\ \A i \in DOMAIN userCalls :
       userCalls[i].kind = "list" /\ userCalls[i].answer = "ok" => userCalls[i].list \in AccountsType
  /\ audit \in [typed : Filters \cup {None}, asked : Filters \cup {None},
               shown : Filters \cup {None, "nothing"}]
  /\ usersStatus \in {"none", "busy", "ok", "failed"} /\ usersCalm \in BOOLEAN
  /\ left \in LeftType

(* While the calls for the users keep out of each other's way, a list that *)
(* was answered is the accounts', a change has no call beside it, and what *)
(* the page does not show yet is on its way.                               *)
ListsFollow ==
  /\ \A i \in DOMAIN userCalls :
       /\ userCalls[i].kind = "list" /\ userCalls[i].answer = "ok" => userCalls[i].list = accounts
       /\ userCalls[i].kind \in Changes => Len(userCalls) = 1
       /\ userCalls[i].kind = "audit" => userCalls[i].arg = audit.asked
  /\ users = accounts \/ \E i \in DOMAIN userCalls :
                            userCalls[i].kind \in {"list", "create", "role", "disable"}
  /\ audit.shown = audit.asked \/ \E i \in DOMAIN userCalls : userCalls[i].kind = "audit"
PeopleInv == PeopleTyped /\ (usersCalm /\ isAdmin => ListsFollow)

LEMMA PeopleStart == Init => PeopleInv
<1> SUFFICES ASSUME Init PROVE PeopleInv
  OBVIOUS
<1>1. left \in LeftType
  BY SettingsAssumption DEF Init, LeftType
<1>2. /\ UserAsked("list", Me, None) \in UserCall /\ UserAsked("audit", Me, None) \in UserCall
      /\ UserAsked("list", Me, None).answer # "ok"
  BY SettingsAssumption, PanelAssumption DEF UserAsked, UserCall, Answered
<1>3. users \in AccountsType /\ accounts \in AccountsType
  BY DEF Init, AccountsType, Account, Roles
<1>4. accounts[Me] \in Account /\ accounts[Me].disabled = FALSE
  BY SettingsAssumption DEF Init, Account, Roles
<1>5. audit \in [typed : Filters \cup {None}, asked : Filters \cup {None},
                shown : Filters \cup {None, "nothing"}]
  BY DEF Init
<1>6. CASE isAdmin
  <2>1. userCalls = <<UserAsked("list", Me, None), UserAsked("audit", Me, None)>>
    BY <1>6 DEF Init
  <2>2. /\ userCalls[1].kind = "list" /\ userCalls[1].answer = None
        /\ userCalls[2].kind = "audit" /\ userCalls[2].arg = None
    BY <2>1 DEF UserAsked
  <2>3. userCalls \in Seq(UserCall) /\ DOMAIN userCalls = {1, 2}
    BY <1>2, <2>1
  <2>4. PeopleTyped
    BY <1>1, <1>3, <1>4, <1>5, <2>2, <2>3, PanelAssumption DEF PeopleTyped, Init
  <2>5. ListsFollow
    BY <2>2, <2>3, PanelAssumption DEF ListsFollow, Init, Changes
  <2>6. QED
    BY <2>4, <2>5 DEF PeopleInv
<1>7. CASE ~isAdmin
  <2>1. userCalls = <<>>
    BY <1>7 DEF Init
  <2>2. PeopleTyped
    BY <1>1, <1>3, <1>4, <1>5, <2>1 DEF PeopleTyped, Init
  <2>3. QED
    BY <1>7, <2>2 DEF PeopleInv
<1>8. QED
  BY <1>6, <1>7

(* A step that leaves the forms for the accounts alone.                    *)
PeopleSame == UNCHANGED people /\ left.admin' = left.admin /\ left' \in LeftType

LEMMA PeopleStutter == ASSUME PeopleInv, PeopleSame PROVE PeopleInv'
<1>1. PeopleTyped'
  BY DEF PeopleInv, PeopleSame, PeopleTyped, people
<1>2. isAdmin' = isAdmin
  BY DEF PeopleSame, isAdmin
<1>3. ListsFollow => ListsFollow'
  BY DEF ListsFollow, PeopleSame, people
<1>4. usersCalm' = usersCalm
  BY DEF PeopleSame, people
<1>5. QED
  BY <1>1, <1>2, <1>3, <1>4, Zenon DEF PeopleInv

LEMMA OpLeaves ==
  ASSUME left \in LeftType, NEW area \in {"infra", "panel", "users"}, Op(area)
  PROVE  left' \in LeftType /\ left'.admin = left.admin
  BY DEF LeftType, Op

(* A request of the page.                                                  *)
LEMMA AskedFor ==
  ASSUME PeopleInv, NEW c \in UserCall, AskUsers(c), c.answer = None,
         left' \in LeftType, left'.admin = left.admin,
         audit' \in [typed : Filters \cup {None}, asked : Filters \cup {None},
                     shown : Filters \cup {None, "nothing"}],
         audit' = audit \/ (c.kind = "audit" /\ c.arg = audit'.asked),
         c.kind = "audit" => c.arg = audit'.asked,
         usersStatus' \in {"none", "busy", "ok", "failed"}
  PROVE  PeopleInv'
<1>1. userCalls' = Append(userCalls, c) /\ userCalls \in Seq(UserCall) /\ UNCHANGED <<users, accounts>>
  BY DEF AskUsers, PeopleInv, PeopleTyped
<1>2. userCalls' \in Seq(UserCall) /\ Len(userCalls') = Len(userCalls) + 1 /\ Len(userCalls) \in Nat
  BY <1>1
<1>3. \A i \in DOMAIN userCalls' :
        (i \in DOMAIN userCalls /\ userCalls'[i] = userCalls[i]) \/ userCalls'[i] = c
  BY <1>1
<1>4. usersCalm' \in BOOLEAN
  BY DEF AskUsers, PeopleInv, PeopleTyped
<1>5. PeopleTyped'
  BY <1>1, <1>2, <1>3, <1>4, PanelAssumption DEF PeopleInv, PeopleTyped
<1>6. ASSUME usersCalm', isAdmin' PROVE ListsFollow'
  <2>1. userCalls = <<>> /\ usersCalm /\ isAdmin
    BY <1>6 DEF AskUsers, isAdmin
  <2>2. users = accounts /\ audit.shown = audit.asked
    BY <2>1 DEF PeopleInv, ListsFollow
  <2>3. DOMAIN userCalls' = {1} /\ userCalls'[1] = c /\ Len(userCalls') = 1
    BY <1>1, <2>1
  <2>4. QED
    BY <1>1, <2>2, <2>3, PanelAssumption DEF ListsFollow
<1>7. QED
  BY <1>5, <1>6 DEF PeopleInv

LEMMA UsersUsed ==
  ASSUME PeopleInv, UseUsers, left' \in LeftType, left'.admin = left.admin
  PROVE  PeopleInv'
<1>1. Me \in Users /\ Roles = {"viewer", "admin"}
  BY SettingsAssumption DEF Roles
<1>2. /\ audit \in [typed : Filters \cup {None}, asked : Filters \cup {None},
                   shown : Filters \cup {None, "nothing"}]
      /\ usersStatus \in {"none", "busy", "ok", "failed"}
  BY DEF PeopleInv, PeopleTyped
<1>3. CASE FetchUsers
  <2> DEFINE c == UserAsked("list", Me, None)
  <2>1. c \in UserCall /\ c.answer = None /\ c.kind = "list"
    BY <1>1 DEF UserAsked, UserCall, Answered
  <2>2. AskUsers(c) /\ UNCHANGED <<audit, usersStatus>>
    BY <1>3 DEF FetchUsers
  <2> HIDE DEF c
  <2>3. QED
    BY <1>2, <2>1, <2>2, AskedFor
<1>4. ASSUME NEW u \in Users, NEW r \in Roles, NEW kind \in {"create", "role"},
             AskUsers(UserAsked(kind, u, r)), audit' = audit,
             usersStatus' \in {"none", "busy", "ok", "failed"}
      PROVE  PeopleInv'
  <2> DEFINE c == UserAsked(kind, u, r)
  <2>1. c \in UserCall /\ c.answer = None /\ c.kind # "audit"
    BY DEF UserAsked, UserCall, Answered
  <2> HIDE DEF c
  <2>2. QED
    BY <1>2, <1>4, <2>1, AskedFor DEF c
<1>5. ASSUME NEW u \in Shown, SetDisabled, AskUsers(UserAsked("disable", u, ~users[u].disabled)),
             UNCHANGED <<audit, usersStatus>>
      PROVE  PeopleInv'
  <2> DEFINE c == UserAsked("disable", u, ~users[u].disabled)
  <2>1. u \in Users /\ users[u] \in Account
    BY DEF Shown, PeopleInv, PeopleTyped, AccountsType
  <2>4. users[u].disabled \in BOOLEAN
    BY <2>1 DEF Account
  <2>2. c \in UserCall /\ c.answer = None /\ c.kind # "audit"
    BY <2>1, <2>4 DEF UserAsked, UserCall, Answered
  <2> HIDE DEF c
  <2>3. QED
    BY <1>2, <1>5, <2>2, AskedFor DEF c
<1>6. ASSUME NEW u \in Shown, AskUsers(UserAsked("password", u, None)), UNCHANGED <<audit, usersStatus>>
      PROVE  PeopleInv'
  <2> DEFINE c == UserAsked("password", u, None)
  <2>1. c \in UserCall /\ c.answer = None /\ c.kind # "audit"
    BY DEF UserAsked, UserCall, Answered, Shown
  <2> HIDE DEF c
  <2>2. QED
    BY <1>2, <1>6, <2>1, AskedFor DEF c
<1>7. CASE FetchAudit
  <2> DEFINE c == UserAsked("audit", Me, audit.typed)
  <2>1. c \in UserCall /\ c.answer = None /\ c.kind = "audit" /\ c.arg = audit.typed
    BY <1>1, <1>2 DEF UserAsked, UserCall, Answered
  <2>2. AskUsers(c) /\ audit' = [audit EXCEPT !.asked = audit.typed] /\ usersStatus' = usersStatus
    BY <1>7 DEF FetchAudit
  <2> HIDE DEF c
  <2>3. audit' \in [typed : Filters \cup {None}, asked : Filters \cup {None},
                   shown : Filters \cup {None, "nothing"}] /\ audit'.asked = audit.typed
    BY <1>2, <2>2
  <2>4. QED
    BY <1>2, <2>1, <2>2, <2>3, AskedFor
<1>8. ASSUME UNCHANGED <<users, userCalls, accounts, usersCalm>>,
             audit' \in [typed : Filters \cup {None}, asked : Filters \cup {None},
                        shown : Filters \cup {None, "nothing"}],
             audit'.asked = audit.asked, audit'.shown = audit.shown,
             usersStatus' \in {"none", "busy", "ok", "failed"}
      PROVE  PeopleInv'
  <2>1. PeopleTyped'
    BY <1>8 DEF PeopleInv, PeopleTyped
  <2>2. isAdmin' = isAdmin
    BY DEF isAdmin
  <2>3. ListsFollow => ListsFollow'
    BY <1>8 DEF ListsFollow
  <2>4. QED
    BY <1>8, <2>1, <2>2, <2>3, Zenon DEF PeopleInv
<1>9. CASE IncompleteUser
  BY <1>2, <1>8, <1>9 DEF IncompleteUser
<1>10. CASE TypeFilter
  BY <1>2, <1>8, <1>10 DEF TypeFilter
<1>11. QED
  <2>1. CASE CreateUser
    BY <1>4, <2>1 DEF CreateUser
  <2>2. CASE UpdateRole
    BY <1>2, <1>4, <2>2 DEF UpdateRole, Shown
  <2>3. CASE SetDisabled
    BY <1>5, <2>3 DEF SetDisabled
  <2>4. CASE ResetPassword
    BY <1>6, <2>4 DEF ResetPassword
  <2>5. QED
    BY <1>3, <1>7, <1>9, <1>10, <2>1, <2>2, <2>3, <2>4 DEF UseUsers

(* A handler of the server.                                                *)
LEMMA UsersServed ==
  ASSUME PeopleInv, NEW i \in DOMAIN userCalls, ServeUsers(i), left' = left
  PROVE  PeopleInv'
<1> DEFINE c == userCalls[i]
           answer == IF Permits(c) THEN "ok" ELSE "refused"
           list == IF Permits(c) /\ c.kind = "list" THEN accounts ELSE None
<1>1. c \in UserCall /\ c.answer = None /\ userCalls \in Seq(UserCall)
  BY DEF PeopleInv, PeopleTyped, ServeUsers
<1>2. UserAt(i, answer, list)
  BY DEF ServeUsers
<1>3. answer \in {"ok", "refused"} /\ list \in {None} \cup AccountsType
      /\ (c.kind # "list" => list = None)
  BY DEF PeopleInv, PeopleTyped
<1>4. answer = "ok" /\ c.kind = "list" => list = accounts
  OBVIOUS
<1>5. /\ accounts' \in AccountsType /\ accounts'[Me] \in Account /\ accounts'[Me].disabled = FALSE
      /\ c.kind \notin {"create", "role", "disable"} => accounts' = accounts
  <2>1. /\ accounts \in AccountsType /\ accounts[Me] \in Account /\ accounts[Me].disabled = FALSE
    BY DEF PeopleInv, PeopleTyped
  <2>2. CASE ~Permits(c)
    BY <2>1, <2>2 DEF ServeUsers
  <2>3. CASE Permits(c) /\ c.kind = "create"
    <3>1. c.u \in Users /\ c.arg \in Roles
      BY <1>1, <2>3 DEF UserCall
    <3>2. accounts' = [accounts EXCEPT ![c.u] = [role |-> c.arg, disabled |-> FALSE]]
      BY <2>3 DEF ServeUsers
    <3>3. QED
      BY <2>1, <2>3, <3>1, <3>2, SettingsAssumption DEF AccountsType, Account
  <2>4. CASE Permits(c) /\ c.kind = "role"
    <3>1. c.u \in Users /\ c.arg \in Roles /\ accounts[c.u] \in Account
      BY <1>1, <2>1, <2>4 DEF UserCall, Permits, Changes, AccountsType
    <3>2. accounts' = [accounts EXCEPT ![c.u].role = c.arg]
      BY <2>4 DEF ServeUsers
    <3>3. QED
      BY <2>1, <2>4, <3>1, <3>2, SettingsAssumption DEF AccountsType, Account
  <2>5. CASE Permits(c) /\ c.kind = "disable"
    <3>1. c.u \in Users /\ c.arg \in BOOLEAN /\ accounts[c.u] \in Account /\ (c.u = Me => ~c.arg)
      BY <1>1, <2>1, <2>5 DEF UserCall, Permits, Changes, AccountsType
    <3>2. accounts' = [accounts EXCEPT ![c.u].disabled = c.arg]
      BY <2>5 DEF ServeUsers
    <3>3. accounts' \in AccountsType /\ (c.u # Me => accounts'[Me] = accounts[Me])
      BY <2>1, <3>1, <3>2, SettingsAssumption DEF AccountsType, Account
    <3>4. CASE c.u = Me
      <4>1. c.arg = FALSE
        BY <3>1, <3>4
      <4>2. accounts'[Me] = [accounts[Me] EXCEPT !.disabled = FALSE]
        BY <2>1, <3>1, <3>2, <3>4, <4>1 DEF AccountsType
      <4>3. QED
        BY <2>1, <2>5, <3>3, <4>2 DEF Account
    <3>5. QED
      BY <2>1, <2>5, <3>3, <3>4
  <2>6. CASE Permits(c) /\ c.kind \notin {"create", "role", "disable"}
    BY <2>1, <2>6 DEF ServeUsers
  <2>7. QED
    BY <2>2, <2>3, <2>4, <2>5, <2>6
<1> DEFINE d == [c EXCEPT !.answer = answer, !.list = list]
<1>6. d \in UserCall /\ d.answer = answer /\ d.list = list /\ d.kind = c.kind /\ d.arg = c.arg
  <2> HIDE DEF answer, list
  <2>1. QED
    BY <1>1, <1>3 DEF UserCall, Answered
<1>7. userCalls' = [userCalls EXCEPT ![i] = d] /\ UNCHANGED <<users, audit, usersStatus, usersCalm>>
  <2> HIDE DEF answer, list
  <2>1. QED
    BY <1>1, <1>2 DEF UserAt
<1> HIDE DEF c, d, answer, list
<1>8. /\ userCalls' \in Seq(UserCall) /\ DOMAIN userCalls' = DOMAIN userCalls
      /\ Len(userCalls') = Len(userCalls)
      /\ userCalls'[i] = d /\ \A j \in DOMAIN userCalls : j # i => userCalls'[j] = userCalls[j]
  BY <1>1, <1>6, <1>7
<1>9. PeopleTyped'
  BY <1>1, <1>3, <1>4, <1>5, <1>6, <1>7, <1>8 DEF PeopleInv, PeopleTyped
<1>10. ASSUME usersCalm, isAdmin PROVE ListsFollow'
  <2>1. ListsFollow
    BY <1>10 DEF PeopleInv
  <2>2. \A j \in DOMAIN userCalls : userCalls'[j].kind = userCalls[j].kind /\ userCalls'[j].arg = userCalls[j].arg
    BY <1>6, <1>8 DEF c
  <2>3. CASE c.kind \in Changes
    <3>1. Len(userCalls) = 1 /\ DOMAIN userCalls = {i}
      <4>1. Len(userCalls) = 1 /\ DOMAIN userCalls = 1..Len(userCalls)
        BY <1>1, <2>1, <2>3 DEF ListsFollow, c
      <4>2. QED
        BY <4>1
    <3>2. QED
      BY <1>5, <1>6, <1>7, <1>8, <2>1, <2>2, <2>3, <3>1 DEF ListsFollow, Changes
  <2>4. CASE c.kind \notin Changes
    <3>1. accounts' = accounts
      BY <1>5, <2>4 DEF Changes
    <3>2. QED
      BY <1>4, <1>6, <1>7, <1>8, <2>1, <2>2, <3>1 DEF ListsFollow
  <2>5. QED
    BY <2>3, <2>4
<1>11. usersCalm' = usersCalm /\ isAdmin' = isAdmin
  BY <1>7 DEF isAdmin
<1>12. QED
  BY <1>9, <1>10, <1>11, Zenon DEF PeopleInv

(* An answer of a call i that ends it.                                     *)
LEMMA CallEnds ==
  ASSUME PeopleInv, NEW i \in DOMAIN userCalls, UserTaken(i), left' = left, accounts' = accounts,
         users' \in AccountsType, usersCalm' \in BOOLEAN,
         usersStatus' \in {"none", "busy", "ok", "failed"},
         audit' \in [typed : Filters \cup {None}, asked : Filters \cup {None},
                     shown : Filters \cup {None, "nothing"}],
         audit'.asked = audit.asked,
         usersCalm' =>
           /\ usersCalm
           /\ IF userCalls[i].kind = "list" THEN users' = userCalls[i].list /\ userCalls[i].answer = "ok"
              ELSE users' = users /\ userCalls[i].kind \notin {"create", "role", "disable"}
           /\ IF userCalls[i].kind = "audit" THEN audit'.shown = userCalls[i].arg ELSE audit' = audit
  PROVE  PeopleInv'
<1>1. userCalls \in Seq(UserCall) /\ userCalls' = RemoveAt(userCalls, i)
  BY DEF PeopleInv, PeopleTyped, UserTaken
<1>2. /\ userCalls' \in Seq(UserCall) /\ Len(userCalls') = Len(userCalls) - 1
      /\ \A k \in DOMAIN userCalls' : \E j \in DOMAIN userCalls : j # i /\ userCalls'[k] = userCalls[j]
      /\ \A j \in DOMAIN userCalls : j # i => \E k \in DOMAIN userCalls' : userCalls'[k] = userCalls[j]
  BY <1>1, Remaining
<1>3. PeopleTyped'
  BY <1>2 DEF PeopleInv, PeopleTyped
<1>4. isAdmin' = isAdmin
  BY DEF isAdmin
<1>5. ASSUME usersCalm', isAdmin PROVE ListsFollow'
  <2>1. ListsFollow
    BY <1>5 DEF PeopleInv
  <2>2. ASSUME NEW k \in DOMAIN userCalls'
        PROVE  /\ userCalls'[k].kind = "list" /\ userCalls'[k].answer = "ok" => userCalls'[k].list = accounts
               /\ userCalls'[k].kind \in Changes => Len(userCalls') = 1
               /\ userCalls'[k].kind = "audit" => userCalls'[k].arg = audit.asked
    <3>1. PICK j \in DOMAIN userCalls : j # i /\ userCalls'[k] = userCalls[j]
      BY <1>2
    <3>2. userCalls[j].kind \notin Changes
      <4>1. SUFFICES ASSUME Len(userCalls) = 1 PROVE FALSE
        BY <2>1 DEF ListsFollow
      <4>2. DOMAIN userCalls = 1..1
        BY <1>1, <4>1
      <4>3. QED
        BY <3>1, <4>2
    <3>3. QED
      BY <2>1, <3>1, <3>2 DEF ListsFollow
  <2>3. users' = accounts \/ \E k \in DOMAIN userCalls' :
                                userCalls'[k].kind \in {"list", "create", "role", "disable"}
    <3>1. CASE userCalls[i].kind = "list"
      BY <1>5, <2>1, <3>1 DEF ListsFollow
    <3>2. CASE userCalls[i].kind # "list"
      <4>1. users' = users /\ userCalls[i].kind \notin {"list", "create", "role", "disable"}
        BY <1>5, <3>2
      <4>2. users = accounts \/ \E j \in DOMAIN userCalls \ {i} :
                                   userCalls[j].kind \in {"list", "create", "role", "disable"}
        BY <2>1, <4>1 DEF ListsFollow
      <4>3. QED
        BY <1>2, <4>1, <4>2
    <3>3. QED
      BY <3>1, <3>2
  <2>4. audit'.shown = audit'.asked \/ \E k \in DOMAIN userCalls' : userCalls'[k].kind = "audit"
    <3>1. CASE userCalls[i].kind = "audit"
      BY <1>5, <2>1, <3>1 DEF ListsFollow
    <3>2. CASE userCalls[i].kind # "audit"
      <4>1. audit.shown = audit.asked \/ \E j \in DOMAIN userCalls \ {i} : userCalls[j].kind = "audit"
        BY <2>1, <3>2 DEF ListsFollow
      <4>2. QED
        BY <1>2, <1>5, <3>2, <4>1
    <3>3. QED
      BY <3>1, <3>2
  <2>5. QED
    BY <2>2, <2>3, <2>4 DEF ListsFollow
<1>6. QED
  BY <1>3, <1>4, <1>5 DEF PeopleInv

(* An answer of a change, after which the list is asked for.               *)
LEMMA AsksAgain ==
  ASSUME PeopleInv, NEW i \in DOMAIN userCalls, HearChanged(i), left' = left,
         userCalls[i].kind # "password"
  PROVE  PeopleInv'
<1> DEFINE c == UserAsked("list", Me, None)
<1>1. c \in UserCall /\ c.kind = "list" /\ c.answer = None
  BY SettingsAssumption DEF UserAsked, UserCall, Answered
<1>2. /\ userCalls \in Seq(UserCall) /\ userCalls' = [userCalls EXCEPT ![i] = c]
      /\ usersStatus' = "ok" /\ UNCHANGED <<users, audit, accounts, usersCalm>>
  BY DEF PeopleInv, PeopleTyped, HearChanged, ThenAsk
<1> HIDE DEF c
<1>3. /\ userCalls' \in Seq(UserCall) /\ DOMAIN userCalls' = DOMAIN userCalls
      /\ Len(userCalls') = Len(userCalls)
      /\ userCalls'[i] = c /\ \A j \in DOMAIN userCalls : j # i => userCalls'[j] = userCalls[j]
  BY <1>1, <1>2
<1>4. PeopleTyped'
  BY <1>1, <1>2, <1>3, PanelAssumption DEF PeopleInv, PeopleTyped
<1>5. ASSUME ListsFollow PROVE ListsFollow'
  <2>1. userCalls[i].kind \in Changes
    BY DEF HearChanged
  <2>2. Len(userCalls) = 1 /\ DOMAIN userCalls = 1..Len(userCalls)
    BY <1>2, <1>5, <2>1 DEF ListsFollow
  <2>3. DOMAIN userCalls = {i}
    BY <2>2
  <2>4. audit.shown = audit.asked
    BY <1>5, <2>1, <2>3 DEF ListsFollow, Changes
  <2>5. QED
    BY <1>1, <1>2, <1>3, <2>3, <2>4, PanelAssumption DEF ListsFollow, Changes
<1>6. isAdmin' = isAdmin /\ usersCalm' = usersCalm
  BY <1>2 DEF isAdmin
<1>7. QED
  BY <1>4, <1>5, <1>6, Zenon DEF PeopleInv

LEMMA UsersAnswered ==
  ASSUME PeopleInv, NEW i \in DOMAIN userCalls, HearAccounts(i) \/ LoseUserCall(i),
         left' \in LeftType, left' = left
  PROVE  PeopleInv'
<1>1. /\ users \in AccountsType /\ usersCalm \in BOOLEAN /\ userCalls[i] \in UserCall
      /\ usersStatus \in {"none", "busy", "ok", "failed"}
      /\ audit \in [typed : Filters \cup {None}, asked : Filters \cup {None},
                   shown : Filters \cup {None, "nothing"}]
  BY DEF PeopleInv, PeopleTyped
<1>2. CASE HearUsers(i)
  <2>1. userCalls[i].list \in AccountsType
    BY <1>2 DEF HearUsers, PeopleInv, PeopleTyped
  <2>2. QED
    BY <1>1, <1>2, <2>1, CallEnds DEF HearUsers
<1>3. CASE HearAudit(i)
  <2>1. userCalls[i].arg \in Filters \cup {None}
    BY <1>1, <1>3 DEF HearAudit, UserCall
  <2>2. /\ audit' \in [typed : Filters \cup {None}, asked : Filters \cup {None},
                      shown : Filters \cup {None, "nothing"}]
        /\ audit'.asked = audit.asked /\ audit'.shown = userCalls[i].arg
    BY <1>1, <1>3, <2>1 DEF HearAudit
  <2>3. QED
    BY <1>1, <1>3, <2>2, CallEnds DEF HearAudit
<1>4. CASE HearChanged(i)
  <2>1. CASE userCalls[i].kind = "password"
    BY <1>1, <1>4, <2>1, CallEnds DEF HearChanged, ThenAsk
  <2>2. QED
    BY <1>4, <2>1, AsksAgain
<1>5. CASE HearUserRefusal(i) \/ LoseUserCall(i)
  <2>1. /\ UserTaken(i) /\ usersCalm' = FALSE /\ UNCHANGED <<users, audit, accounts>>
        /\ usersStatus' \in {"none", "busy", "ok", "failed"}
    BY <1>1, <1>5 DEF HearUserRefusal, LoseUserCall
  <2>2. QED
    BY <1>1, <2>1, CallEnds
<1>6. QED
  BY <1>2, <1>3, <1>4, <1>5 DEF HearAccounts

LEMMA PeopleStep == PeopleInv /\ [Next]_vars => PeopleInv'
<1> SUFFICES ASSUME PeopleInv, [Next]_vars PROVE PeopleInv'
  OBVIOUS
<1>1. left \in LeftType
  BY DEF PeopleInv, PeopleTyped
<1>2. CASE User
  <2>1. CASE Op("users") /\ UseUsers
    BY <1>1, <2>1, OpLeaves, UsersUsed
  <2>2. ASSUME NEW area \in {"infra", "panel"}, Op(area), UNCHANGED people PROVE PeopleInv'
    BY <1>1, <2>2, OpLeaves, PeopleStutter DEF PeopleSame
  <2>3. QED
    BY <1>2, <2>1, <2>2 DEF User, infra
<1>3. CASE Answers
  <2>1. left' = left
    BY <1>3 DEF Answers, Free
  <2>2. CASE People
    BY <1>1, <2>1, <2>2, UsersServed, UsersAnswered DEF People
  <2>3. CASE UNCHANGED people
    BY <1>1, <2>1, <2>3, PeopleStutter DEF PeopleSame
  <2>4. QED
    BY <1>3, <2>2, <2>3 DEF Answers
<1>4. CASE Losses
  <2>1. left' = left
    BY <1>4 DEF Losses, Fault
  <2>2. ASSUME NEW i \in DOMAIN userCalls, LoseUserCall(i) PROVE PeopleInv'
    BY <1>1, <2>1, <2>2, UsersAnswered
  <2>3. CASE UNCHANGED people
    BY <1>1, <2>1, <2>3, PeopleStutter DEF PeopleSame
  <2>4. QED
    BY <1>4, <2>2, <2>3 DEF Losses
<1>5. CASE UNCHANGED vars
  BY <1>1, <1>5, PeopleStutter DEF PeopleSame, vars
<1>6. QED
  BY <1>2, <1>3, <1>4, <1>5 DEF Next

(* The administrator's own account stays enabled; and while no call for    *)
(* the users failed or overlapped another, the page with nothing under way *)
(* shows the accounts and the audit events of its filter (SettingsView.tsx,*)
(* fetchUsers after every change but a new password).                      *)
THEOREM UsersStayMatched == Spec => []UsersMatch
<1>1. PeopleInv => UsersMatch
  <2> SUFFICES ASSUME PeopleInv PROVE UsersMatch
    OBVIOUS
  <2>1. ~accounts[Me].disabled
    BY DEF PeopleInv, PeopleTyped
  <2>2. usersCalm /\ isAdmin /\ userCalls = <<>> => users = accounts /\ audit.shown = audit.asked
    BY DEF PeopleInv, ListsFollow
  <2>3. QED
    BY <2>1, <2>2 DEF UsersMatch
<1>2. QED
  BY <1>1, PeopleStart, PeopleStep, PTL DEF Spec

-----------------------------------------------------------------------------
(* The lists of the page and the stored row.                               *)
Aligned(l) == l.supervisors = [i \in DOMAIN l.clients |-> l.clients[i].id]
AlignedLists == {l \in Lists : Aligned(l)}
InfraCall ==
  {c \in [kind : {"read", "apply", "clients", "reconnect"}, arg : {None} \cup Lists,
          phase : {"sent", "taken", "pushing", "ok", "refused"}, row : {None} \cup Lists,
          todo : Seq(Hosts), failed : BOOLEAN] :
     /\ c.kind \in {"apply", "clients"} => c.arg \in AlignedLists
     /\ c.phase \in {"taken", "pushing"} => c.kind \in {"apply", "clients"} /\ c.row \in AlignedLists
     /\ c.phase = "pushing" => \A k \in DOMAIN c.todo : c.todo[k] \in SeqIds(c.row.clients)
     /\ c.kind = "read" /\ c.phase = "ok" => c.row \in Lists}

InfraTyped ==
  /\ lists \in AlignedLists /\ row \in Lists /\ hosts \in [Hosts -> Settings]
  /\ infraCalls \in Seq(InfraCall)
  /\ infraStatus \in {"none", "busy", "ok", "partial", "failed"} /\ infraCalm \in BOOLEAN
  /\ removed \subseteq Hosts \cup Servers

LEMMA ClientFound ==
  ASSUME NEW r \in Lists, NEW h \in SeqIds(r.clients)
  PROVE  ClientOf(r, h) \in Rows(Hosts, Settings) /\ ClientOf(r, h).id = h
         /\ \E i \in DOMAIN r.clients : r.clients[i] = ClientOf(r, h)
<1>1. \E i \in DOMAIN r.clients : r.clients[i].id = h
  BY DEF SeqIds
<1> DEFINE j == CHOOSE i \in DOMAIN r.clients : r.clients[i].id = h
<1>2. j \in DOMAIN r.clients /\ r.clients[j].id = h
  BY <1>1
<1>3. r.clients \in Seq(Rows(Hosts, Settings))
  BY DEF Lists
<1>4. ClientOf(r, h) = r.clients[j]
  BY DEF ClientOf
<1> HIDE DEF j
<1>5. QED
  BY <1>2, <1>3, <1>4

LEMMA FilledTyped ==
  ASSUME NEW r \in Lists, NEW x \in Settings
  PROVE  /\ Filled(r, x) \in AlignedLists
         /\ Filled(r, x).supervisors = r.supervisors /\ Filled(r, x).servers = r.servers
         /\ Filled(r, x).hmi = r.hmi
         /\ DOMAIN Filled(r, x).clients = DOMAIN r.supervisors
         /\ \A i \in DOMAIN r.supervisors : r.supervisors[i] \in SeqIds(r.clients) =>
              Filled(r, x).clients[i] = ClientOf(r, r.supervisors[i])
<1> DEFINE clients == [i \in DOMAIN r.supervisors |->
                         IF r.supervisors[i] \in SeqIds(r.clients) THEN ClientOf(r, r.supervisors[i])
                         ELSE [id |-> r.supervisors[i], set |-> x]]
<1>1. /\ r.supervisors \in Seq(Hosts) /\ r.clients \in Seq(Rows(Hosts, Settings))
      /\ r.servers \in Seq(Rows(Servers, Urls)) /\ r.hmi \in Settings
  BY DEF Lists
<1>2. \A i \in DOMAIN r.supervisors : clients[i] \in Rows(Hosts, Settings) /\ clients[i].id = r.supervisors[i]
  <2> SUFFICES ASSUME NEW i \in DOMAIN r.supervisors
               PROVE  clients[i] \in Rows(Hosts, Settings) /\ clients[i].id = r.supervisors[i]
    OBVIOUS
  <2>1. CASE r.supervisors[i] \in SeqIds(r.clients)
    <3>1. clients[i] = ClientOf(r, r.supervisors[i])
      BY <2>1
    <3> HIDE DEF clients
    <3>2. QED
      BY <2>1, <3>1, ClientFound
  <2>2. CASE r.supervisors[i] \notin SeqIds(r.clients)
    <3>1. clients[i] = [id |-> r.supervisors[i], set |-> x] /\ r.supervisors[i] \in Hosts
      BY <1>1, <2>2
    <3> HIDE DEF clients
    <3>2. QED
      BY <3>1 DEF Rows
  <2>3. QED
    BY <2>1, <2>2
<1>3. DOMAIN clients = 1..Len(r.supervisors) /\ Len(r.supervisors) \in Nat
      /\ DOMAIN r.supervisors = 1..Len(r.supervisors)
  BY <1>1
<1>4. Filled(r, x) = [r EXCEPT !.clients = clients]
  BY DEF Filled
<1>5. \A i \in DOMAIN r.supervisors : r.supervisors[i] \in SeqIds(r.clients) =>
        clients[i] = ClientOf(r, r.supervisors[i])
  OBVIOUS
<1>6. clients = [i \in DOMAIN r.supervisors |-> clients[i]]
  OBVIOUS
<1> HIDE DEF clients
<1>7. clients \in Seq(Rows(Hosts, Settings))
  BY <1>2, <1>3, <1>6
<1>8. Filled(r, x) \in Lists /\ Filled(r, x).clients = clients
  BY <1>1, <1>4, <1>7 DEF Lists
<1>9. r.supervisors = [i \in DOMAIN clients |-> clients[i].id]
  BY <1>1, <1>2, <1>3
<1>10. /\ Filled(r, x).supervisors = r.supervisors /\ Filled(r, x).servers = r.servers
       /\ Filled(r, x).hmi = r.hmi
  BY <1>4 DEF Lists
<1>11. QED
  BY <1>3, <1>5, <1>8, <1>9, <1>10 DEF AlignedLists, Aligned

LEMMA NormalTyped ==
  ASSUME NEW r \in Lists
  PROVE  /\ Normal(r) \in AlignedLists
         /\ Normal(r).supervisors = r.supervisors
         /\ Normal(r).servers = IF r.servers = <<>> THEN DefaultServers ELSE r.servers
         /\ DOMAIN Normal(r).clients = DOMAIN r.supervisors
         /\ \A i \in DOMAIN r.supervisors : r.supervisors[i] \in SeqIds(r.clients) =>
              Normal(r).clients[i] = ClientOf(r, r.supervisors[i])
<1> DEFINE f == Filled(r, r.hmi)
           servers == IF r.servers = <<>> THEN DefaultServers ELSE r.servers
<1>1. r.hmi \in Settings /\ r.servers \in Seq(Rows(Servers, Urls))
  BY DEF Lists
<1>2. /\ f \in AlignedLists /\ f.supervisors = r.supervisors /\ f.servers = r.servers
      /\ DOMAIN f.clients = DOMAIN r.supervisors
      /\ \A i \in DOMAIN r.supervisors : r.supervisors[i] \in SeqIds(r.clients) =>
           f.clients[i] = ClientOf(r, r.supervisors[i])
  BY <1>1, FilledTyped
<1>3. servers \in Seq(Rows(Servers, Urls))
  BY <1>1, SettingsAssumption
<1> HIDE DEF f
<1>4. Normal(r) = [f EXCEPT !.servers = servers]
  BY <1>2 DEF Normal, f, AlignedLists, Lists
<1> HIDE DEF servers
<1>5. /\ Normal(r) \in Lists /\ Normal(r).supervisors = f.supervisors /\ Normal(r).clients = f.clients
      /\ Normal(r).servers = servers
  BY <1>2, <1>3, <1>4 DEF AlignedLists, Lists
<1>6. QED
  BY <1>2, <1>5 DEF AlignedLists, Aligned, servers

(* What the stored row and the page have of the row there was at first.    *)
Covers(l, gone) ==
  /\ ToSet(FirstRow.supervisors) \subseteq ToSet(l.supervisors) \cup gone
  /\ SeqIds(FirstRow.servers) \subseteq SeqIds(l.servers) \cup gone
Agree ==
  \A i \in DOMAIN row.clients :
    row.clients[i].id \in ToSet(row.supervisors) => hosts[row.clients[i].id] = row.clients[i].set
(* A host has the settings of its row, or they are going to be pushed.     *)
Pushing(c) ==
  \A i \in DOMAIN row.clients : row.clients[i].id \in ToSet(row.supervisors) =>
    /\ row.clients[i].set = ClientOf(c.row, row.clients[i].id).set
    /\ row.clients[i].id \in ToSet(c.todo) \/ hosts[row.clients[i].id] = row.clients[i].set

Ready(c) ==
  /\ c.kind = "read" /\ c.phase = "ok" => Covers(c.row, removed)
  /\ c.kind \in {"apply", "clients"} => Covers(c.arg, removed)
  /\ c.phase \in {"taken", "pushing"} => Covers(c.row, removed)
  /\ c.phase = "pushing" /\ ~c.failed => Pushing(c)
  /\ c.phase \notin {"pushing", "refused"} => Agree

(* While no save failed or overlapped another call, there is one call at   *)
(* most; what it carries has all that was not removed; and the hosts agree *)
(* with the row, but for those still to be told.                           *)
RowFollows ==
  /\ Len(infraCalls) <= 1 /\ Covers(row, removed)
  /\ infraCalls = <<>> => Agree
  /\ Covers(lists, removed) \/ \E i \in DOMAIN infraCalls : infraCalls[i].kind = "read"
  /\ \A i \in DOMAIN infraCalls : Ready(infraCalls[i])
InfraInv == InfraTyped /\ (infraCalm => RowFollows)


LEMMA CoversMore ==
  ASSUME NEW l, NEW gone, NEW more, gone \subseteq more, Covers(l, gone)
  PROVE  Covers(l, more)
  BY DEF Covers

LEMMA RowElems ==
  ASSUME NEW I, NEW X, NEW s \in Seq(Rows(I, X))
  PROVE  \A i \in DOMAIN s : s[i] \in Rows(I, X) /\ s[i].id \in I /\ s[i] = [id |-> s[i].id, set |-> s[i].set]
                             /\ s[i].set \in X
<1>1. \A i \in DOMAIN s : s[i] \in Rows(I, X)
  OBVIOUS
<1>2. QED
  BY <1>1 DEF Rows

(* A list in which the settings of one row are replaced.                   *)
Reset(s, i, x) == [s EXCEPT ![i].set = x]
LEMMA RowReplaced ==
  ASSUME NEW I, NEW X, NEW s \in Seq(Rows(I, X)), NEW i \in DOMAIN s, NEW x \in X, NEW t, t = Reset(s, i, x)
  PROVE  t \in Seq(Rows(I, X)) /\ DOMAIN t = DOMAIN s /\ \A j \in DOMAIN s : t[j].id = s[j].id
<1> DEFINE r == [id |-> s[i].id, set |-> x]
<1>1. s[i] = [id |-> s[i].id, set |-> s[i].set] /\ s[i].id \in I
  BY RowElems
<1>2. r \in Rows(I, X) /\ r.id = s[i].id
  BY <1>1 DEF Rows
<1>3. [s[i] EXCEPT !.set = x] = r
  BY <1>1
<1>4. t = [s EXCEPT ![i] = [s[i] EXCEPT !.set = x]]
  BY DEF Reset
<1>5. t = [s EXCEPT ![i] = r]
  BY <1>3, <1>4
<1> HIDE DEF r
<1>6. DOMAIN t = DOMAIN s /\ t[i] = r /\ \A j \in DOMAIN s : j # i => t[j] = s[j]
  BY <1>5
<1>7. t \in Seq(Rows(I, X))
  <2> DEFINE T == Rows(I, X)
  <2>1. s \in Seq(T) /\ r \in T
    BY <1>2
  <2> HIDE DEF T
  <2>2. t \in Seq(T)
    BY <1>5, <2>1
  <2>3. QED
    BY <2>2 DEF T
<1>8. QED
  BY <1>2, <1>6, <1>7

(* A list without the rows of one id.                                      *)
LEMMA RowLeft ==
  ASSUME NEW I, NEW X, NEW s \in Seq(Rows(I, X)), NEW id
  PROVE  Without(s, id) \in Seq(Rows(I, X)) /\ SeqIds(s) \subseteq SeqIds(Without(s, id)) \cup {id}
<1>1. PICK T, keep : T = Rows(I, X) /\ keep = {r \in ToSet(s) : r.id # id}
  OBVIOUS
<1>2. s \in Seq(T)
  BY <1>1
<1>3. /\ Kept(s, keep) \in Seq(T)
      /\ \A j \in DOMAIN s : s[j] \in keep => \E i \in DOMAIN Kept(s, keep) : Kept(s, keep)[i] = s[j]
  BY <1>2, KeptElems
<1>4. Without(s, id) = Kept(s, keep)
  BY <1>1 DEF Without
<1>5. QED
  BY <1>1, <1>3, <1>4 DEF SeqIds, ToSet

(* A longer list has the elements of the shorter one.                      *)
LEMMA Appended ==
  ASSUME NEW T, NEW s \in Seq(T), NEW x \in T, NEW t, t = Append(s, x)
  PROVE  /\ t \in Seq(T) /\ Len(t) = Len(s) + 1 /\ Len(s) \in Nat /\ DOMAIN t = 1..(Len(s) + 1)
         /\ DOMAIN s = 1..Len(s) /\ \A i \in DOMAIN s : i \in DOMAIN t /\ t[i] = s[i]
         /\ t[Len(s) + 1] = x
  OBVIOUS

LEMMA InfraStart == Init => InfraInv
<1> SUFFICES ASSUME Init PROVE InfraInv
  OBVIOUS
<1> DEFINE c == InfraAsked("read", None)
<1>1. c \in InfraCall /\ c.kind = "read" /\ c.phase = "sent"
  BY DEF InfraAsked, InfraCall
<1>2. infraCalls = <<c>>
  BY DEF Init
<1> HIDE DEF c
<1>3. infraCalls \in Seq(InfraCall) /\ Len(infraCalls) = 1 /\ DOMAIN infraCalls = {1} /\ infraCalls[1] = c
  BY <1>1, <1>2
<1>4. lists \in AlignedLists
  <2> DEFINE l == [supervisors |-> <<>>, servers |-> <<>>, clients |-> <<>>, hmi |-> Default]
  <2>1. l \in Lists
    BY SettingsAssumption DEF Lists
  <2>2. Aligned(l)
    BY DEF Aligned
  <2>3. QED
    BY <2>1, <2>2 DEF Init, AlignedLists
<1>5. InfraTyped
  BY <1>3, <1>4, SettingsAssumption DEF InfraTyped, Init
<1>6. Agree
  <2>1. FirstRow.clients \in Seq(Rows(Hosts, Settings))
    BY SettingsAssumption DEF Lists
  <2>2. \A i \in DOMAIN FirstRow.clients : FirstRow.clients[i].id \in Hosts
    BY <2>1, RowElems
  <2>3. hosts = [h \in Hosts |-> Default] /\ row = FirstRow
    BY DEF Init
  <2>4. QED
    BY <2>2, <2>3, SettingsAssumption DEF Agree
<1>7. Covers(row, removed)
  BY DEF Covers, Init
<1>8. QED
  BY <1>1, <1>3, <1>5, <1>6, <1>7 DEF InfraInv, RowFollows, Ready

LEMMA InfraStutter == ASSUME InfraInv, UNCHANGED infra PROVE InfraInv'
<1>1. InfraTyped'
  BY DEF InfraInv, InfraTyped, infra
<1>2. RowFollows => RowFollows'
  BY DEF RowFollows, Ready, Agree, Pushing, infra
<1>3. infraCalm' = infraCalm
  BY DEF infra
<1>4. QED
  BY <1>1, <1>2, <1>3 DEF InfraInv

(* Editing the lists: what is removed is remembered.                       *)
LEMMA ListsEdited ==
  ASSUME InfraInv, lists' \in AlignedLists, removed \subseteq removed', removed' \subseteq Hosts \cup Servers,
         Covers(lists, removed) => Covers(lists', removed'),
         UNCHANGED <<infraStatus, infraCalls, row, hosts, infraCalm>>
  PROVE  InfraInv'
<1>1. InfraTyped'
  BY DEF InfraInv, InfraTyped
<1>2. ASSUME RowFollows PROVE RowFollows'
  <2>1. \A l : Covers(l, removed) => Covers(l, removed')
    BY CoversMore
  <2>2. Agree' = Agree
    BY DEF Agree
  <2>3. \A i \in DOMAIN infraCalls : Pushing(infraCalls[i])' = Pushing(infraCalls[i])
    BY DEF Pushing
  <2>4. QED
    BY <1>2, <2>1, <2>2, <2>3 DEF RowFollows, Ready
<1>3. QED
  BY <1>1, <1>2 DEF InfraInv

LEMMA ServersReplaced ==
  ASSUME NEW l \in AlignedLists, NEW servers \in Seq(Rows(Servers, Urls))
  PROVE  /\ [l EXCEPT !.servers = servers] \in AlignedLists
         /\ [l EXCEPT !.servers = servers].servers = servers
         /\ [l EXCEPT !.servers = servers].supervisors = l.supervisors
  BY DEF AlignedLists, Aligned, Lists

LEMMA SupervisorAdded ==
  ASSUME InfraInv, AddSupervisor PROVE InfraInv'
<1>1. PICK h \in Hosts :
        EditLists([lists EXCEPT !.supervisors = Append(@, h),
                                !.clients = Append(@, [id |-> h, set |-> Default])])
  BY DEF AddSupervisor
<1> DEFINE r == [id |-> h, set |-> Default]
<1>2. r \in Rows(Hosts, Settings) /\ r.id = h
  BY SettingsAssumption DEF Rows
<1>3. lists \in Lists /\ lists.supervisors \in Seq(Hosts) /\ lists.clients \in Seq(Rows(Hosts, Settings))
      /\ lists.supervisors = [i \in DOMAIN lists.clients |-> lists.clients[i].id]
  BY DEF InfraInv, InfraTyped, AlignedLists, Aligned, Lists
<1> HIDE DEF r
<1>4. /\ lists' = [lists EXCEPT !.supervisors = Append(lists.supervisors, h), !.clients = Append(lists.clients, r)]
      /\ UNCHANGED <<infraStatus, infraCalls, row, hosts, infraCalm, removed>>
  BY <1>1 DEF EditLists, AddSupervisor, r
<1> DEFINE s == Append(lists.supervisors, h)
           t == Append(lists.clients, r)
           T == Rows(Hosts, Settings)
<1>10. /\ s \in Seq(Hosts) /\ Len(s) = Len(lists.supervisors) + 1 /\ Len(lists.supervisors) \in Nat
       /\ DOMAIN s = 1..(Len(lists.supervisors) + 1) /\ DOMAIN lists.supervisors = 1..Len(lists.supervisors)
       /\ \A i \in DOMAIN lists.supervisors : i \in DOMAIN s /\ s[i] = lists.supervisors[i]
       /\ s[Len(lists.supervisors) + 1] = h
  BY <1>3, Appended
<1>11. /\ t \in Seq(T) /\ Len(t) = Len(lists.clients) + 1 /\ Len(lists.clients) \in Nat
       /\ DOMAIN t = 1..(Len(lists.clients) + 1) /\ DOMAIN lists.clients = 1..Len(lists.clients)
       /\ \A i \in DOMAIN lists.clients : i \in DOMAIN t /\ t[i] = lists.clients[i]
       /\ t[Len(lists.clients) + 1] = r
  <2>1. lists.clients \in Seq(T) /\ r \in T
    BY <1>2, <1>3
  <2> HIDE DEF T
  <2>2. QED
    BY <2>1, Appended
<1>12. lists' = [lists EXCEPT !.supervisors = s, !.clients = t]
  BY <1>4
<1> HIDE DEF s, t
<1>5. lists'.supervisors = s /\ lists'.clients = t /\ lists'.servers = lists.servers /\ lists' \in Lists
  BY <1>3, <1>10, <1>11, <1>12 DEF Lists
<1>6. Aligned(lists')
  <2>1. Len(lists.supervisors) = Len(lists.clients)
    BY <1>3, <1>10, <1>11
  <2>3. \A i \in 1..(Len(lists.clients) + 1) : s[i] = t[i].id
    <3>1. \A i \in 1..(Len(lists.clients) + 1) : i \in 1..Len(lists.clients) \/ i = Len(lists.clients) + 1
      BY <1>11
    <3>2. \A i \in 1..Len(lists.clients) : lists.supervisors[i] = lists.clients[i].id
      BY <1>3, <1>11
    <3>3. QED
      BY <1>2, <1>10, <1>11, <2>1, <3>1, <3>2
  <2>4. DOMAIN s = DOMAIN t /\ s = [i \in DOMAIN s |-> s[i]]
    BY <1>10, <1>11, <2>1
  <2>5. QED
    BY <1>5, <1>10, <1>11, <2>1, <2>3, <2>4 DEF Aligned
<1>7. ToSet(lists.supervisors) \subseteq ToSet(lists'.supervisors)
  BY <1>5, <1>10 DEF ToSet
<1>8. Covers(lists, removed) => Covers(lists', removed')
  BY <1>4, <1>5, <1>7 DEF Covers
<1>9. QED
  BY <1>4, <1>5, <1>6, <1>8, ListsEdited DEF AlignedLists, InfraInv, InfraTyped

LEMMA SupervisorRemoved ==
  ASSUME InfraInv, RemoveSupervisor PROVE InfraInv'
<1>1. PICK h \in ToSet(lists.supervisors) :
        /\ EditLists([lists EXCEPT !.supervisors = Kept(@, Hosts \ {h}), !.clients = Without(@, h)])
        /\ removed' = removed \cup {h}
  BY DEF RemoveSupervisor
<1>2. lists \in Lists /\ lists.supervisors \in Seq(Hosts) /\ lists.clients \in Seq(Rows(Hosts, Settings))
      /\ removed \subseteq Hosts \cup Servers
  BY DEF InfraInv, InfraTyped, AlignedLists, Lists
<1>3. h \in Hosts
  BY <1>2 DEF ToSet
<1>13. /\ Len(lists.supervisors) = Len(lists.clients)
       /\ \A i \in 1..Len(lists.supervisors) : lists.supervisors[i] = lists.clients[i].id
  <2>1. lists.supervisors = [i \in DOMAIN lists.clients |-> lists.clients[i].id]
    BY DEF InfraInv, InfraTyped, AlignedLists, Aligned
  <2>2. QED
    BY <1>2, <2>1
<1>14. PICK stay, others : stay = Hosts \ {h} /\ others = {r \in ToSet(lists.clients) : r.id # h}
  OBVIOUS
<1> DEFINE s == Kept(lists.supervisors, stay)
           t == Kept(lists.clients, others)
<1>4. /\ s \in Seq(Hosts)
      /\ \A j \in DOMAIN lists.supervisors : lists.supervisors[j] \in stay =>
           \E i \in DOMAIN s : s[i] = lists.supervisors[j]
  <2>1. PICK ls : ls = lists.supervisors
    OBVIOUS
  <2>2. ls \in Seq(Hosts)
    BY <1>2, <2>1
  <2>3. /\ Kept(ls, stay) \in Seq(Hosts)
        /\ \A j \in DOMAIN ls : ls[j] \in stay =>
             \E i \in DOMAIN Kept(ls, stay) : Kept(ls, stay)[i] = ls[j]
    BY <2>2, KeptElems
  <2>4. QED
    BY <2>1, <2>3
<1>5. t \in Seq(Rows(Hosts, Settings))
  <2> DEFINE T == Rows(Hosts, Settings)
  <2>1. lists.clients \in Seq(T)
    BY <1>2
  <2> HIDE DEF T
  <2>2. t \in Seq(T)
    BY <2>1, KeptElems
  <2>3. QED
    BY <2>2 DEF T
<1>6. Len(s) = Len(t) /\ \A i \in 1..Len(s) : s[i] = t[i].id
  <2>2. \A i \in 1..Len(lists.supervisors) :
          lists.supervisors[i] \in stay <=> lists.clients[i] \in others
    BY <1>2, <1>3, <1>13, <1>14 DEF ToSet
  <2> DEFINE T == Rows(Hosts, Settings)
  <2>3. lists.clients \in Seq(T)
    BY <1>2
  <2> HIDE DEF T
  <2>4. QED
    BY <1>2, <1>13, <2>2, <2>3, KeptAligned
<1>7. /\ lists' = [lists EXCEPT !.supervisors = s, !.clients = t]
      /\ UNCHANGED <<infraStatus, infraCalls, row, hosts, infraCalm>>
  BY <1>1, <1>14 DEF EditLists, Without
<1> HIDE DEF s, t
<1>8. lists' \in Lists /\ lists'.supervisors = s /\ lists'.clients = t /\ lists'.servers = lists.servers
  BY <1>2, <1>4, <1>5, <1>7 DEF Lists
<1>9. Aligned(lists')
  BY <1>4, <1>5, <1>6, <1>8 DEF Aligned
<1>10. ToSet(lists.supervisors) \subseteq ToSet(lists'.supervisors) \cup {h}
  <2>1. \A j \in DOMAIN lists.supervisors : lists.supervisors[j] \in Hosts
    BY <1>2
  <2>2. QED
    BY <1>4, <1>8, <1>14, <2>1 DEF ToSet
<1>11. Covers(lists, removed) => Covers(lists', removed')
  BY <1>1, <1>8, <1>10 DEF Covers
<1>12. QED
  BY <1>1, <1>2, <1>3, <1>7, <1>8, <1>9, <1>11, ListsEdited DEF AlignedLists

(* The list of servers, however it changes.                                *)
LEMMA ServersEdited ==
  ASSUME InfraInv, NEW servers \in Seq(Rows(Servers, Urls)), NEW gone \in SUBSET Servers,
         SeqIds(lists.servers) \subseteq SeqIds(servers) \cup gone,
         EditLists([lists EXCEPT !.servers = servers]), removed' = removed \cup gone
  PROVE  InfraInv'
<1>1. lists \in AlignedLists /\ removed \subseteq Hosts \cup Servers
  BY DEF InfraInv, InfraTyped
<1>2. /\ lists' \in AlignedLists /\ lists'.servers = servers /\ lists'.supervisors = lists.supervisors
      /\ UNCHANGED <<infraStatus, infraCalls, row, hosts, infraCalm>>
  BY <1>1, ServersReplaced DEF EditLists
<1>3. Covers(lists, removed) => Covers(lists', removed')
  BY <1>2 DEF Covers
<1>4. QED
  BY <1>1, <1>2, <1>3, ListsEdited

LEMMA ServersChanged ==
  ASSUME InfraInv, AddOpc \/ UpdateOpc \/ RemoveOpc PROVE InfraInv'
<1>1. lists.servers \in Seq(Rows(Servers, Urls)) /\ lists \in Lists
  BY DEF InfraInv, InfraTyped, AlignedLists, Lists
<1>2. CASE AddOpc
  <2>1. PICK s \in Servers : EditLists([lists EXCEPT !.servers = Append(@, [id |-> s, set |-> NewUrl])])
    BY <1>2 DEF AddOpc
  <2> DEFINE new == Append(lists.servers, [id |-> s, set |-> NewUrl])
  <2>2. [id |-> s, set |-> NewUrl] \in Rows(Servers, Urls)
    BY SettingsAssumption DEF Rows
  <2>3. new \in Seq(Rows(Servers, Urls)) /\ \A i \in DOMAIN lists.servers : i \in DOMAIN new /\ new[i] = lists.servers[i]
    BY <1>1, <2>2
  <2>4. EditLists([lists EXCEPT !.servers = new]) /\ removed' = removed
    BY <1>2, <2>1 DEF AddOpc
  <2> HIDE DEF new
  <2>5. SeqIds(lists.servers) \subseteq SeqIds(new) \cup {}
    BY <2>3 DEF SeqIds
  <2>6. removed' = removed \cup {} /\ {} \in SUBSET Servers
    BY <2>4
  <2>7. QED
    BY <2>3, <2>4, <2>5, <2>6, ServersEdited
<1>3. CASE UpdateOpc
  <2>1. PICK i \in DOMAIN lists.servers, u \in Urls : EditLists([lists EXCEPT !.servers[i].set = u])
    BY <1>3 DEF UpdateOpc
  <2> DEFINE new == Reset(lists.servers, i, u)
  <2>2. new \in Seq(Rows(Servers, Urls)) /\ DOMAIN new = DOMAIN lists.servers
        /\ \A j \in DOMAIN lists.servers : new[j].id = lists.servers[j].id
    BY <1>1, RowReplaced
  <2>3. EditLists([lists EXCEPT !.servers = new]) /\ removed' = removed
    BY <1>3, <2>1 DEF UpdateOpc, Reset
  <2> HIDE DEF new
  <2>4. SeqIds(lists.servers) \subseteq SeqIds(new) \cup {}
    BY <2>2 DEF SeqIds
  <2>5. removed' = removed \cup {} /\ {} \in SUBSET Servers
    BY <2>3
  <2>6. QED
    BY <2>2, <2>3, <2>4, <2>5, ServersEdited
<1>4. CASE RemoveOpc
  <2>1. PICK s \in SeqIds(lists.servers) :
          EditLists([lists EXCEPT !.servers = Without(lists.servers, s)]) /\ removed' = removed \cup {s}
    BY <1>4 DEF RemoveOpc
  <2> DEFINE new == Without(lists.servers, s)
  <2>2. /\ new \in Seq(Rows(Servers, Urls))
        /\ SeqIds(lists.servers) \subseteq SeqIds(new) \cup {s}
    BY <1>1, RowLeft
  <2>3. EditLists([lists EXCEPT !.servers = new])
    BY <2>1
  <2> HIDE DEF new
  <2>5. {s} \in SUBSET Servers
    BY <1>1, <2>1, RowElems DEF SeqIds
  <2>6. QED
    BY <2>1, <2>2, <2>3, <2>5, ServersEdited
<1>5. QED
  BY <1>2, <1>3, <1>4

LEMMA ClientsChanged ==
  ASSUME InfraInv, UpdateClients PROVE InfraInv'
<1>1. lists \in Lists /\ Aligned(lists) /\ lists.clients \in Seq(Rows(Hosts, Settings))
  BY DEF InfraInv, InfraTyped, AlignedLists, Lists
<1>2. /\ lists' \in Lists /\ lists'.supervisors = lists.supervisors /\ lists'.servers = lists.servers
      /\ DOMAIN lists'.clients = DOMAIN lists.clients
      /\ \A i \in DOMAIN lists.clients : lists'.clients[i].id = lists.clients[i].id
  <2>1. CASE \E i \in DOMAIN lists.clients, x \in Settings : EditLists([lists EXCEPT !.clients[i].set = x])
    <3>1. PICK i \in DOMAIN lists.clients, x \in Settings : lists' = [lists EXCEPT !.clients[i].set = x]
      BY <2>1 DEF EditLists
    <3> DEFINE new == Reset(lists.clients, i, x)
    <3>2. /\ new \in Seq(Rows(Hosts, Settings)) /\ DOMAIN new = DOMAIN lists.clients
          /\ \A j \in DOMAIN lists.clients : new[j].id = lists.clients[j].id
      BY <1>1, RowReplaced
    <3>3. lists' = [lists EXCEPT !.clients = new]
      BY <3>1 DEF Reset
    <3> HIDE DEF new
    <3>4. QED
      BY <1>1, <3>2, <3>3 DEF Lists
  <2>2. CASE \E x \in Settings : EditLists([lists EXCEPT !.hmi = x])
    BY <1>1, <2>2 DEF EditLists, Lists
  <2>3. QED
    BY <2>1, <2>2 DEF UpdateClients
<1>3. Aligned(lists')
  BY <1>1, <1>2 DEF Aligned
<1>4. UNCHANGED <<infraStatus, infraCalls, row, hosts, infraCalm, removed>>
  BY DEF UpdateClients, EditLists
<1>5. removed' \subseteq Hosts \cup Servers
  BY <1>4 DEF InfraInv, InfraTyped
<1>6. Covers(lists, removed) => Covers(lists', removed')
  BY <1>2, <1>4 DEF Covers
<1>7. QED
  BY <1>2, <1>3, <1>4, <1>5, <1>6, ListsEdited DEF AlignedLists

LEMMA InfraSaved ==
  ASSUME InfraInv, Save PROVE InfraInv'
<1>1. PICK kind \in {"apply", "clients"} :
        /\ infraCalls' = Append(infraCalls, InfraAsked(kind, lists)) /\ infraStatus' = "busy"
        /\ infraCalm' = (infraCalm /\ infraCalls = <<>>)
        /\ UNCHANGED <<lists, row, hosts, removed>>
  BY DEF Save
<1> DEFINE c == InfraAsked(kind, lists)
<1>2. infraCalls \in Seq(InfraCall) /\ lists \in AlignedLists /\ lists \in Lists
  BY DEF InfraInv, InfraTyped, AlignedLists
<1>3. c \in InfraCall /\ c.kind = kind /\ c.arg = lists /\ c.phase = "sent"
  BY <1>2 DEF InfraAsked, InfraCall
<1>4. infraCalls' = Append(infraCalls, c)
  BY <1>1
<1> HIDE DEF c
<1>5. infraCalls' \in Seq(InfraCall) /\ infraCalm' \in BOOLEAN
  BY <1>1, <1>2, <1>3, <1>4
<1>6. InfraTyped'
  BY <1>1, <1>5 DEF InfraInv, InfraTyped
<1>7. ASSUME infraCalm' PROVE RowFollows'
  <2>1. infraCalm /\ infraCalls = <<>>
    BY <1>1, <1>7
  <2>2. RowFollows /\ Agree /\ Covers(lists, removed)
    BY <2>1 DEF InfraInv, RowFollows
  <2>3. Len(infraCalls') = 1 /\ DOMAIN infraCalls' = {1} /\ infraCalls'[1] = c
    BY <1>4, <2>1
  <2>4. Agree'
    BY <1>1, <2>2 DEF Agree
  <2>5. QED
    BY <1>1, <1>3, <2>2, <2>3, <2>4 DEF RowFollows, Ready
<1>8. QED
  BY <1>6, <1>7 DEF InfraInv

LEMMA InfraUsed == ASSUME InfraInv, UseInfra PROVE InfraInv'
  BY SupervisorAdded, SupervisorRemoved, ServersChanged, ClientsChanged, InfraSaved DEF UseInfra

(* A call i whose entry is replaced by the entry c.                        *)
LEMMA EntryReplaced ==
  ASSUME InfraInv, NEW i \in DOMAIN infraCalls, NEW c \in InfraCall,
         infraCalls' = [infraCalls EXCEPT ![i] = c],
         UNCHANGED <<lists, infraStatus, removed, infraCalm>>,
         row' \in Lists, hosts' \in [Hosts -> Settings],
         RowFollows => Covers(row', removed) /\ Ready(c)' /\ (infraCalls[i].kind = "read" => c.kind = "read")
  PROVE  InfraInv'
<1>1. infraCalls \in Seq(InfraCall)
  BY DEF InfraInv, InfraTyped
<1>2. /\ infraCalls' \in Seq(InfraCall) /\ Len(infraCalls') = Len(infraCalls)
      /\ DOMAIN infraCalls' = DOMAIN infraCalls /\ infraCalls'[i] = c
      /\ \A j \in DOMAIN infraCalls : j # i => infraCalls'[j] = infraCalls[j]
  BY <1>1
<1>3. InfraTyped'
  BY <1>2 DEF InfraInv, InfraTyped
<1>4. ASSUME RowFollows PROVE RowFollows'
  <2>1. DOMAIN infraCalls = 1..Len(infraCalls) /\ Len(infraCalls) \in Nat /\ Len(infraCalls) <= 1
    BY <1>1, <1>4 DEF RowFollows
  <2>2. \A j \in DOMAIN infraCalls : j = i
    BY <2>1
  <2>3. infraCalls' # <<>>
    BY <1>1, <1>2
  <2>4. Ready(c)' /\ Covers(row', removed)
    BY <1>4
  <2>5. (\A j \in DOMAIN infraCalls : Ready(infraCalls[j]))'
    <3>1. \A j \in DOMAIN infraCalls' : infraCalls'[j] = c
      BY <1>2, <2>2
    <3>2. QED
      BY <2>4, <3>1 DEF Ready, Covers, Pushing, Agree
  <2>6. Covers(lists, removed) \/ \E j \in DOMAIN infraCalls' : infraCalls'[j].kind = "read"
    BY <1>2, <1>4, <2>2 DEF RowFollows
  <2>7. QED
    BY <1>2, <2>1, <2>3, <2>4, <2>5, <2>6 DEF RowFollows
<1>5. QED
  BY <1>3, <1>4 DEF InfraInv

(* A call i that ends.                                                     *)
LEMMA EntryTaken ==
  ASSUME InfraInv, NEW i \in DOMAIN infraCalls, InfraTaken(i), UNCHANGED <<row, hosts, removed>>,
         lists' \in AlignedLists, infraStatus' \in {"none", "busy", "ok", "partial", "failed"},
         infraCalm' \in BOOLEAN,
         infraCalm' => infraCalm /\ infraCalls[i].phase = "ok" /\ (RowFollows => Covers(lists', removed))
  PROVE  InfraInv'
<1>1. infraCalls \in Seq(InfraCall)
  BY DEF InfraInv, InfraTyped
<1>2. infraCalls' \in Seq(InfraCall) /\ Len(infraCalls') = Len(infraCalls) - 1
  BY <1>1, Remaining DEF InfraTaken
<1>3. InfraTyped'
  BY <1>2 DEF InfraInv, InfraTyped
<1>4. ASSUME infraCalm' PROVE RowFollows'
  <2>1. RowFollows
    BY <1>4 DEF InfraInv
  <2>2. Len(infraCalls') = 0
    <3>1. Len(infraCalls) \in Nat /\ Len(infraCalls') \in Nat /\ Len(infraCalls) <= 1
      BY <1>1, <1>2, <2>1 DEF RowFollows
    <3>2. QED
      BY <1>2, <3>1
  <2>3. infraCalls' = <<>> /\ DOMAIN infraCalls' = {}
    BY <1>2, <2>2
  <2>4. Agree
    BY <1>4, <2>1 DEF RowFollows, Ready
  <2>5. Agree'
    BY <2>4 DEF Agree
  <2>6. Covers(row, removed) /\ Covers(lists', removed)
    BY <1>4, <2>1 DEF RowFollows
  <2>7. QED
    BY <2>2, <2>3, <2>5, <2>6 DEF RowFollows
<1>5. QED
  BY <1>3, <1>4 DEF InfraInv

LEMMA NormalCovers ==
  ASSUME NEW r \in Lists, NEW gone, Covers(r, gone)
  PROVE  Covers(Normal(r), gone)
<1>1. /\ Normal(r).supervisors = r.supervisors
      /\ Normal(r).servers = IF r.servers = <<>> THEN DefaultServers ELSE r.servers
  BY NormalTyped
<1>2. r.servers = <<>> => SeqIds(r.servers) = {}
  BY DEF SeqIds
<1>3. QED
  BY <1>1, <1>2 DEF Covers

LEMMA CallsAreTyped ==
  ASSUME InfraInv, NEW i \in DOMAIN infraCalls
  PROVE  infraCalls[i] \in InfraCall /\ (RowFollows => Ready(infraCalls[i]))
<1>1. infraCalls \in Seq(InfraCall)
  BY DEF InfraInv, InfraTyped
<1>2. infraCalls[i] \in InfraCall
  BY <1>1
<1>3. QED
  BY <1>2 DEF RowFollows

(* A step of the HMI that leaves the row and the hosts alone.              *)
LEMMA RowRead ==
  ASSUME InfraInv, NEW i \in DOMAIN infraCalls,
         ReadRow(i) \/ TakeSave(i) \/ TakeClients(i) \/ Pushed(i) \/ Reconnect(i) \/ PushFails(i)
  PROVE  InfraInv'
<1>1. PICK c : c = infraCalls[i]
  OBVIOUS
<1>2. c \in InfraCall /\ (RowFollows => Ready(c)) /\ row \in Lists /\ hosts \in [Hosts -> Settings]
  BY <1>1, CallsAreTyped DEF InfraInv, InfraTyped
<1>3. UNCHANGED <<row, hosts, lists, infraStatus, removed, infraCalm>>
  BY DEF ReadRow, TakeSave, TakeClients, Pushed, Reconnect, PushFails, InfraAt
<1>4. ASSUME NEW d \in InfraCall, infraCalls' = [infraCalls EXCEPT ![i] = d],
             RowFollows => Ready(d), c.kind = "read" => d.kind = "read"
      PROVE  InfraInv'
  <2>1. Ready(d)' = Ready(d)
    BY <1>3 DEF Ready, Agree, Pushing
  <2>2. RowFollows => Covers(row', removed) /\ Ready(d)' /\ (infraCalls[i].kind = "read" => d.kind = "read")
    BY <1>1, <1>3, <1>4, <2>1 DEF RowFollows
  <2>3. QED
    BY <1>2, <1>3, <1>4, <2>2, EntryReplaced
<1>5. CASE ReadRow(i)
  <2>1. PICK d : d = [c EXCEPT !.row = Normal(row), !.phase = "ok"]
    OBVIOUS
  <2>2. c.kind = "read" /\ c.phase = "sent" /\ infraCalls' = [infraCalls EXCEPT ![i] = d]
    BY <1>1, <1>5, <2>1 DEF ReadRow, InfraAt, InPhase
  <2>3. Normal(row) \in Lists
    BY <1>2, NormalTyped DEF AlignedLists
  <2>4. d \in InfraCall /\ d.kind = "read" /\ d.phase = "ok" /\ d.row = Normal(row)
    BY <1>2, <2>1, <2>2, <2>3 DEF InfraCall
  <2>5. ASSUME RowFollows PROVE Ready(d)
    <3>1. Covers(Normal(row), removed)
      BY <1>2, <2>5, NormalCovers DEF RowFollows
    <3>2. QED
      BY <1>2, <2>2, <2>4, <2>5, <3>1 DEF Ready
  <2>6. QED
    BY <1>4, <2>2, <2>4, <2>5
<1>6. CASE TakeSave(i)
  <2>1. PICK d : d = IF Unique(c.arg.servers) THEN [c EXCEPT !.row = c.arg, !.phase = "taken"]
                     ELSE [c EXCEPT !.phase = "refused"]
    OBVIOUS
  <2>2. c.kind = "apply" /\ c.phase = "sent" /\ infraCalls' = [infraCalls EXCEPT ![i] = d]
    BY <1>1, <1>6, <2>1 DEF TakeSave, InfraAt, InPhase
  <2>3. c.arg \in AlignedLists /\ c.arg \in Lists
    BY <1>2, <2>2 DEF InfraCall, AlignedLists
  <2>4. /\ d \in InfraCall /\ d.kind = "apply" /\ d.arg = c.arg
        /\ d.phase \in {"taken", "refused"} /\ (d.phase = "taken" => d.row = c.arg)
    <3>1. CASE Unique(c.arg.servers)
      BY <1>2, <2>1, <2>2, <2>3, <3>1 DEF InfraCall
    <3>2. CASE ~Unique(c.arg.servers)
      BY <1>2, <2>1, <2>2, <2>3, <3>2 DEF InfraCall
    <3>3. QED
      BY <3>1, <3>2
  <2>5. RowFollows => Ready(d)
    BY <1>2, <2>2, <2>4 DEF Ready
  <2>6. QED
    BY <1>4, <2>2, <2>4, <2>5
<1>7. CASE TakeClients(i)
  <2> DEFINE n == Normal(row)
             m == [n EXCEPT !.supervisors = c.arg.supervisors, !.clients = c.arg.clients]
  <2>1. PICK r, d : r = m /\ d = [c EXCEPT !.phase = "taken", !.row = r]
    OBVIOUS
  <2>2. c.kind = "clients" /\ c.phase = "sent" /\ infraCalls' = [infraCalls EXCEPT ![i] = d]
    BY <1>1, <1>7, <2>1 DEF TakeClients, InfraAt, InPhase
  <2>3. c.arg \in AlignedLists /\ c.arg \in Lists /\ Aligned(c.arg)
    BY <1>2, <2>2 DEF InfraCall, AlignedLists
  <2>4. n \in Lists
    BY <1>2, NormalTyped DEF AlignedLists
  <2>5. r \in AlignedLists /\ r.supervisors = c.arg.supervisors /\ r.servers = n.servers
    <3> HIDE DEF n
    <3>1. /\ r \in Lists /\ r.supervisors = c.arg.supervisors /\ r.clients = c.arg.clients
          /\ r.servers = n.servers
      BY <2>1, <2>3, <2>4 DEF Lists
    <3>2. QED
      BY <2>3, <3>1 DEF AlignedLists, Aligned
  <2>6. d \in InfraCall /\ d.kind = "clients" /\ d.phase = "taken" /\ d.row = r /\ d.arg = c.arg
    BY <1>2, <2>1, <2>2, <2>3, <2>5 DEF InfraCall, AlignedLists
  <2>7. ASSUME RowFollows PROVE Ready(d)
    <3>1. Covers(n, removed)
      BY <1>2, <2>7, NormalCovers DEF RowFollows
    <3>2. Covers(c.arg, removed)
      BY <1>2, <2>2, <2>7 DEF Ready
    <3>3. Covers(r, removed)
      BY <2>5, <3>1, <3>2 DEF Covers
    <3>4. QED
      BY <1>2, <2>2, <2>6, <2>7, <3>2, <3>3 DEF Ready
  <2>8. QED
    BY <1>4, <2>2, <2>6, <2>7
<1>8. CASE Pushed(i)
  <2>1. PICK d : d = [c EXCEPT !.phase = IF c.failed THEN "refused" ELSE "ok"]
    OBVIOUS
  <2>2. c.phase = "pushing" /\ c.todo = <<>> /\ infraCalls' = [infraCalls EXCEPT ![i] = d]
    BY <1>1, <1>8, <2>1 DEF Pushed, InfraAt, InPhase
  <2>3. c.kind \in {"apply", "clients"} /\ c.failed \in BOOLEAN
    BY <1>2, <2>2 DEF InfraCall
  <2>4. d \in InfraCall /\ d.kind = c.kind /\ d.arg = c.arg
    BY <1>2, <2>1, <2>2, <2>3 DEF InfraCall
  <2>7. d.phase = IF c.failed THEN "refused" ELSE "ok"
    BY <1>2, <2>1 DEF InfraCall
  <2>5. ASSUME RowFollows PROVE Ready(d)
    <3>1. Ready(c)
      BY <1>2, <2>5
    <3>2. ToSet(c.todo) = {}
      BY <2>2 DEF ToSet
    <3>3. ~c.failed => Agree
      BY <2>2, <3>1, <3>2 DEF Ready, Pushing, Agree
    <3>4. QED
      BY <2>3, <2>4, <2>7, <3>1, <3>3 DEF Ready
  <2>6. QED
    BY <1>4, <2>2, <2>3, <2>4, <2>5
<1>9. CASE Reconnect(i)
  <2>1. PICK d : d = [c EXCEPT !.phase = "ok"]
    OBVIOUS
  <2>2. c.kind = "reconnect" /\ c.phase = "sent" /\ infraCalls' = [infraCalls EXCEPT ![i] = d]
    BY <1>1, <1>9, <2>1 DEF Reconnect, InfraAt, InPhase
  <2>3. d \in InfraCall /\ d.kind = "reconnect" /\ d.phase = "ok"
    BY <1>2, <2>1, <2>2 DEF InfraCall
  <2>4. RowFollows => Ready(d)
    BY <1>2, <2>2, <2>3 DEF Ready
  <2>5. QED
    BY <1>4, <2>2, <2>3, <2>4
<1>10. CASE PushFails(i)
  <2>1. PICK d : d = [c EXCEPT !.todo = Tail(c.todo), !.failed = TRUE]
    OBVIOUS
  <2>2. c.phase = "pushing" /\ c.todo # <<>> /\ infraCalls' = [infraCalls EXCEPT ![i] = d]
    BY <1>1, <1>10, <2>1 DEF PushFails, InfraAt, InPhase
  <2>3. /\ c.todo \in Seq(Hosts) /\ c.kind \in {"apply", "clients"}
        /\ \A k \in DOMAIN c.todo : c.todo[k] \in SeqIds(c.row.clients)
    BY <1>2, <2>2 DEF InfraCall
  <2>4. Tail(c.todo) \in Seq(Hosts) /\ \A k \in DOMAIN Tail(c.todo) : Tail(c.todo)[k] \in SeqIds(c.row.clients)
    BY <2>2, <2>3
  <2>5. d \in InfraCall /\ d.kind = c.kind /\ d.phase = "pushing" /\ d.failed = TRUE /\ d.row = c.row /\ d.arg = c.arg
    BY <1>2, <2>1, <2>2, <2>4 DEF InfraCall
  <2>6. RowFollows => Ready(d)
    BY <1>2, <2>2, <2>3, <2>5 DEF Ready
  <2>7. QED
    BY <1>4, <2>2, <2>3, <2>5, <2>6
<1>11. QED
  BY <1>5, <1>6, <1>7, <1>8, <1>9, <1>10

(* The save itself: every host of the row that is stored is to be told.    *)
LEMMA RowStored ==
  ASSUME InfraInv, NEW i \in DOMAIN infraCalls, StoreRow(i)
  PROVE  InfraInv'
<1>1. PICK c : c = infraCalls[i]
  OBVIOUS
<1>2. c \in InfraCall /\ (RowFollows => Ready(c)) /\ row \in Lists /\ hosts \in [Hosts -> Settings]
  BY <1>1, CallsAreTyped DEF InfraInv, InfraTyped
<1>3. c.phase = "taken" /\ c.kind \in {"apply", "clients"} /\ c.row \in AlignedLists
  BY <1>1, <1>2 DEF StoreRow, InPhase, InfraCall
<1>4. PICK r, known, todo : r = c.row /\ known = SeqIds(r.clients) /\ todo = Kept(r.supervisors, known)
  OBVIOUS
<1>5. r \in Lists /\ r.supervisors \in Seq(Hosts) /\ Aligned(r)
  BY <1>3, <1>4 DEF AlignedLists, Lists
<1>6. PICK d : d = [c EXCEPT !.phase = "pushing", !.todo = todo]
  OBVIOUS
<1>7. /\ infraCalls' = [infraCalls EXCEPT ![i] = d] /\ row' = Normal(r)
      /\ UNCHANGED <<hosts, lists, infraStatus, removed, infraCalm>>
  BY <1>1, <1>4, <1>6 DEF StoreRow, InfraAt
<1>8. /\ todo \in Seq(Hosts) /\ \A k \in DOMAIN todo : todo[k] \in known
      /\ \A j \in DOMAIN r.supervisors : r.supervisors[j] \in known => r.supervisors[j] \in ToSet(todo)
  <2>1. PICK s : s = r.supervisors
    OBVIOUS
  <2>2. s \in Seq(Hosts) /\ todo = Kept(s, known)
    BY <1>4, <1>5, <2>1
  <2>3. /\ Kept(s, known) \in Seq(Hosts)
        /\ \A k \in DOMAIN Kept(s, known) : Kept(s, known)[k] \in known
    BY <2>2, KeptElems
  <2>4. /\ Kept(s, known) \in Seq(Hosts)
        /\ \A j \in DOMAIN s : s[j] \in known => \E k \in DOMAIN Kept(s, known) : Kept(s, known)[k] = s[j]
    BY <2>2, KeptElems
  <2>5. QED
    BY <2>1, <2>2, <2>3, <2>4 DEF ToSet
<1>9. d \in InfraCall /\ d.kind = c.kind /\ d.arg = c.arg /\ d.phase = "pushing" /\ d.row = r /\ d.todo = todo
  BY <1>2, <1>3, <1>4, <1>6, <1>8 DEF InfraCall
<1>10. /\ Normal(r) \in AlignedLists /\ Normal(r) \in Lists /\ Normal(r).supervisors = r.supervisors
       /\ DOMAIN Normal(r).clients = DOMAIN r.supervisors
       /\ \A k \in DOMAIN r.supervisors : r.supervisors[k] \in known => Normal(r).clients[k] = ClientOf(r, r.supervisors[k])
  BY <1>4, <1>5, NormalTyped DEF AlignedLists
<1>11. \A k \in DOMAIN r.supervisors : r.supervisors[k] \in known /\ Normal(r).clients[k].id = r.supervisors[k]
  <2>1. r.supervisors = [k \in DOMAIN r.clients |-> r.clients[k].id]
    BY <1>5 DEF Aligned
  <2>2. \A k \in DOMAIN r.supervisors : r.supervisors[k] = r.clients[k].id /\ k \in DOMAIN r.clients
    BY <2>1
  <2>3. Normal(r).supervisors = [k \in DOMAIN Normal(r).clients |-> Normal(r).clients[k].id]
    BY <1>10 DEF AlignedLists, Aligned
  <2>4. \A k \in DOMAIN r.supervisors : Normal(r).clients[k].id = r.supervisors[k]
    BY <1>10, <2>3
  <2>5. QED
    BY <1>4, <2>2, <2>4 DEF SeqIds
<1>12. Pushing(d)'
  <2>1. \A k \in DOMAIN row'.clients :
          /\ row'.clients[k] = ClientOf(r, row'.clients[k].id)
          /\ row'.clients[k].id \in ToSet(todo)
    BY <1>7, <1>8, <1>10, <1>11
  <2>2. QED
    BY <1>9, <2>1 DEF Pushing
<1>13. ASSUME RowFollows PROVE Covers(row', removed) /\ Ready(d)'
  <2>1. Covers(r, removed) /\ (c.kind \in {"apply", "clients"} => Covers(c.arg, removed))
    BY <1>2, <1>3, <1>4, <1>13 DEF Ready
  <2>2. Covers(row', removed)
    BY <1>5, <1>7, <2>1, NormalCovers
  <2>3. Covers(r, removed') /\ Covers(d.arg, removed')
    BY <1>3, <1>7, <1>9, <2>1
  <2>4. Ready(d)'
    BY <1>3, <1>9, <1>12, <2>3 DEF Ready, Covers
  <2>5. QED
    BY <2>2, <2>4
<1>14. QED
  BY <1>1, <1>2, <1>3, <1>7, <1>9, <1>10, <1>13, EntryReplaced

(* A host is told: it has the settings of its row, the others are as they  *)
(* were.                                                                   *)
LEMMA HostTold ==
  ASSUME InfraInv, NEW i \in DOMAIN infraCalls, Push(i)
  PROVE  InfraInv'
<1>1. PICK c, h, d : c = infraCalls[i] /\ h = Head(c.todo) /\ d = [c EXCEPT !.todo = Tail(c.todo)]
  OBVIOUS
<1>2. c \in InfraCall /\ (RowFollows => Ready(c)) /\ row \in Lists /\ hosts \in [Hosts -> Settings]
  BY <1>1, CallsAreTyped DEF InfraInv, InfraTyped
<1>3. c.phase = "pushing" /\ c.todo # <<>> /\ infraCalls' = [infraCalls EXCEPT ![i] = d]
  BY <1>1 DEF Push, InfraAt, InPhase
<1>4. /\ c.todo \in Seq(Hosts) /\ c.kind \in {"apply", "clients"} /\ c.row \in AlignedLists /\ c.row \in Lists
      /\ \A k \in DOMAIN c.todo : c.todo[k] \in SeqIds(c.row.clients)
  BY <1>2, <1>3 DEF InfraCall, AlignedLists
<1>5. /\ Tail(c.todo) \in Seq(Hosts) /\ \A k \in DOMAIN Tail(c.todo) : Tail(c.todo)[k] \in SeqIds(c.row.clients)
      /\ h \in Hosts /\ h \in SeqIds(c.row.clients)
      /\ \A k \in DOMAIN c.todo : c.todo[k] = h \/ \E m \in DOMAIN Tail(c.todo) : Tail(c.todo)[m] = c.todo[k]
  <2>1. PICK t : t = c.todo
    OBVIOUS
  <2>2. /\ t \in Seq(Hosts) /\ t # <<>>
    BY <1>3, <1>4, <2>1
  <2>3. /\ Len(t) \in Nat /\ Len(t) > 0 /\ DOMAIN t = 1..Len(t) /\ Head(t) = t[1]
        /\ Tail(t) \in Seq(Hosts) /\ DOMAIN Tail(t) = 1..(Len(t) - 1) /\ \A m \in 1..(Len(t) - 1) : Tail(t)[m] = t[m + 1]
    BY <2>2
  <2>4. ASSUME NEW k \in DOMAIN t, k # 1 PROVE k - 1 \in DOMAIN Tail(t) /\ Tail(t)[k - 1] = t[k]
    BY <2>3, <2>4
  <2>5. ASSUME NEW m \in DOMAIN Tail(t) PROVE m + 1 \in DOMAIN t /\ Tail(t)[m] = t[m + 1]
    BY <2>3
  <2>6. 1 \in DOMAIN t
    BY <2>3
  <2>7. \A k \in DOMAIN t : t[k] \in SeqIds(c.row.clients)
    BY <1>4, <2>1
  <2>8. h = t[1] /\ h \in Hosts /\ h \in SeqIds(c.row.clients)
    BY <1>1, <2>1, <2>2, <2>3, <2>6, <2>7
  <2>9. \A k \in DOMAIN Tail(t) : Tail(t)[k] \in SeqIds(c.row.clients)
    BY <2>5, <2>7
  <2>10. \A k \in DOMAIN t : t[k] = h \/ \E m \in DOMAIN Tail(t) : Tail(t)[m] = t[k]
    BY <2>4, <2>8
  <2>11. QED
    BY <2>1, <2>3, <2>8, <2>9, <2>10
<1>6. ClientOf(c.row, h).set \in Settings
  <2>1. ClientOf(c.row, h) \in Rows(Hosts, Settings)
    BY <1>4, <1>5, ClientFound
  <2>2. QED
    BY <2>1 DEF Rows
<1>7. /\ hosts' = [hosts EXCEPT ![h] = ClientOf(c.row, h).set]
      /\ UNCHANGED <<row, lists, infraStatus, removed, infraCalm>>
  BY <1>1 DEF Push, InfraAt
<1>8. hosts' \in [Hosts -> Settings] /\ hosts'[h] = ClientOf(c.row, h).set
      /\ \A g \in Hosts : g # h => hosts'[g] = hosts[g]
  BY <1>2, <1>5, <1>6, <1>7
<1>9. d \in InfraCall /\ d.kind = c.kind /\ d.arg = c.arg /\ d.phase = "pushing" /\ d.row = c.row
      /\ d.todo = Tail(c.todo) /\ d.failed = c.failed
  BY <1>1, <1>2, <1>3, <1>4, <1>5 DEF InfraCall
<1>10. ASSUME RowFollows PROVE Ready(d)'
  <2>1. Ready(c)
    BY <1>2, <1>10
  <2>2. ASSUME ~d.failed PROVE Pushing(d)'
    <3>1. Pushing(c)
      BY <1>3, <1>9, <2>1, <2>2 DEF Ready
    <3>2. ASSUME NEW k \in DOMAIN row.clients, row.clients[k].id \in ToSet(row.supervisors)
          PROVE  /\ row.clients[k].set = ClientOf(d.row, row.clients[k].id).set
                 /\ row.clients[k].id \in ToSet(d.todo) \/ hosts'[row.clients[k].id] = row.clients[k].set
      <4>1. PICK g, x : g = row.clients[k].id /\ x = row.clients[k].set
        OBVIOUS
      <4>2. g \in Hosts
        <5>1. row.clients \in Seq(Rows(Hosts, Settings))
          BY <1>2 DEF Lists
        <5>2. QED
          BY <4>1, <5>1, RowElems
      <4>3. x = ClientOf(c.row, g).set /\ (g \in ToSet(c.todo) \/ hosts[g] = x)
        BY <3>1, <3>2, <4>1 DEF Pushing
      <4>4. g = h \/ g \in ToSet(Tail(c.todo)) \/ hosts'[g] = x
        BY <1>5, <1>8, <4>2, <4>3 DEF ToSet
      <4>5. QED
        BY <1>8, <1>9, <4>1, <4>3, <4>4
    <3>3. QED
      BY <1>7, <3>2 DEF Pushing
  <2>3. QED
    BY <1>3, <1>7, <1>9, <2>1, <2>2 DEF Ready
<1>11. QED
  BY <1>1, <1>2, <1>7, <1>8, <1>9, <1>3, <1>10, EntryReplaced DEF RowFollows

(* The answers, and the calls that are lost.                               *)
LEMMA InfraHeard ==
  ASSUME InfraInv, NEW i \in DOMAIN infraCalls, HearInfra(i) \/ LoseInfraCall(i)
  PROVE  InfraInv'
<1>1. PICK c : c = infraCalls[i]
  OBVIOUS
<1>2. /\ c \in InfraCall /\ (RowFollows => Ready(c)) /\ row \in Lists /\ hosts \in [Hosts -> Settings]
      /\ lists \in AlignedLists /\ infraCalm \in BOOLEAN /\ infraCalls \in Seq(InfraCall)
      /\ infraStatus \in {"none", "busy", "ok", "partial", "failed"}
  BY <1>1, CallsAreTyped DEF InfraInv, InfraTyped
<1>3. CASE HearRow(i)
  <2>1. c.kind = "read" /\ c.phase = "ok"
    BY <1>1, <1>3 DEF HearRow, InPhase
  <2>2. c.row \in Lists
    BY <1>2, <2>1 DEF InfraCall
  <2>3. /\ InfraTaken(i) /\ lists' = Filled(c.row, Default)
        /\ UNCHANGED <<infraStatus, row, hosts, removed, infraCalm>>
    BY <1>1, <1>3 DEF HearRow
  <2>4. /\ lists' \in AlignedLists /\ lists'.supervisors = c.row.supervisors /\ lists'.servers = c.row.servers
    BY <2>2, <2>3, SettingsAssumption, FilledTyped
  <2>5. RowFollows => Covers(lists', removed)
    BY <1>2, <2>1, <2>4 DEF Ready, Covers
  <2>6. QED
    BY <1>1, <1>2, <2>1, <2>3, <2>4, <2>5, EntryTaken
<1>4. CASE HearSaved(i)
  <2>1. c.kind # "read" /\ c.phase = "ok" /\ UNCHANGED <<lists, row, hosts, removed, infraCalm>>
    BY <1>1, <1>4 DEF HearSaved, InPhase
  <2>2. CASE c.kind = "apply"
    <3>1. PICK d : d = InfraAsked("reconnect", None)
      OBVIOUS
    <3>2. d \in InfraCall /\ d.kind = "reconnect" /\ d.phase = "sent"
      BY <3>1 DEF InfraAsked, InfraCall
    <3>3. infraCalls' = [infraCalls EXCEPT ![i] = d] /\ UNCHANGED infraStatus
      BY <1>1, <1>4, <2>2, <3>1 DEF HearSaved
    <3>4. ASSUME RowFollows PROVE Covers(row', removed) /\ Ready(d)'
      <4>1. Agree /\ Covers(row, removed)
        BY <1>2, <2>1, <3>4 DEF Ready, RowFollows
      <4>2. Agree'
        BY <2>1, <4>1 DEF Agree
      <4>3. QED
        BY <2>1, <3>2, <4>1, <4>2 DEF Ready
    <3>5. QED
      BY <1>1, <1>2, <2>1, <3>2, <3>3, <3>4, EntryReplaced
  <2>3. CASE c.kind # "apply"
    <3>1. InfraTaken(i) /\ infraStatus' = "ok"
      BY <1>1, <1>4, <2>3 DEF HearSaved
    <3>2. ASSUME RowFollows PROVE Covers(lists', removed)
      <4>1. DOMAIN infraCalls = 1..Len(infraCalls) /\ Len(infraCalls) \in Nat /\ Len(infraCalls) <= 1
        BY <1>2, <3>2 DEF RowFollows
      <4>2. \A j \in DOMAIN infraCalls : infraCalls[j].kind # "read"
        BY <1>1, <2>1, <4>1
      <4>3. QED
        BY <2>1, <3>2, <4>2 DEF RowFollows
    <3>3. QED
      BY <1>1, <1>2, <2>1, <3>1, <3>2, EntryTaken
  <2>4. QED
    BY <2>2, <2>3
<1>5. CASE HearInfraRefusal(i) \/ LoseInfraCall(i)
  <2>1. /\ InfraTaken(i) /\ infraCalm' = FALSE /\ infraStatus' \in {"partial", "failed"}
        /\ UNCHANGED <<lists, row, hosts, removed>>
    BY <1>5 DEF HearInfraRefusal, LoseInfraCall, InfraFails
  <2>2. QED
    BY <1>2, <2>1, EntryTaken
<1>6. QED
  BY <1>3, <1>4, <1>5 DEF HearInfra

LEMMA InfraStep == InfraInv /\ [Next]_vars => InfraInv'
<1> SUFFICES ASSUME InfraInv, [Next]_vars PROVE InfraInv'
  OBVIOUS
<1>1. CASE User
  BY <1>1, InfraUsed, InfraStutter DEF User
<1>2. CASE Answers
  <2>1. CASE Infra
    BY <2>1, RowRead, RowStored, HostTold, InfraHeard DEF Infra, ServeInfra
  <2>2. CASE UNCHANGED infra
    BY <2>2, InfraStutter
  <2>3. QED
    BY <1>2, <2>1, <2>2 DEF Answers
<1>3. CASE Losses
  BY <1>3, RowRead, InfraHeard, InfraStutter DEF Losses
<1>4. CASE UNCHANGED vars
  BY <1>4, InfraStutter DEF vars
<1>5. QED
  BY <1>1, <1>2, <1>3, <1>4 DEF Next

(* While no load and no save failed, and none overlapped another, the      *)
(* stored row loses a host or a server only if the administrator removed   *)
(* it, and when nothing is under way every host has the settings of its    *)
(* stored row (save_infrastructure, sync_controller_host_opc_defaults).    *)
THEOREM RowStaysFollowed == Spec => []RowFollowsPage
<1>1. InfraInv => RowFollowsPage
  <2> SUFFICES ASSUME InfraInv, infraCalm PROVE RowFollowsPage
    BY DEF RowFollowsPage
  <2>1. Covers(row, removed) /\ (infraCalls = <<>> => Agree)
    BY DEF InfraInv, RowFollows
  <2>2. QED
    BY <2>1 DEF RowFollowsPage, Covers, Agree
<1>2. QED
  BY <1>1, InfraStart, InfraStep, PTL DEF Spec

-----------------------------------------------------------------------------
(* The security panel.                                                     *)
Clean(c) == \A i \in DOMAIN c.endpoints : c.endpoints[i].open \/ Anon \notin c.endpoints[i].tokens
Sound(c) == c.default \in Ids(c) /\ Clean(c)
Inside(c, set) == \A i \in DOMAIN c.endpoints : c.endpoints[i].tokens \subseteq set
TokenSet == Tokens \cup {Anon}
TokenSets == SUBSET (Tokens \cup {Anon})
(* What the proxy may find for each server.                                *)
AddressType == [Servers -> Urls \cup {None}]

(* What a call carries, whatever becomes of it.                            *)
CallOf(c) ==
  /\ c.kind = "put" => c.arg \in Config /\ Clean(c.arg)
  /\ c.kind = "delete" => c.arg \in Tokens
  /\ c.conf # None => Sound(c.conf)
  /\ c.kind \in Writers /\ c.conf # None => c.toks \in TokenSets
  /\ c.kind # "restart" /\ c.answer = "ok" => c.conf # None
  /\ c.kind \in {"load", "reload"} /\ c.answer = "ok" => c.toks \in TokenSets
GoodCall == {c \in PanelCall : CallOf(c)}

PanelTyped ==
  /\ files \in [Urls -> File]
  /\ \A u \in Urls : files[u].conf.from = u /\ Sound(files[u].conf)
  /\ active \in Servers \cup {None} /\ conf \in Config \cup {None}
  /\ toks \in TokenSets /\ confirming \in BOOLEAN
  /\ secStatus \in {"none", "busy", "ok", "failed"} /\ panelCalm \in BOOLEAN
  /\ panelCalls \in Seq(GoodCall)

(* The panel shows what the file of its server has, at the address the     *)
(* proxy finds for it.                                                     *)
Shows(at) == active # None => /\ conf # None /\ conf.from = at[active]
                              /\ toks = files[at[active]].toks /\ Inside(conf, toks)

(* A call that has no other beside it, from its request to its answer.     *)
CallFollows(at, c) ==
  /\ active \in {None, c.srv}
  /\ c.conf # None => c.conf.from = at[c.srv]
  /\ c.kind \in {"load", "reload"} =>
       /\ c.conf # None => Inside(c.conf, files[at[c.srv]].toks)
       /\ c.toks # None \/ c.answer = "ok" => c.toks = files[at[c.srv]].toks
  /\ c.kind = "put" => /\ c.arg.from = at[c.srv] /\ Inside(c.arg, files[at[c.srv]].toks)
                       /\ c.conf # None => c.toks = files[at[c.srv]].toks
  /\ c.kind \in {"post", "delete"} /\ c.conf # None => Inside(c.conf, c.toks)
  /\ c.kind \in {"put", "restart"} => Shows(at)
PanelFollows(at) ==
  /\ Len(panelCalls) <= 1
  /\ \A u \in Urls : Inside(files[u].conf, files[u].toks)
  /\ panelCalls = <<>> => Shows(at)
  /\ \A i \in DOMAIN panelCalls : CallFollows(at, panelCalls[i])
PanelInv(at) == PanelTyped /\ (panelCalm => PanelFollows(at))

(* A call as it is asked for.                                              *)
LEMMA CallAsked ==
  ASSUME NEW kind \in {"load", "reload", "restart", "post"}, NEW s \in Servers, NEW c,
         c = Asked(kind, s, None)
  PROVE  /\ c \in GoodCall /\ c.kind = kind /\ c.srv = s /\ c.conf = None /\ c.toks = None
         /\ c.answer = None
<1>1. /\ c.kind = kind /\ c.srv = s /\ c.conf = None /\ c.toks = None /\ c.answer = None
      /\ c \in PanelCall
  BY DEF Asked, PanelCall, Writers
<1>2. None # "ok"
  BY PanelAssumption
<1>3. QED
  BY <1>1, <1>2 DEF GoodCall, CallOf

LEMMA PanelStart ==
  ASSUME Init, NEW at
  PROVE  PanelInv(at)
<1>1. /\ files = [u \in Urls |-> [FirstFile EXCEPT !.conf.from = u]]
      /\ active = None /\ conf = None /\ toks = {} /\ secStatus = "none"
      /\ confirming = FALSE /\ panelCalls = <<>> /\ panelCalm = TRUE
  BY DEF Init, PanelInit
<1>2. FirstFile.conf \in Config /\ FirstFile.toks \in TokenSets /\ FirstFile = [conf |-> FirstFile.conf, toks |-> FirstFile.toks]
  BY PanelAssumption DEF File, TokenSets
<1>3. Sound(FirstFile.conf) /\ Inside(FirstFile.conf, FirstFile.toks)
  BY PanelAssumption DEF Sound, Clean, Inside
<1>4. ASSUME NEW u \in Urls
      PROVE  /\ files[u] \in File /\ files[u].conf.from = u /\ Sound(files[u].conf)
             /\ Inside(files[u].conf, files[u].toks)
  <2>1. PICK d : d = [FirstFile.conf EXCEPT !.from = u]
    OBVIOUS
  <2>2. d \in Config /\ d.from = u /\ d.default = FirstFile.conf.default /\ d.endpoints = FirstFile.conf.endpoints
    BY <1>2, <2>1 DEF Config
  <2>3. [FirstFile EXCEPT !.conf.from = u] = [conf |-> d, toks |-> FirstFile.toks]
    BY <1>2, <2>1
  <2>4. files[u] = [conf |-> d, toks |-> FirstFile.toks]
    BY <1>1, <2>3
  <2>5. Sound(d) /\ Inside(d, FirstFile.toks)
    BY <1>3, <2>2 DEF Sound, Clean, Inside, Ids
  <2>6. QED
    BY <1>2, <2>2, <2>4, <2>5 DEF File, TokenSets
<1>5. files \in [Urls -> File]
  <2>1. files = [u \in Urls |-> files[u]]
    BY <1>1
  <2>2. QED
    BY <1>4, <2>1
<1>9. /\ active = None /\ conf = None /\ toks = {} /\ secStatus = "none"
      /\ confirming = FALSE /\ panelCalls = <<>> /\ panelCalm = TRUE
  BY <1>1
<1>10. panelCalls \in Seq(GoodCall) /\ Len(panelCalls) = 0 /\ DOMAIN panelCalls = {} /\ toks \in TokenSets
  BY <1>9 DEF TokenSets
<1>6. PanelTyped
  BY <1>9, <1>10, <1>4, <1>5 DEF PanelTyped
<1>7. PanelFollows(at)
  BY <1>9, <1>10, <1>4 DEF PanelFollows, Shows
<1>8. QED
  BY <1>6, <1>7 DEF PanelInv

LEMMA PanelStutter == ASSUME NEW at \in AddressType, PanelInv(at), UNCHANGED panel PROVE PanelInv(at)'
<1>1. PanelTyped'
  BY DEF PanelInv, PanelTyped, panel
<1>2. PanelFollows(at) => PanelFollows(at)'
  BY DEF PanelFollows, CallFollows, Shows, Inside, panel
<1>3. panelCalm' = panelCalm
  BY DEF panel
<1>4. QED
  BY <1>1, <1>2, <1>3 DEF PanelInv

(* A step of the page alone, that sends nothing.                           *)
LEMMA FormChanged ==
  ASSUME NEW at \in AddressType, PanelInv(at), UNCHANGED <<files, panelCalls>>,
         active' \in Servers \cup {None}, conf' \in Config \cup {None}, toks' \in TokenSets,
         confirming' \in BOOLEAN, secStatus' \in {"none", "busy", "ok", "failed"},
         panelCalm' \in BOOLEAN, panelCalm' => panelCalm,
         panelCalm' /\ PanelFollows(at) => active' = None \/ (panelCalls = <<>> /\ Shows(at)')
                                       \/ UNCHANGED <<active, conf, toks>>
  PROVE  PanelInv(at)'
<1>1. PanelTyped'
  BY DEF PanelInv, PanelTyped
<1>2. ASSUME panelCalm' PROVE PanelFollows(at)'
  <2>1. PanelFollows(at)
    BY <1>2 DEF PanelInv
  <2>2. CASE active' = None
    <3>1. Shows(at)'
      BY <2>2 DEF Shows
    <3>2. QED
      BY <2>1, <2>2, <3>1 DEF PanelFollows, CallFollows, Inside
  <2>3. CASE panelCalls = <<>> /\ Shows(at)'
    BY <2>1, <2>3 DEF PanelFollows, Inside
  <2>4. CASE UNCHANGED <<active, conf, toks>>
    BY <2>1, <2>4 DEF PanelFollows, CallFollows, Shows, Inside
  <2>5. QED
    BY <1>2, <2>1, <2>2, <2>3, <2>4
<1>3. QED
  BY <1>1, <1>2 DEF PanelInv

(* A call c is sent.                                                       *)
LEMMA CallSent ==
  ASSUME NEW at \in AddressType, PanelInv(at), NEW c \in GoodCall, panelCalls' = Append(panelCalls, c), Alone,
         UNCHANGED <<files, conf, toks>>,
         active' \in Servers \cup {None}, confirming' \in BOOLEAN,
         secStatus' \in {"none", "busy", "ok", "failed"},
         PanelFollows(at) /\ panelCalls = <<>> => CallFollows(at, c)'
  PROVE  PanelInv(at)'
<1>1. panelCalls \in Seq(GoodCall)
  BY DEF PanelInv, PanelTyped
<1>2. panelCalls' \in Seq(GoodCall) /\ panelCalm' \in BOOLEAN
  BY <1>1 DEF Alone, Quiet, PanelInv, PanelTyped
<1>3. PanelTyped'
  BY <1>2 DEF PanelInv, PanelTyped
<1>4. ASSUME panelCalm' PROVE PanelFollows(at)'
  <2>1. PanelFollows(at) /\ panelCalls = <<>>
    BY <1>4 DEF PanelInv, Alone, Quiet
  <2>2. Len(panelCalls') = 1 /\ DOMAIN panelCalls' = {1} /\ panelCalls'[1] = c
    BY <1>1, <2>1
  <2>3. CallFollows(at, c)'
    BY <2>1
  <2>4. (\A i \in DOMAIN panelCalls : CallFollows(at, panelCalls[i]))'
    BY <2>2, <2>3 DEF CallFollows, Inside
  <2>5. (\A u \in Urls : Inside(files[u].conf, files[u].toks))'
    BY <2>1 DEF PanelFollows, Inside
  <2>6. panelCalls' # <<>>
    BY <2>2
  <2>7. QED
    BY <2>2, <2>4, <2>5, <2>6 DEF PanelFollows
<1>5. QED
  BY <1>3, <1>4 DEF PanelInv

(* A call i whose entry becomes c.                                         *)
LEMMA CallAnswered ==
  ASSUME NEW at \in AddressType, PanelInv(at), NEW i \in DOMAIN panelCalls, NEW c \in GoodCall,
         panelCalls' = [panelCalls EXCEPT ![i] = c], UNCHANGED <<form, panelCalm>>,
         files' \in [Urls -> File],
         \A u \in Urls : files'[u].conf.from = u /\ Sound(files'[u].conf),
         secStatus' \in {"none", "busy", "ok", "failed"},
         PanelFollows(at) => /\ \A u \in Urls : Inside(files'[u].conf, files'[u].toks)
                         /\ CallFollows(at, c)'
  PROVE  PanelInv(at)'
<1>1. panelCalls \in Seq(GoodCall)
  BY DEF PanelInv, PanelTyped
<1>2. /\ panelCalls' \in Seq(GoodCall) /\ Len(panelCalls') = Len(panelCalls)
      /\ DOMAIN panelCalls' = DOMAIN panelCalls /\ panelCalls'[i] = c
  BY <1>1
<1>3. PanelTyped'
  <2>1. (\A u \in Urls : files[u].conf.from = u /\ Sound(files[u].conf))'
    BY DEF Sound, Clean, Ids
  <2>2. QED
    BY <1>2, <2>1 DEF PanelInv, PanelTyped, form
<1>4. ASSUME PanelFollows(at) PROVE PanelFollows(at)'
  <2>1. DOMAIN panelCalls = 1..Len(panelCalls) /\ Len(panelCalls) \in Nat /\ Len(panelCalls) <= 1
    BY <1>1, <1>4 DEF PanelFollows
  <2>2. \A j \in DOMAIN panelCalls : j = i
    BY <2>1
  <2>3. panelCalls' # <<>>
    BY <1>1, <1>2
  <2>4. CallFollows(at, c)' /\ \A u \in Urls : Inside(files'[u].conf, files'[u].toks)
    BY <1>4
  <2>5. (\A j \in DOMAIN panelCalls : CallFollows(at, panelCalls[j]))'
    <3>1. \A j \in DOMAIN panelCalls' : panelCalls'[j] = c
      BY <1>2, <2>2
    <3>2. QED
      BY <2>4, <3>1 DEF CallFollows, Inside
  <2>6. (\A u \in Urls : Inside(files[u].conf, files[u].toks))'
    BY <2>4 DEF Inside
  <2>7. QED
    BY <1>2, <2>1, <2>3, <2>5, <2>6 DEF PanelFollows
<1>5. QED
  BY <1>3, <1>4 DEF PanelInv

(* A call i that ends.                                                     *)
LEMMA CallTaken ==
  ASSUME NEW at \in AddressType, PanelInv(at), NEW i \in DOMAIN panelCalls, Taken(i), UNCHANGED <<files, active, confirming>>,
         conf' \in Config \cup {None}, toks' \in TokenSets,
         secStatus' \in {"none", "busy", "ok", "failed"}, panelCalm' \in BOOLEAN,
         panelCalm' => panelCalm /\ (PanelFollows(at) => Shows(at)')
  PROVE  PanelInv(at)'
<1>1. panelCalls \in Seq(GoodCall)
  BY DEF PanelInv, PanelTyped
<1>2. panelCalls' \in Seq(GoodCall) /\ Len(panelCalls') = Len(panelCalls) - 1
  BY <1>1, Remaining DEF Taken
<1>3. PanelTyped'
  BY <1>2 DEF PanelInv, PanelTyped
<1>4. ASSUME panelCalm' PROVE PanelFollows(at)'
  <2>1. PanelFollows(at) /\ Shows(at)'
    BY <1>4 DEF PanelInv
  <2>2. Len(panelCalls) \in Nat /\ Len(panelCalls') \in Nat /\ Len(panelCalls) <= 1
    BY <1>1, <1>2, <2>1 DEF PanelFollows
  <2>3. panelCalls' = <<>> /\ Len(panelCalls') = 0 /\ DOMAIN panelCalls' = {}
    <3>1. Len(panelCalls') = 0
      BY <1>2, <2>2
    <3>2. QED
      BY <1>2, <3>1
  <2>4. (\A u \in Urls : Inside(files[u].conf, files[u].toks))'
    BY <2>1 DEF PanelFollows, Inside
  <2>5. QED
    BY <2>1, <2>3, <2>4 DEF PanelFollows
<1>5. QED
  BY <1>3, <1>4 DEF PanelInv

(* Of the profiles with one id there is a last one.                        *)
LEMMA LastFound ==
  ASSUME NEW eps \in Seq(Profile), NEW i \in DOMAIN eps
  PROVE  LastOf(eps, i) \in DOMAIN eps /\ eps[LastOf(eps, i)].id = eps[i].id
<1> DEFINE n == Len(eps)
           S == {m \in Nat : n - m \in DOMAIN eps /\ eps[n - m].id = eps[i].id}
<1>1. n \in Nat /\ DOMAIN eps = 1..n
  OBVIOUS
<1>2. n - i \in S
  <2>1. n - i \in Nat /\ n - (n - i) = i
    BY <1>1
  <2>2. QED
    BY <2>1
<1>3. PICK m \in S : \A k \in S : m <= k
  <2>1. S \in SUBSET Nat /\ S # {}
    BY <1>2
  <2> HIDE DEF S
  <2>2. QED
    BY <2>1, Smallest
<1>4. PICK j : j = n - m
  OBVIOUS
<1>5. j \in DOMAIN eps /\ eps[j].id = eps[i].id
  BY <1>3, <1>4
<1>6. \A k \in DOMAIN eps : eps[k].id = eps[i].id => k <= j
  <2>1. SUFFICES ASSUME NEW k \in DOMAIN eps, eps[k].id = eps[i].id PROVE k <= j
    OBVIOUS
  <2>2. n - k \in Nat /\ n - (n - k) = k
    BY <1>1
  <2>3. n - k \in S
    BY <2>1, <2>2
  <2>4. m <= n - k
    BY <1>3, <2>3
  <2>5. m \in Nat
    BY <1>3
  <2>6. QED
    BY <1>1, <1>4, <2>4, <2>5
<1>7. QED
  BY <1>5, <1>6 DEF LastOf

(* The file's map has profiles of the list only, and each of their ids.    *)
LEMMA MapOf ==
  ASSUME NEW eps \in Seq(Profile)
  PROVE  /\ AsMap(eps) \in Seq(Profile)
         /\ \A n \in DOMAIN AsMap(eps) : \E j \in DOMAIN eps : AsMap(eps)[n] = eps[j]
         /\ \A j \in DOMAIN eps : \E n \in DOMAIN AsMap(eps) : AsMap(eps)[n].id = eps[j].id
<1>1. PICK T, s, keep : T = DOMAIN eps /\ s = [i \in DOMAIN eps |-> i] /\ keep = {i \in DOMAIN eps : IsFirst(eps, i)}
  OBVIOUS
<1>2. Len(eps) \in Nat /\ DOMAIN eps = 1..Len(eps)
  OBVIOUS
<1>3. s \in Seq(T) /\ DOMAIN s = DOMAIN eps /\ \A i \in DOMAIN eps : s[i] = i
  BY <1>1, <1>2
<1>4. PICK firsts : firsts = Kept(s, keep)
  OBVIOUS
<1>5. firsts \in Seq(T) /\ \A j \in DOMAIN s : s[j] \in keep => \E i \in DOMAIN firsts : firsts[i] = s[j]
  <2>3. s \in Seq(T)
    BY <1>3
  <2>1. /\ Kept(s, keep) \in Seq(T)
        /\ \A j \in DOMAIN s : s[j] \in keep => \E i \in DOMAIN Kept(s, keep) : Kept(s, keep)[i] = s[j]
    BY <2>3, KeptElems
  <2>2. QED
    BY <1>4, <2>1
<1>6. Len(firsts) \in Nat /\ DOMAIN firsts = 1..Len(firsts) /\ \A n \in DOMAIN firsts : firsts[n] \in DOMAIN eps
  BY <1>1, <1>5
<1>7. AsMap(eps) = [n \in DOMAIN firsts |-> eps[LastOf(eps, firsts[n])]]
  BY <1>1, <1>4 DEF AsMap
<1>8. PICK map : map = AsMap(eps)
  OBVIOUS
<1>9. DOMAIN map = DOMAIN firsts /\ map = [n \in 1..Len(firsts) |-> map[n]]
      /\ \A n \in DOMAIN firsts : map[n] = eps[LastOf(eps, firsts[n])]
  BY <1>6, <1>7, <1>8
<1>10. \A n \in DOMAIN firsts : LastOf(eps, firsts[n]) \in DOMAIN eps /\ map[n].id = eps[firsts[n]].id
  BY <1>6, <1>9, LastFound
<1>11. \A n \in 1..Len(firsts) : map[n] \in Profile
  BY <1>6, <1>9, <1>10
<1>12. map \in Seq(Profile)
  BY <1>6, <1>9, <1>11
<1>13. ASSUME NEW j \in DOMAIN eps PROVE \E n \in DOMAIN map : map[n].id = eps[j].id
  <2>1. PICK same : same = {k \in DOMAIN eps : eps[k].id = eps[j].id}
    OBVIOUS
  <2>2. same \in SUBSET Nat /\ same # {}
    BY <1>2, <2>1
  <2>3. PICK f \in same : \A k \in same : f <= k
    BY <2>2, Smallest
  <2>4. f \in DOMAIN eps /\ eps[f].id = eps[j].id /\ IsFirst(eps, f)
    BY <2>1, <2>3 DEF IsFirst
  <2>5. s[f] \in keep /\ s[f] = f /\ f \in DOMAIN s
    BY <1>1, <1>3, <2>4
  <2>6. PICK n \in DOMAIN firsts : firsts[n] = f
    BY <1>5, <2>5
  <2>7. QED
    BY <1>9, <1>10, <2>4, <2>6
<1>14. QED
  BY <1>8, <1>9, <1>10, <1>12, <1>13

(* Profiles are replaced in a list, or in a configuration.                 *)
LEMMA ProfilesReplaced ==
  ASSUME NEW c \in Config, NEW eps \in Seq(Profile), NEW d, d = [c EXCEPT !.endpoints = eps]
  PROVE  d \in Config /\ d.from = c.from /\ d.default = c.default /\ d.endpoints = eps
  BY DEF Config

LEMMA ConfigTyped ==
  ASSUME NEW c \in Config
  PROVE  /\ c.endpoints \in Seq(Profile) /\ c.from \in Urls /\ c.default \in Endpoints \cup {None}
         /\ c # None /\ \A i \in DOMAIN c.endpoints : c.endpoints[i] \in Profile
<1>1. c.endpoints \in Seq(Profile) /\ c.from \in Urls /\ c.default \in Endpoints \cup {None}
  BY DEF Config
<1>2. c # None
  BY PanelAssumption
<1>3. QED
  BY <1>1, <1>2

(* A list made element by element from the profiles of another.            *)
LEMMA ProfilesMapped ==
  ASSUME NEW eps \in Seq(Profile), NEW new, DOMAIN new = DOMAIN eps, new = [i \in DOMAIN eps |-> new[i]],
         \A i \in DOMAIN eps : new[i] \in Profile
  PROVE  new \in Seq(Profile)
<1>1. Len(eps) \in Nat /\ DOMAIN eps = 1..Len(eps)
  OBVIOUS
<1>2. QED
  BY <1>1

(* A profile whose tokens are others.                                      *)
LEMMA ProfileTokens ==
  ASSUME NEW ep \in Profile, NEW set \in TokenSets, NEW new, new = [ep EXCEPT !.tokens = set]
  PROVE  new \in Profile /\ new.id = ep.id /\ new.open = ep.open /\ new.tokens = set
  BY DEF Profile, TokenSets

(* What the server makes of a configuration without a token.               *)
LEMMA TokenGone ==
  ASSUME NEW c \in Config, NEW t, NEW d, d = WithoutToken(c, t)
  PROVE  /\ d \in Config /\ d.from = c.from /\ d.default = c.default /\ Ids(d) = Ids(c)
         /\ (Clean(c) => Clean(d)) /\ \A set : Inside(c, set) => Inside(d, set \ {t})
<1>1. PICK eps, new : eps = c.endpoints /\ new = [i \in DOMAIN eps |-> Unticked(eps[i], t)]
  OBVIOUS
<1>2. eps \in Seq(Profile)
  BY <1>1, ConfigTyped
<1>3. DOMAIN new = DOMAIN eps /\ new = [i \in DOMAIN eps |-> new[i]]
      /\ \A i \in DOMAIN eps : new[i] = Unticked(eps[i], t)
  BY <1>1
<1>4. ASSUME NEW i \in DOMAIN eps
      PROVE  new[i] \in Profile /\ new[i].id = eps[i].id /\ new[i].open = eps[i].open /\ new[i].tokens = eps[i].tokens \ {t}
  <2>1. eps[i] \in Profile
    BY <1>2
  <2>2. eps[i].tokens \ {t} \in TokenSets
    BY <2>1 DEF Profile, TokenSets
  <2>3. PICK x, set : x = new[i] /\ set = eps[i].tokens \ {t}
    OBVIOUS
  <2>4. x = [eps[i] EXCEPT !.tokens = set]
    BY <1>3, <2>3 DEF Unticked
  <2>5. x \in Profile /\ x.id = eps[i].id /\ x.open = eps[i].open /\ x.tokens = set
    BY <2>1, <2>2, <2>3, <2>4, ProfileTokens
  <2>6. QED
    BY <2>3, <2>5
<1>5. new \in Seq(Profile)
  BY <1>2, <1>3, <1>4, ProfilesMapped
<1>6. d = [c EXCEPT !.endpoints = new]
  BY <1>1 DEF WithoutToken
<1>7. d \in Config /\ d.from = c.from /\ d.default = c.default /\ d.endpoints = new
  BY <1>5, <1>6, ProfilesReplaced
<1>12. c.endpoints = eps /\ DOMAIN new = DOMAIN eps
  BY <1>1, <1>3
<1>8. Ids(d) = Ids(c)
  BY <1>4, <1>7, <1>12 DEF Ids
<1>9. Clean(c) => Clean(d)
  BY <1>1, <1>3, <1>4, <1>7 DEF Clean
<1>10. \A set : Inside(c, set) => Inside(d, set \ {t})
  BY <1>1, <1>3, <1>4, <1>7 DEF Inside
<1>11. QED
  BY <1>7, <1>8, <1>9, <1>10

(* What the page sends: no profile that asks for security admits ANONYMOUS.*)
LEMMA SentClean ==
  ASSUME NEW c \in Config, NEW d, d = Sanitized(c)
  PROVE  d \in Config /\ d.from = c.from /\ Clean(d) /\ \A set : Inside(c, set) => Inside(d, set)
<1>1. PICK eps, new : eps = c.endpoints /\ new = [i \in DOMAIN eps |-> IF eps[i].open THEN eps[i]
                                       ELSE Unticked(eps[i], Anon)]
  OBVIOUS
<1>2. eps \in Seq(Profile)
  BY <1>1, ConfigTyped
<1>3. DOMAIN new = DOMAIN eps /\ new = [i \in DOMAIN eps |-> new[i]]
      /\ \A i \in DOMAIN eps : new[i] = IF eps[i].open THEN eps[i]
                                        ELSE Unticked(eps[i], Anon)
  BY <1>1
<1>4. ASSUME NEW i \in DOMAIN eps
      PROVE  /\ new[i] \in Profile /\ (new[i].open \/ Anon \notin new[i].tokens)
             /\ new[i].tokens \subseteq eps[i].tokens
  <2>1. eps[i] \in Profile
    BY <1>2
  <2>2. CASE eps[i].open
    BY <1>3, <2>1, <2>2
  <2>3. CASE ~eps[i].open
    <3>1. eps[i].tokens \ {Anon} \in TokenSets
      BY <2>1 DEF Profile, TokenSets
    <3>2. new[i] = [eps[i] EXCEPT !.tokens = eps[i].tokens \ {Anon}]
      BY <1>3, <2>3 DEF Unticked
    <3>3. new[i] \in Profile /\ new[i].tokens = eps[i].tokens \ {Anon}
      BY <2>1, <3>1, <3>2, ProfileTokens
    <3>4. QED
      BY <3>3
  <2>4. QED
    BY <2>2, <2>3
<1>5. new \in Seq(Profile)
  BY <1>2, <1>3, <1>4, ProfilesMapped
<1>6. d = [c EXCEPT !.endpoints = new]
  BY <1>1 DEF Sanitized
<1>7. d \in Config /\ d.from = c.from /\ d.endpoints = new
  BY <1>5, <1>6, ProfilesReplaced
<1>8. Clean(d)
  BY <1>3, <1>4, <1>7 DEF Clean
<1>9. \A set : Inside(c, set) => Inside(d, set)
  BY <1>1, <1>3, <1>4, <1>7 DEF Inside
<1>10. QED
  BY <1>7, <1>8, <1>9

(* Profiles that are edited on the page.                                   *)
Keeps(field, value, set) ==
  \A ep \in Profile : ep.tokens \subseteq set =>
    Patched(ep, field, value) \in Profile /\ Patched(ep, field, value).tokens \subseteq set
LEMMA ProfileUpdated ==
  ASSUME NEW c \in Config, NEW id, NEW field, NEW value, NEW set, Inside(c, set),
         Keeps(field, value, set),
         NEW d, d = Updated(c, id, field, value)
  PROVE  d \in Config /\ d.from = c.from /\ Inside(d, set)
<1>1. PICK eps, new : eps = c.endpoints /\ new = [i \in DOMAIN eps |-> IF eps[i].id = id
                                       THEN Patched(eps[i], field, value) ELSE eps[i]]
  OBVIOUS
<1>2. eps \in Seq(Profile)
  BY <1>1, ConfigTyped
<1>3. DOMAIN new = DOMAIN eps /\ new = [i \in DOMAIN eps |-> new[i]]
      /\ \A i \in DOMAIN eps : new[i] = IF eps[i].id = id THEN Patched(eps[i], field, value) ELSE eps[i]
  BY <1>1
<1>4. ASSUME NEW i \in DOMAIN eps PROVE new[i] \in Profile /\ new[i].tokens \subseteq set
  <2>1. eps[i] \in Profile /\ eps[i].tokens \subseteq set
    BY <1>1, <1>2 DEF Inside
  <2>2. QED
    BY <1>3, <2>1 DEF Keeps
<1>5. new \in Seq(Profile)
  BY <1>2, <1>3, <1>4, ProfilesMapped
<1>6. d = [c EXCEPT !.endpoints = new]
  BY <1>1 DEF Updated
<1>7. d \in Config /\ d.from = c.from /\ d.endpoints = new
  BY <1>5, <1>6, ProfilesReplaced
<1>8. Inside(d, set)
  BY <1>3, <1>4, <1>7 DEF Inside
<1>9. QED
  BY <1>7, <1>8

LEMMA ProfileAdded ==
  ASSUME NEW c \in Config, NEW id \in Endpoints, NEW d, d = Added(c, id), NEW set, Inside(c, set)
  PROVE  d \in Config /\ d.from = c.from /\ Inside(d, set)
<1>1. PICK ep, eps, new, def :
        /\ ep = [id |-> id, open |-> FALSE, tokens |-> {}] /\ eps = c.endpoints
        /\ new = Append(eps, ep) /\ def = IF c.default = None THEN id ELSE c.default
  OBVIOUS
<1>2. eps \in Seq(Profile) /\ c.from \in Urls /\ def \in Endpoints \cup {None}
  BY <1>1, ConfigTyped
<1>3. ep \in Profile /\ ep.tokens = {}
  BY <1>1 DEF Profile
<1>4. /\ new \in Seq(Profile) /\ Len(eps) \in Nat /\ DOMAIN new = 1..(Len(eps) + 1) /\ DOMAIN eps = 1..Len(eps)
      /\ new[Len(eps) + 1] = ep /\ \A i \in DOMAIN eps : new[i] = eps[i]
  BY <1>1, <1>2, <1>3, Appended
<1>5. d = [c EXCEPT !.default = def, !.endpoints = new]
  BY <1>1 DEF Added
<1>6. d \in Config /\ d.from = c.from /\ d.endpoints = new
  BY <1>2, <1>4, <1>5 DEF Config
<1>7. \A i \in DOMAIN new : i \in DOMAIN eps \/ i = Len(eps) + 1
  BY <1>4
<1>8. Inside(d, set)
  BY <1>1, <1>3, <1>4, <1>6, <1>7 DEF Inside
<1>9. QED
  BY <1>6, <1>8

LEMMA ProfileRemoved ==
  ASSUME NEW c \in Config, NEW id, NEW d, d = Removed(c, id), NEW set, Inside(c, set)
  PROVE  d \in Config /\ d.from = c.from /\ Inside(d, set)
<1>1. PICK eps, keep, new, cut :
        /\ eps = c.endpoints /\ keep = {ep \in ToSet(eps) : ep.id # id} /\ new = Kept(eps, keep)
        /\ cut = [c EXCEPT !.endpoints = new]
  OBVIOUS
<1>2. eps \in Seq(Profile) /\ c.default \in Endpoints \cup {None}
  BY <1>1, ConfigTyped
<1>3. new \in Seq(Profile) /\ \A i \in DOMAIN new : \E j \in DOMAIN eps : eps[j] = new[i]
  <2>1. eps \in Seq(Profile)
    BY <1>2
  <2>2. /\ Kept(eps, keep) \in Seq(Profile)
        /\ \A i \in DOMAIN Kept(eps, keep) : Kept(eps, keep)[i] \in keep /\ \E j \in DOMAIN eps : eps[j] = Kept(eps, keep)[i]
    BY <2>1, KeptElems
  <2>3. QED
    BY <1>1, <2>2
<1>4. cut \in Config /\ cut.from = c.from /\ cut.default = c.default /\ cut.endpoints = new
  BY <1>1, <1>3, ProfilesReplaced
<1>5. PICK def : def = CASE c.default \in Ids(cut) -> c.default
                         [] new = <<>> -> None
                         [] OTHER -> new[1].id
  OBVIOUS
<1>6. def \in Endpoints \cup {None}
  <2>1. CASE c.default \in Ids(cut) /\ new = <<>>
    BY <1>4, <2>1 DEF Ids
  <2>2. CASE c.default \in Ids(cut) /\ new # <<>>
    BY <1>2, <1>5, <2>2
  <2>3. CASE c.default \notin Ids(cut) /\ new = <<>>
    BY <1>5, <2>3
  <2>4. CASE c.default \notin Ids(cut) /\ new # <<>>
    <3>1. new[1] \in Profile
      BY <1>3, <2>4
    <3>2. new[1].id \in Endpoints
      BY <3>1 DEF Profile
    <3>3. QED
      BY <1>5, <2>4, <3>2
  <2>5. QED
    BY <2>1, <2>2, <2>3, <2>4
<1>7. d = [cut EXCEPT !.default = def]
  BY <1>1, <1>4, <1>5 DEF Removed
<1>8. d \in Config /\ d.from = c.from /\ d.endpoints = new
  BY <1>4, <1>6, <1>7 DEF Config
<1>9. Inside(d, set)
  BY <1>1, <1>3, <1>8 DEF Inside
<1>10. QED
  BY <1>8, <1>9

(* An edit of the profiles shown.                                          *)
LEMMA ProfilesEdited ==
  ASSUME NEW at \in AddressType, PanelInv(at), NEW c \in Config, c.from = conf.from, Edit(c), conf # None,
         Inside(conf, toks) => Inside(c, toks)
  PROVE  PanelInv(at)'
<1>1. /\ active \in Servers \cup {None} /\ toks \in TokenSets /\ confirming \in BOOLEAN
      /\ secStatus \in {"none", "busy", "ok", "failed"} /\ panelCalm \in BOOLEAN
  BY DEF PanelInv, PanelTyped
<1>2. UNCHANGED <<files, active, toks, secStatus, confirming, panelCalls>> /\ conf' = c
      /\ panelCalm' = (panelCalm /\ panelCalls = <<>>)
  BY DEF Edit, Alone, Quiet
<1>3. panelCalm' \in BOOLEAN /\ (panelCalm' => panelCalm /\ panelCalls = <<>>)
  BY <1>1, <1>2
<1>4. c # None
  BY ConfigTyped
<1>5. ASSUME PanelFollows(at), panelCalls = <<>> PROVE Shows(at)'
  <2>1. Shows(at)
    BY <1>5 DEF PanelFollows
  <2>2. active # None => Inside(c, toks) /\ c.from = at[active] /\ toks = files[at[active]].toks
    BY <2>1 DEF Shows
  <2>3. QED
    BY <1>2, <1>4, <2>2 DEF Shows, Inside
<1>6. QED
  BY <1>1, <1>2, <1>3, <1>5, FormChanged

LEMMA PanelEdited ==
  ASSUME NEW at \in AddressType, PanelInv(at), conf # None,
         AddProfile \/ RemoveProfile \/ SetDefault \/ Rename \/ SetPolicy \/ TickToken
  PROVE  PanelInv(at)'
<1>1. conf \in Config /\ toks \in TokenSets
  BY DEF PanelInv, PanelTyped
<1>2. \A i \in DOMAIN conf.endpoints : conf.endpoints[i] \in Profile
  BY <1>1, ConfigTyped
<1>3. Ids(conf) \subseteq Endpoints
  BY <1>2 DEF Ids, Profile
<1>4. PICK old, set : old = conf /\ set = toks
  OBVIOUS
<1>5. ASSUME NEW c, Edit(c), Inside(old, set) => c \in Config /\ c.from = old.from /\ Inside(c, set),
             c \in Config, c.from = old.from
      PROVE  PanelInv(at)'
  BY <1>4, <1>5, ProfilesEdited
<1>14. old \in Config /\ set \in TokenSets /\ Inside(old, TokenSet)
  BY <1>1, <1>2, <1>4 DEF Inside, Profile, TokenSet
<1>6. CASE AddProfile
  <2>1. PICK id, c : id \in Endpoints /\ c = Added(old, id) /\ Edit(c)
    BY <1>4, <1>6 DEF AddProfile
  <2>2. c \in Config /\ c.from = old.from /\ (Inside(old, set) => Inside(c, set))
    BY <1>14, <2>1, ProfileAdded
  <2>3. QED
    BY <1>5, <2>1, <2>2
<1>7. CASE RemoveProfile
  <2>1. PICK id, c : c = Removed(old, id) /\ Edit(c)
    BY <1>4, <1>7 DEF RemoveProfile
  <2>2. c \in Config /\ c.from = old.from /\ (Inside(old, set) => Inside(c, set))
    BY <1>14, <2>1, ProfileRemoved
  <2>3. QED
    BY <1>5, <2>1, <2>2
<1>8. CASE SetDefault
  <2>1. PICK id, c : id \in Ids(conf) /\ c = [old EXCEPT !.default = id] /\ Edit(c)
    BY <1>4, <1>8 DEF SetDefault
  <2>2. c \in Config /\ c.from = old.from /\ c.endpoints = old.endpoints
    BY <1>3, <1>14, <2>1 DEF Config
  <2>3. QED
    BY <1>5, <2>1, <2>2 DEF Inside
<1>9. ASSUME NEW id, NEW field, NEW value, NEW c, c = Updated(old, id, field, value), Edit(c),
             \A ep \in Profile : Patched(ep, field, value) \in Profile,
             \A ep \in Profile : ep.tokens \subseteq set => Patched(ep, field, value).tokens \subseteq set
      PROVE  PanelInv(at)'
  <2>1. Keeps(field, value, TokenSet) /\ Keeps(field, value, set)
    <3>1. \A ep \in Profile : ep.tokens \subseteq TokenSet
      BY DEF Profile, TokenSet
    <3>2. QED
      BY <1>9, <3>1 DEF Keeps
  <2>2. c \in Config /\ c.from = old.from
    BY <1>9, <1>14, <2>1, ProfileUpdated
  <2>3. Inside(old, set) => Inside(c, set)
    BY <1>9, <1>14, <2>1, ProfileUpdated
  <2>4. QED
    BY <1>5, <1>9, <2>2, <2>3
<1>10. CASE Rename
  <2>4. PICK id \in Ids(conf), new \in Endpoints : Edit(Updated(conf, id, "id", new))
    BY <1>10 DEF Rename
  <2>1. PICK c : c = Updated(old, id, "id", new) /\ Edit(c)
    BY <1>4, <2>4
  <2>2. \A ep \in Profile : Patched(ep, "id", new) \in Profile /\ Patched(ep, "id", new).tokens = ep.tokens
    BY DEF Profile, Patched
  <2>3. QED
    BY <1>9, <2>1, <2>2
<1>11. CASE SetPolicy
  <2>4. PICK i \in DOMAIN conf.endpoints : LET ep == conf.endpoints[i]
                                          IN  Edit(Updated(conf, ep.id, "open", ~ep.open))
    BY <1>11 DEF SetPolicy
  <2>5. PICK id, open : id = conf.endpoints[i].id /\ open = ~conf.endpoints[i].open
    OBVIOUS
  <2>6. open \in BOOLEAN
    BY <1>2, <2>5 DEF Profile
  <2>1. PICK c : c = Updated(old, id, "open", open) /\ Edit(c)
    BY <1>4, <2>4, <2>5
  <2>2. \A ep \in Profile : Patched(ep, "open", open) \in Profile /\ Patched(ep, "open", open).tokens = ep.tokens
    BY <2>6 DEF Profile, Patched
  <2>3. QED
    BY <1>9, <2>1, <2>2
<1>12. CASE TickToken
  <2>10. PICK i \in DOMAIN conf.endpoints : \E t \in Boxes(conf.endpoints[i]) :
          LET ep == conf.endpoints[i]
              ticked == IF t \in ep.tokens THEN ep.tokens \ {t} ELSE ep.tokens \cup {t}
          IN  Edit(Updated(conf, ep.id, "tokens", ticked))
    BY <1>12 DEF TickToken
  <2>1. PICK t \in Boxes(conf.endpoints[i]) :
          LET ep == conf.endpoints[i]
              ticked == IF t \in ep.tokens THEN ep.tokens \ {t} ELSE ep.tokens \cup {t}
          IN  Edit(Updated(conf, ep.id, "tokens", ticked))
    BY <2>10
  <2>2. PICK ep, ticked, c :
          /\ ep = conf.endpoints[i] /\ ticked = IF t \in ep.tokens THEN ep.tokens \ {t} ELSE ep.tokens \cup {t}
          /\ c = Updated(old, ep.id, "tokens", ticked)
    OBVIOUS
  <2>3. Edit(c)
    BY <1>4, <2>1, <2>2
  <2>4. ep \in Profile /\ t \in set /\ set \in TokenSets
    BY <1>1, <1>2, <1>4, <2>2 DEF Boxes
  <2>5. ticked \in TokenSets /\ (ep.tokens \subseteq set => ticked \subseteq set)
    BY <2>2, <2>4 DEF Profile, TokenSets
  <2>6. \A p \in Profile : Patched(p, "tokens", ticked) \in Profile /\ Patched(p, "tokens", ticked).tokens = ticked
    BY <2>5 DEF Profile, Patched, TokenSets
  <2>7. c \in Config /\ c.from = old.from
    <3>1. Keeps("tokens", ticked, TokenSet)
      BY <2>5, <2>6 DEF Keeps, TokenSets, TokenSet
    <3>2. QED
      BY <1>14, <2>2, <3>1, ProfileUpdated
  <2>8. ASSUME Inside(old, set) PROVE Inside(c, set)
    <3>1. ticked \subseteq set
      BY <1>4, <2>2, <2>5, <2>8 DEF Inside
    <3>3. Keeps("tokens", ticked, set)
      BY <2>6, <3>1 DEF Keeps
    <3>2. QED
      BY <1>14, <2>2, <2>8, <3>3, ProfileUpdated
  <2>9. QED
    BY <1>5, <2>3, <2>7, <2>8
<1>13. QED
  BY <1>6, <1>7, <1>8, <1>10, <1>11, <1>12

(* The page asks: for profiles and tokens to be stored, or for a restart.  *)
LEMMA PanelAsks ==
  ASSUME NEW at \in AddressType, PanelInv(at), active # None, conf # None, SaveConfig \/ SaveToken \/ RemoveToken
  PROVE  PanelInv(at)'
<1>1. /\ active \in Servers /\ conf \in Config /\ toks \in TokenSets /\ confirming \in BOOLEAN
      /\ secStatus \in {"none", "busy", "ok", "failed"}
  BY DEF PanelInv, PanelTyped
<1>2. ASSUME NEW c \in GoodCall, Request(c), UNCHANGED <<files, form>>, c.srv = active, c.conf = None, c.toks = None,
             c.answer = None, c.kind \in {"put", "post", "delete"},
             c.kind = "put" /\ Shows(at) => c.arg.from = at[active] /\ Inside(c.arg, toks)
      PROVE  PanelInv(at)'
  <2>1. /\ panelCalls' = Append(panelCalls, c) /\ Alone /\ secStatus' = "busy"
        /\ UNCHANGED <<files, conf, toks, active, confirming>>
    BY <1>2 DEF Request, Sends, form
  <2>2. ASSUME PanelFollows(at), panelCalls = <<>> PROVE CallFollows(at, c)'
    <3>1. Shows(at)
      BY <2>2 DEF PanelFollows
    <3>2. Shows(at)'
      BY <2>1, <3>1 DEF Shows, Inside
    <3>3. c.kind = "put" => c.arg.from = at[c.srv] /\ Inside(c.arg, files[at[c.srv]].toks)
      BY <1>1, <1>2, <3>1 DEF Shows
    <3>4. QED
      BY <1>2, <2>1, <3>2, <3>3 DEF CallFollows, Inside
  <2>3. QED
    BY <1>1, <2>1, <2>2, CallSent
<1>3. CASE SaveConfig
  <2>1. PICK arg, c : arg = Sanitized(conf) /\ c = Asked("put", active, arg)
    OBVIOUS
  <2>2. arg \in Config /\ arg.from = conf.from /\ Clean(arg) /\ \A set : Inside(conf, set) => Inside(arg, set)
    BY <1>1, <2>1, SentClean
  <2>3. /\ c.kind = "put" /\ c.srv = active /\ c.arg = arg /\ c.conf = None /\ c.toks = None /\ c.answer = None
        /\ c \in PanelCall
    BY <1>1, <2>1, <2>2 DEF Asked, PanelCall, Writers
  <2>4. c \in GoodCall
    BY <2>2, <2>3, PanelAssumption DEF GoodCall, CallOf
  <2>5. Shows(at) => arg.from = at[active] /\ Inside(arg, toks)
    BY <1>1, <2>2 DEF Shows
  <2>6. Request(c) /\ UNCHANGED <<files, form>>
    BY <1>3, <2>1 DEF SaveConfig
  <2>7. QED
    BY <1>2, <2>3, <2>4, <2>5, <2>6
<1>4. CASE SaveToken
  <2>1. PICK c : c = Asked("post", active, None)
    OBVIOUS
  <2>2. /\ c \in GoodCall /\ c.kind = "post" /\ c.srv = active /\ c.conf = None /\ c.toks = None /\ c.answer = None
    BY <1>1, <2>1, CallAsked
  <2>3. Request(c) /\ UNCHANGED <<files, form>>
    BY <1>4, <2>1 DEF SaveToken
  <2>4. QED
    BY <1>2, <2>2, <2>3
<1>5. CASE RemoveToken
  <2>1. PICK t, c : /\ t \in toks \ {Anon} /\ c = Asked("delete", active, t)
                    /\ Request(c) /\ UNCHANGED <<files, form>>
    BY <1>5 DEF RemoveToken
  <2>2. t \in Tokens
    BY <1>1, <2>1 DEF TokenSets
  <2>3. /\ c.kind = "delete" /\ c.srv = active /\ c.arg = t /\ c.conf = None /\ c.toks = None /\ c.answer = None
        /\ c \in PanelCall
    BY <1>1, <2>1, <2>2 DEF Asked, PanelCall, Writers
  <2>4. c \in GoodCall
    BY <2>2, <2>3, PanelAssumption DEF GoodCall, CallOf
  <2>5. QED
    BY <1>2, <2>1, <2>3, <2>4
<1>6. QED
  BY <1>3, <1>4, <1>5

LEMMA RestartAsked ==
  ASSUME NEW at \in AddressType, PanelInv(at), ConfirmRestart
  PROVE  PanelInv(at)'
<1>1. /\ active \in Servers \cup {None} /\ conf \in Config \cup {None} /\ toks \in TokenSets
      /\ secStatus \in {"none", "busy", "ok", "failed"} /\ panelCalm \in BOOLEAN
  BY DEF PanelInv, PanelTyped
<1>2. confirming' = FALSE /\ UNCHANGED <<files, active, conf, toks>> /\ Alone
  BY DEF ConfirmRestart
<1>3. CASE active = None
  <2>1. UNCHANGED <<secStatus, panelCalls>>
    BY <1>3 DEF ConfirmRestart
  <2>2. panelCalm' \in BOOLEAN /\ (panelCalm' => panelCalm)
    BY <1>1, <1>2 DEF Alone, Quiet
  <2>3. QED
    BY <1>1, <1>2, <1>3, <2>1, <2>2, FormChanged
<1>4. CASE active # None
  <2>1. PICK c : c = Asked("restart", active, None)
    OBVIOUS
  <2>2. /\ c \in GoodCall /\ c.kind = "restart" /\ c.srv = active /\ c.conf = None /\ c.toks = None /\ c.answer = None
    BY <1>1, <1>4, <2>1, CallAsked
  <2>3. panelCalls' = Append(panelCalls, c) /\ secStatus' = "busy"
    BY <1>4, <2>1 DEF ConfirmRestart, Sends
  <2>4. ASSUME PanelFollows(at), panelCalls = <<>> PROVE CallFollows(at, c)'
    <3>1. Shows(at)'
      BY <1>2, <2>4 DEF PanelFollows, Shows, Inside
    <3>2. QED
      BY <1>2, <2>2, <3>1 DEF CallFollows
  <2>5. QED
    BY <1>1, <1>2, <2>2, <2>3, <2>4, CallSent
<1>5. QED
  BY <1>3, <1>4

(* A change of the server shown: its profiles are asked for.               *)
LEMMA ServerShown ==
  ASSUME NEW at \in AddressType, PanelInv(at), NEW s \in Servers \cup {None}, Show(s), Alone, UNCHANGED <<files, conf, toks, confirming>>,
         secStatus' \in {"none", "busy", "ok", "failed"}
  PROVE  PanelInv(at)'
<1>1. /\ active \in Servers \cup {None} /\ conf \in Config \cup {None} /\ toks \in TokenSets
      /\ confirming \in BOOLEAN /\ panelCalm \in BOOLEAN
  BY DEF PanelInv, PanelTyped
<1>2. active' = s
  BY DEF Show
<1>3. CASE s \in {None, active}
  <2>1. UNCHANGED panelCalls
    BY <1>3 DEF Show
  <2>2. panelCalm' \in BOOLEAN /\ (panelCalm' => panelCalm)
    BY <1>1 DEF Alone, Quiet
  <2>3. active' = None \/ UNCHANGED <<active, conf, toks>>
    BY <1>2, <1>3
  <2>4. QED
    BY <1>1, <1>2, <2>1, <2>2, <2>3, FormChanged
<1>4. CASE s \notin {None, active}
  <2>1. PICK c : c = Asked("load", s, None)
    OBVIOUS
  <2>2. /\ c \in GoodCall /\ c.kind = "load" /\ c.srv = s /\ c.conf = None /\ c.toks = None /\ c.answer = None
    BY <1>4, <2>1, CallAsked
  <2>3. panelCalls' = Append(panelCalls, c)
    BY <1>4, <2>1 DEF Show, Sends
  <2>4. CallFollows(at, c)'
    BY <1>2, <2>2, PanelAssumption DEF CallFollows
  <2>5. QED
    BY <1>1, <1>2, <2>2, <2>3, <2>4, CallSent
<1>5. QED
  BY <1>3, <1>4

LEMMA PanelUsed ==
  ASSUME NEW at \in AddressType, PanelInv(at), UsePanel \/ \E s \in Servers : Toggle(s)
  PROVE  PanelInv(at)'
<1>1. /\ active \in Servers \cup {None} /\ conf \in Config \cup {None} /\ toks \in TokenSets
      /\ confirming \in BOOLEAN /\ panelCalm \in BOOLEAN /\ secStatus \in {"none", "busy", "ok", "failed"}
  BY DEF PanelInv, PanelTyped
<1>2. ASSUME NEW s \in Servers, Toggle(s) PROVE PanelInv(at)'
  <2>1. PICK t : t = IF active = s THEN None ELSE s
    OBVIOUS
  <2>2. /\ t \in Servers \cup {None} /\ Show(t) /\ Alone /\ UNCHANGED <<files, conf, toks, confirming>>
        /\ secStatus' \in {"none", "busy", "ok", "failed"}
    BY <1>1, <1>2, <2>1 DEF Toggle
  <2>3. QED
    BY <2>2, ServerShown
<1>3. CASE IncompleteToken \/ AskRestart \/ CancelRestart
  <2>1. /\ UNCHANGED <<files, active, conf, toks, panelCalls, panelCalm>>
        /\ secStatus' \in {"none", "busy", "ok", "failed"} /\ confirming' \in BOOLEAN
    BY <1>1, <1>3 DEF IncompleteToken, AskRestart, CancelRestart, form
  <2>2. QED
    BY <1>1, <2>1, FormChanged
<1>4. QED
  BY <1>2, <1>3, PanelEdited, PanelAsks, RestartAsked DEF UsePanel

(* The server's handlers that write nothing.                               *)
LEMMA PanelRead ==
  ASSUME NEW at \in AddressType, PanelInv(at), NEW i \in DOMAIN panelCalls,
         RefuseUnknown(i, at) \/ Restart(i, at) \/ ReadConfig(i, at) \/ ReadTokens(i, at)
  PROVE  PanelInv(at)'
<1>1. PICK c : c = panelCalls[i]
  OBVIOUS
<1>2. /\ panelCalls \in Seq(GoodCall) /\ files \in [Urls -> File]
      /\ \A u \in Urls : files[u].conf.from = u /\ Sound(files[u].conf)
      /\ secStatus \in {"none", "busy", "ok", "failed"}
  BY DEF PanelInv, PanelTyped
<1>3. c \in GoodCall /\ c \in PanelCall /\ CallOf(c) /\ c.srv \in Servers /\ (PanelFollows(at) => CallFollows(at, c))
  <2>1. c \in GoodCall /\ (PanelFollows(at) => CallFollows(at, c))
    BY <1>1, <1>2 DEF PanelFollows
  <2>2. QED
    BY <2>1 DEF GoodCall, PanelCall
<1>4. PICK file : file = files[at[c.srv]]
  OBVIOUS
<1>5. ASSUME at[c.srv] # None
      PROVE  /\ file.conf \in Config /\ file.toks \in TokenSets /\ file.conf.from = at[c.srv] /\ Sound(file.conf)
             /\ file.conf # None /\ at[c.srv] \in Urls
  <2>0. at[c.srv] \in Urls
    BY <1>3, <1>5 DEF AddressType
  <2>1. file \in File
    BY <1>2, <2>0, <1>4
  <2>2. file.conf \in Config /\ file.toks \in TokenSets
    BY <2>1 DEF File, TokenSets
  <2>3. QED
    BY <1>2, <1>4, <2>0, <2>2, ConfigTyped
<1>6. /\ UNCHANGED <<files, form, secStatus, panelCalm>> /\ c.answer = None
  BY <1>1 DEF RefuseUnknown, Restart, ReadConfig, ReadTokens, At
<1>7. ASSUME NEW d \in GoodCall, panelCalls' = [panelCalls EXCEPT ![i] = d], PanelFollows(at) => CallFollows(at, d)
      PROVE  PanelInv(at)'
  <2>1. CallFollows(at, d)' = CallFollows(at, d)
    BY <1>6 DEF CallFollows, Inside, Shows, form
  <2>2. PanelFollows(at) => /\ \A u \in Urls : Inside(files'[u].conf, files'[u].toks)
                        /\ CallFollows(at, d)'
    BY <1>6, <1>7, <2>1 DEF PanelFollows
  <2>3. \A u \in Urls : files'[u].conf.from = u /\ Sound(files'[u].conf)
    BY <1>2, <1>6
  <2>4. UNCHANGED <<form, panelCalm>>
    BY <1>6
  <2>5. files' \in [Urls -> File] /\ secStatus' \in {"none", "busy", "ok", "failed"}
    BY <1>2, <1>6
  <2>6. QED
    BY <1>7, <2>2, <2>3, <2>4, <2>5, CallAnswered
<1>8. None # "ok" /\ "refused" # "ok"
  BY PanelAssumption
<1>9. CASE RefuseUnknown(i, at) \/ Restart(i, at)
  <2>1. PICK answer, d : /\ answer \in {"ok", "refused"} /\ d = [c EXCEPT !.answer = answer]
                         /\ panelCalls' = [panelCalls EXCEPT ![i] = d]
                         /\ answer = "ok" => c.kind = "restart"
    BY <1>1, <1>9 DEF RefuseUnknown, Restart, At
  <2>2. /\ d \in PanelCall /\ d.kind = c.kind /\ d.srv = c.srv /\ d.arg = c.arg /\ d.conf = c.conf /\ d.toks = c.toks
        /\ d.answer = answer
    BY <1>3, <2>1 DEF PanelCall
  <2>3. d \in GoodCall
    BY <1>3, <2>1, <2>2 DEF GoodCall, CallOf
  <2>4. PanelFollows(at) => CallFollows(at, d)
    BY <1>3, <2>1, <2>2 DEF CallFollows
  <2>5. QED
    BY <1>7, <2>1, <2>3, <2>4
<1>10. CASE ReadConfig(i, at)
  <2>1. PICK read, d :
          /\ read = [c EXCEPT !.conf = file.conf]
          /\ d = IF c.kind \in Writers THEN [read EXCEPT !.toks = file.toks]
                 ELSE IF c.toks # None THEN [read EXCEPT !.answer = "ok"] ELSE read
    OBVIOUS
  <2>2. panelCalls' = [panelCalls EXCEPT ![i] = d] /\ c.kind \in {"load", "reload"} \cup Writers /\ c.conf = None
        /\ at[c.srv] # None
    BY <1>1, <1>4, <1>10, <2>1 DEF ReadConfig, At
  <2>3. /\ read \in PanelCall /\ read.kind = c.kind /\ read.srv = c.srv /\ read.arg = c.arg
        /\ read.conf = file.conf /\ read.toks = c.toks /\ read.answer = None
    BY <1>3, <1>5, <1>6, <2>1, <2>2 DEF PanelCall
  <2>4. /\ d \in PanelCall /\ d.kind = c.kind /\ d.srv = c.srv /\ d.arg = c.arg /\ d.conf = file.conf
    BY <1>5, <2>1, <2>2, <2>3 DEF PanelCall, TokenSets
  <2>5. /\ c.kind \in Writers => d.toks = file.toks /\ d.answer = None
        /\ c.kind \notin Writers => d.toks = c.toks
        /\ c.kind \notin Writers /\ d.answer = "ok" => c.toks # None
    BY <1>8, <2>1, <2>3 DEF PanelCall
  <2>6. c.toks # None => c.toks \in TokenSets
    BY <1>3 DEF PanelCall, TokenSets
  <2>7. d \in GoodCall
    BY <1>3, <1>5, <2>2, <2>4, <2>5, <2>6 DEF GoodCall, CallOf, Writers
  <2>8. ASSUME PanelFollows(at) PROVE CallFollows(at, d)
    <3>1. Inside(file.conf, file.toks) /\ CallFollows(at, c)
      BY <1>3, <1>4, <1>5, <2>2, <2>8 DEF PanelFollows
    <3>2. c.kind \in Writers => d.kind \notin {"load", "reload"}
      BY <2>4 DEF Writers
    <3>3. QED
      BY <1>3, <1>4, <1>5, <2>2, <2>4, <2>5, <3>1, <3>2 DEF CallFollows, Writers
  <2>9. QED
    BY <1>7, <2>2, <2>7, <2>8
<1>11. CASE ReadTokens(i, at)
  <2>1. PICK read, d :
          /\ read = [c EXCEPT !.toks = file.toks]
          /\ d = IF c.conf # None THEN [read EXCEPT !.answer = "ok"] ELSE read
    OBVIOUS
  <2>2. panelCalls' = [panelCalls EXCEPT ![i] = d] /\ c.kind \in {"load", "reload"} /\ at[c.srv] # None
    BY <1>1, <1>4, <1>11, <2>1 DEF ReadTokens, At
  <2>3. /\ read \in PanelCall /\ read.kind = c.kind /\ read.srv = c.srv /\ read.arg = c.arg
        /\ read.conf = c.conf /\ read.toks = file.toks /\ read.answer = None
    BY <1>3, <1>5, <1>6, <2>1, <2>2 DEF PanelCall, TokenSets
  <2>4. /\ d \in PanelCall /\ d.kind = c.kind /\ d.srv = c.srv /\ d.arg = c.arg /\ d.conf = c.conf
        /\ d.toks = file.toks /\ (d.answer = "ok" => c.conf # None)
    BY <1>8, <2>1, <2>3 DEF PanelCall
  <2>5. d \in GoodCall
    BY <1>3, <1>5, <2>2, <2>4 DEF GoodCall, CallOf, Writers
  <2>6. PanelFollows(at) => CallFollows(at, d)
    BY <1>3, <1>4, <2>2, <2>4 DEF CallFollows
  <2>7. QED
    BY <1>7, <2>2, <2>5, <2>6
<1>12. QED
  BY <1>9, <1>10, <1>11

(* What a handler writes is sound, and lists no token but its own.         *)
LEMMA FileWritten ==
  ASSUME NEW c \in GoodCall, c.kind \in Writers, c.conf # None, c.kind = "put" => Accepts(c.arg),
         NEW file \in Written(c)
  PROVE  /\ file \in File /\ file.conf.from = c.conf.from /\ Sound(file.conf)
         /\ c.kind = "put" => file.toks = c.toks /\ \A set : Inside(c.arg, set) => Inside(file.conf, set)
         /\ c.kind # "put" /\ Inside(c.conf, c.toks) => Inside(file.conf, file.toks)
<1>1. /\ c.conf \in Config /\ Sound(c.conf) /\ c.toks \in TokenSets /\ c.conf.from \in Urls
  BY DEF GoodCall, PanelCall, CallOf, Config
<1>2. CASE c.kind = "put"
  <2>1. c.arg \in Config /\ Clean(c.arg) /\ c.arg.default \in Ids(c.arg)
    BY <1>2 DEF GoodCall, CallOf, Accepts
  <2>2. PICK eps, map, d : /\ eps = c.arg.endpoints /\ map = AsMap(eps)
                           /\ d = [c.arg EXCEPT !.endpoints = map, !.from = c.conf.from]
    OBVIOUS
  <2>3. eps \in Seq(Profile)
    BY <2>1, <2>2, ConfigTyped
  <2>4. /\ map \in Seq(Profile)
        /\ \A n \in DOMAIN map : \E j \in DOMAIN eps : map[n] = eps[j]
        /\ \A j \in DOMAIN eps : \E n \in DOMAIN map : map[n].id = eps[j].id
    BY <2>2, <2>3, MapOf
  <2>5. d \in Config /\ d.from = c.conf.from /\ d.default = c.arg.default /\ d.endpoints = map
    BY <1>1, <2>1, <2>2, <2>4 DEF Config
  <2>6. file = [conf |-> d, toks |-> c.toks]
    BY <1>2, <2>2 DEF Written
  <2>7. d.default \in Ids(d)
    BY <2>1, <2>2, <2>4, <2>5 DEF Ids
  <2>8. Clean(d)
    BY <2>1, <2>2, <2>4, <2>5 DEF Clean
  <2>9. \A set : Inside(c.arg, set) => Inside(d, set)
    BY <2>2, <2>4, <2>5 DEF Inside
  <2>10. QED
    BY <1>1, <1>2, <2>5, <2>6, <2>7, <2>8, <2>9 DEF File, Sound, TokenSets
<1>3. CASE c.kind = "post"
  <2>1. PICK t \in Tokens : file = [conf |-> c.conf, toks |-> c.toks \cup {t}]
    BY <1>3 DEF Written
  <2>2. file \in File
    BY <1>1, <2>1 DEF File, TokenSets
  <2>3. Inside(c.conf, c.toks) => Inside(c.conf, c.toks \cup {t})
    BY DEF Inside
  <2>4. QED
    BY <1>1, <1>3, <2>1, <2>2, <2>3
<1>4. CASE c.kind = "delete"
  <2>1. PICK t, d : t = c.arg /\ d = WithoutToken(c.conf, t)
    OBVIOUS
  <2>2. /\ d \in Config /\ d.from = c.conf.from /\ Sound(d) /\ \A set : Inside(c.conf, set) => Inside(d, set \ {t})
    BY <1>1, <2>1, TokenGone DEF Sound
  <2>3. file = [conf |-> d, toks |-> c.toks \ {t}]
    BY <1>4, <2>1 DEF Written
  <2>4. file \in File
    BY <1>1, <2>2, <2>3 DEF File, TokenSets
  <2>5. QED
    BY <1>4, <2>2, <2>3, <2>4
<1>5. QED
  BY <1>2, <1>3, <1>4 DEF Writers

LEMMA PanelWritten ==
  ASSUME NEW at \in AddressType, PanelInv(at), NEW i \in DOMAIN panelCalls, WriteFile(i)
  PROVE  PanelInv(at)'
<1>1. PICK c : c = panelCalls[i]
  OBVIOUS
<1>2. /\ panelCalls \in Seq(GoodCall) /\ files \in [Urls -> File]
      /\ \A u \in Urls : files[u].conf.from = u /\ Sound(files[u].conf)
      /\ secStatus \in {"none", "busy", "ok", "failed"}
  BY DEF PanelInv, PanelTyped
<1>3. c \in GoodCall /\ c \in PanelCall /\ CallOf(c) /\ c.srv \in Servers /\ (PanelFollows(at) => CallFollows(at, c))
  <2>1. c \in GoodCall /\ (PanelFollows(at) => CallFollows(at, c))
    BY <1>1, <1>2 DEF PanelFollows
  <2>2. QED
    BY <2>1 DEF GoodCall, PanelCall
<1>4. /\ c.kind \in Writers /\ c.answer = None /\ c.conf # None
      /\ UNCHANGED <<form, secStatus, panelCalm>>
  BY <1>1 DEF WriteFile, At
<1>5. PICK answer, d :
        /\ answer \in {"ok", "refused"}
        /\ d = [c EXCEPT !.answer = answer] /\ panelCalls' = [panelCalls EXCEPT ![i] = d]
        /\ answer = "refused" => UNCHANGED files
        /\ answer = "ok" => /\ \E file \in Written(c) : files' = [files EXCEPT ![c.conf.from] = file]
                            /\ c.kind = "put" => Accepts(c.arg)
  <2>1. CASE c.kind = "put" /\ ~Accepts(c.arg)
    BY <1>1, <2>1 DEF WriteFile, At
  <2>2. CASE ~(c.kind = "put" /\ ~Accepts(c.arg))
    BY <1>1, <2>2 DEF WriteFile, At
  <2>3. QED
    BY <2>1, <2>2
<1>6. /\ d \in PanelCall /\ d.kind = c.kind /\ d.srv = c.srv /\ d.arg = c.arg /\ d.conf = c.conf /\ d.toks = c.toks
  BY <1>3, <1>5 DEF PanelCall
<1>12. c.conf.from \in Urls
  BY <1>3, <1>4 DEF PanelCall, Config
<1>7. d \in GoodCall
  BY <1>3, <1>4, <1>6 DEF GoodCall, CallOf, Writers
<1>8. /\ active' = active /\ conf' = conf /\ toks' = toks
  BY <1>4 DEF form
<1>9. CASE answer = "refused"
  <2>1. CallFollows(at, d)' = CallFollows(at, d)
    BY <1>5, <1>8, <1>9 DEF CallFollows, Inside, Shows
  <2>2. PanelFollows(at) => CallFollows(at, d)
    BY <1>3, <1>4, <1>6 DEF CallFollows, Writers
  <2>3. PanelFollows(at) => \A u \in Urls : Inside(files'[u].conf, files'[u].toks)
    BY <1>5, <1>9 DEF PanelFollows
  <2>4. \A u \in Urls : files'[u].conf.from = u /\ Sound(files'[u].conf)
    BY <1>2, <1>5, <1>9
  <2>5. files' \in [Urls -> File] /\ secStatus' \in {"none", "busy", "ok", "failed"}
    BY <1>2, <1>4, <1>5, <1>9
  <2>6. UNCHANGED <<form, panelCalm>>
    BY <1>4
  <2>7. QED
    BY <1>5, <1>7, <2>1, <2>2, <2>3, <2>4, <2>5, <2>6, CallAnswered
<1>10. CASE answer = "ok"
  <2>1. PICK file \in Written(c) : files' = [files EXCEPT ![c.conf.from] = file]
    BY <1>5, <1>10
  <2>2. /\ file \in File /\ file.conf.from = c.conf.from /\ Sound(file.conf)
        /\ c.kind = "put" => file.toks = c.toks /\ \A set : Inside(c.arg, set) => Inside(file.conf, set)
        /\ c.kind # "put" /\ Inside(c.conf, c.toks) => Inside(file.conf, file.toks)
    BY <1>3, <1>4, <1>5, <1>10, FileWritten
  <2>3. /\ files' \in [Urls -> File] /\ files'[c.conf.from] = file
        /\ \A u \in Urls : u # c.conf.from => files'[u] = files[u]
    BY <1>2, <1>12, <2>1, <2>2
  <2>4. \A u \in Urls : files'[u].conf.from = u /\ Sound(files'[u].conf)
    <3>1. SUFFICES ASSUME NEW u \in Urls PROVE files'[u].conf.from = u /\ Sound(files'[u].conf)
      OBVIOUS
    <3>2. CASE u = c.conf.from
      BY <2>2, <2>3, <3>2
    <3>3. CASE u # c.conf.from
      BY <1>2, <2>3, <3>3
    <3>4. QED
      BY <3>2, <3>3
  <2>5. ASSUME PanelFollows(at)
        PROVE  (\A u \in Urls : Inside(files'[u].conf, files'[u].toks)) /\ CallFollows(at, d)'
    <3>1. CallFollows(at, c) /\ \A u \in Urls : Inside(files[u].conf, files[u].toks)
      BY <1>3, <2>5 DEF PanelFollows
    <3>2. c.kind = "put" => /\ c.arg.from = at[c.srv] /\ Inside(c.arg, c.toks) /\ c.toks = files[at[c.srv]].toks /\ Shows(at)
      BY <1>4, <3>1 DEF CallFollows
    <3>3. c.kind # "put" => Inside(c.conf, c.toks) /\ c.kind \in {"post", "delete"}
      BY <1>4, <3>1 DEF CallFollows, Writers
    <3>4. Inside(file.conf, file.toks)
      BY <2>2, <3>2, <3>3
    <3>5. \A u \in Urls : Inside(files'[u].conf, files'[u].toks)
      <4>1. SUFFICES ASSUME NEW u \in Urls PROVE Inside(files'[u].conf, files'[u].toks)
        OBVIOUS
      <4>2. CASE u = c.conf.from
        BY <2>3, <3>4, <4>2
      <4>3. CASE u # c.conf.from
        BY <2>3, <3>1, <4>3
      <4>4. QED
        BY <4>2, <4>3
    <3>6. active \in {None, c.srv} /\ c.conf.from = at[c.srv]
      BY <1>4, <3>1 DEF CallFollows
    <3>7. CASE c.kind = "put"
      <4>1. files'[at[c.srv]].toks = files[at[c.srv]].toks /\ Shows(at) /\ Inside(c.arg, files[at[c.srv]].toks)
        BY <2>2, <2>3, <3>2, <3>6, <3>7
      <4>2. Shows(at)'
        BY <1>8, <3>6, <4>1 DEF Shows, Inside
      <4>3. QED
        BY <1>6, <1>8, <3>2, <3>5, <3>6, <3>7, <4>1, <4>2 DEF CallFollows, Inside
    <3>8. CASE c.kind # "put"
      BY <1>6, <1>8, <3>3, <3>5, <3>6, <3>8 DEF CallFollows, Inside
    <3>9. QED
      BY <3>5, <3>7, <3>8
  <2>6. UNCHANGED <<form, panelCalm>> /\ secStatus' \in {"none", "busy", "ok", "failed"}
    BY <1>2, <1>4
  <2>7. QED
    BY <1>5, <1>7, <2>3, <2>4, <2>5, <2>6, CallAnswered
<1>11. QED
  BY <1>5, <1>9, <1>10

(* The answers, and the calls that are lost.                               *)
LEMMA PanelHeard ==
  ASSUME NEW at \in AddressType, PanelInv(at), NEW i \in DOMAIN panelCalls, HearPanel(i) \/ LosePanelCall(i)
  PROVE  PanelInv(at)'
<1>1. PICK c : c = panelCalls[i]
  OBVIOUS
<1>2. /\ panelCalls \in Seq(GoodCall) /\ files \in [Urls -> File] /\ active \in Servers \cup {None}
      /\ \A u \in Urls : files[u].conf.from = u /\ Sound(files[u].conf)
      /\ secStatus \in {"none", "busy", "ok", "failed"} /\ conf \in Config \cup {None} /\ toks \in TokenSets
      /\ panelCalm \in BOOLEAN
  BY DEF PanelInv, PanelTyped
<1>3. c \in GoodCall /\ c \in PanelCall /\ CallOf(c) /\ c.srv \in Servers /\ (PanelFollows(at) => CallFollows(at, c))
  <2>1. c \in GoodCall /\ (PanelFollows(at) => CallFollows(at, c))
    BY <1>1, <1>2 DEF PanelFollows
  <2>2. QED
    BY <2>1 DEF GoodCall, PanelCall
<1>4. CASE HearLoad(i)
  <2>1. /\ c.kind \in {"load", "reload"} /\ c.answer = "ok" /\ conf' = c.conf /\ toks' = c.toks /\ Taken(i)
        /\ secStatus' = "ok" /\ UNCHANGED <<files, active, confirming, panelCalm>>
    BY <1>1, <1>4 DEF HearLoad, Loaded
  <2>2. c.conf # None /\ c.conf \in Config /\ c.toks \in TokenSets
    BY <1>3, <2>1 DEF CallOf, PanelCall
  <2>3. ASSUME PanelFollows(at) PROVE Shows(at)'
    <3>1. /\ active \in {None, c.srv} /\ Inside(c.conf, files[at[c.srv]].toks) /\ c.toks = files[at[c.srv]].toks
          /\ c.conf.from = at[c.srv]
      BY <1>3, <2>1, <2>2, <2>3 DEF CallFollows
    <3>2. QED
      BY <2>1, <2>2, <3>1 DEF Shows, Inside
  <2>4. QED
    BY <1>2, <2>1, <2>2, <2>3, CallTaken
<1>5. CASE HearPut(i)
  <2>1. PICK d : d = [c.arg EXCEPT !.from = c.conf.from]
    OBVIOUS
  <2>2. /\ c.kind = "put" /\ c.answer = "ok" /\ conf' = d /\ Taken(i)
        /\ secStatus' = "ok" /\ UNCHANGED <<files, active, toks, confirming, panelCalm>>
    BY <1>1, <1>5, <2>1 DEF HearPut
  <2>3. c.arg \in Config /\ c.conf # None /\ c.conf.from \in Urls
    BY <1>3, <2>2 DEF CallOf, PanelCall, Config
  <2>4. d \in Config /\ d.from = c.conf.from /\ d.endpoints = c.arg.endpoints
    BY <1>3, <2>1, <2>3 DEF Config
  <2>5. d # None
    BY <2>4, ConfigTyped
  <2>6. ASSUME PanelFollows(at) PROVE Shows(at)'
    <3>1. active \in {None, c.srv} /\ Inside(c.arg, files[at[c.srv]].toks) /\ Shows(at) /\ c.conf.from = at[c.srv]
      BY <1>3, <2>2, <2>3, <2>6 DEF CallFollows
    <3>2. active # None => toks = files[at[active]].toks /\ Inside(d, toks) /\ d.from = at[active]
      BY <2>4, <3>1 DEF Shows, Inside
    <3>3. QED
      BY <2>2, <2>5, <3>2 DEF Shows, Inside
  <2>7. QED
    BY <1>2, <2>2, <2>4, <2>6, CallTaken
<1>6. CASE HearToken(i)
  <2>1. PICK d : d = Asked("reload", c.srv, None)
    OBVIOUS
  <2>2. d \in GoodCall /\ d.kind = "reload" /\ d.srv = c.srv /\ d.conf = None /\ d.toks = None /\ d.answer = None
    BY <1>3, <2>1, CallAsked
  <2>3. /\ c.kind \in {"post", "delete"} /\ panelCalls' = [panelCalls EXCEPT ![i] = d] /\ secStatus' = "busy"
        /\ UNCHANGED <<files, form, panelCalm>>
    BY <1>1, <1>6, <2>1 DEF HearToken
  <2>4. ASSUME PanelFollows(at)
        PROVE  (\A u \in Urls : Inside(files'[u].conf, files'[u].toks)) /\ CallFollows(at, d)'
    <3>1. active \in {None, c.srv} /\ \A u \in Urls : Inside(files[u].conf, files[u].toks)
      BY <1>3, <2>4 DEF CallFollows, PanelFollows
    <3>2. CallFollows(at, d)'
      BY <2>2, <2>3, <3>1, PanelAssumption DEF CallFollows, form
    <3>3. QED
      BY <2>3, <3>1, <3>2
  <2>5. \A u \in Urls : files'[u].conf.from = u /\ Sound(files'[u].conf)
    BY <1>2, <2>3
  <2>6. UNCHANGED <<form, panelCalm>> /\ files' \in [Urls -> File]
    BY <1>2, <2>3
  <2>7. QED
    BY <2>2, <2>3, <2>4, <2>5, <2>6, CallAnswered
<1>7. CASE HearRestart(i)
  <2>1. /\ c.kind = "restart" /\ Taken(i) /\ secStatus' = "ok" /\ UNCHANGED <<files, active, conf, toks, confirming, panelCalm>>
    BY <1>1, <1>7 DEF HearRestart, form
  <2>2. ASSUME PanelFollows(at) PROVE Shows(at)'
    <3>1. Shows(at)
      BY <1>3, <2>1, <2>2 DEF CallFollows
    <3>2. QED
      BY <2>1, <3>1 DEF Shows, Inside
  <2>3. QED
    BY <1>2, <2>1, <2>2, CallTaken
<1>8. CASE HearRefusal(i) \/ LosePanelCall(i)
  <2>1. /\ Taken(i) /\ panelCalm' = FALSE /\ secStatus' \in {"none", "busy", "ok", "failed"}
        /\ UNCHANGED <<files, active, conf, toks, confirming>>
    BY <1>8 DEF HearRefusal, LosePanelCall, Fails, form
  <2>2. QED
    BY <1>2, <2>1, CallTaken
<1>9. QED
  BY <1>4, <1>5, <1>6, <1>7, <1>8 DEF HearPanel

(* The panel follows when its server is removed, and closes when the lists *)
(* are loaded.                                                             *)
LEMMA PanelDriven ==
  ASSUME NEW at \in AddressType, PanelInv(at), InfraInv, RemoveOpc \/ \E i \in DOMAIN infraCalls : HearRow(i)
  PROVE  PanelInv(at)'
<1>1. /\ active \in Servers \cup {None} /\ conf \in Config \cup {None} /\ toks \in TokenSets
      /\ confirming \in BOOLEAN /\ panelCalm \in BOOLEAN /\ secStatus \in {"none", "busy", "ok", "failed"}
  BY DEF PanelInv, PanelTyped
<1>2. CASE RemoveOpc
  <2>1. PICK s, next, t :
          /\ s \in SeqIds(lists.servers)
          /\ next = Without(lists.servers, s) /\ t = IF next = <<>> THEN None ELSE next[1].id
          /\ IF active # s THEN UNCHANGED panel
             ELSE /\ Show(t) /\ Alone /\ secStatus' = IF next = <<>> THEN secStatus ELSE "busy"
                  /\ UNCHANGED <<files, conf, toks, confirming>>
    BY <1>2 DEF RemoveOpc
  <2>2. lists.servers \in Seq(Rows(Servers, Urls))
    BY DEF InfraInv, InfraTyped, AlignedLists, Lists
  <2>3. next \in Seq(Rows(Servers, Urls))
    BY <2>1, <2>2, RowLeft
  <2>4. t \in Servers \cup {None}
    <3>1. next # <<>> => 1 \in DOMAIN next
      BY <2>3
    <3>2. next # <<>> => next[1].id \in Servers
      BY <2>3, <3>1, RowElems
    <3>3. QED
      BY <2>1, <3>2
  <2>5. QED
    BY <1>1, <2>1, <2>4, PanelStutter, ServerShown
<1>3. ASSUME NEW i \in DOMAIN infraCalls, HearRow(i) PROVE PanelInv(at)'
  <2>1. /\ active' = None /\ conf' = None /\ toks' = {}
        /\ UNCHANGED <<files, secStatus, confirming, panelCalls, panelCalm>>
    BY <1>3 DEF HearRow
  <2>2. toks' \in TokenSets
    BY <2>1 DEF TokenSets
  <2>3. QED
    BY <1>1, <2>1, <2>2, FormChanged
<1>4. QED
  BY <1>2, <1>3

(* The address the proxy finds for a server.                               *)
LEMMA AddressesTyped == ASSUME InfraInv PROVE Addresses \in AddressType
<1>1. PICK known : known = Normal(row).servers
  OBVIOUS
<1>2. known \in Seq(Rows(Servers, Urls))
  <2>1. Normal(row) \in Lists
    BY NormalTyped DEF InfraInv, InfraTyped, AlignedLists
  <2>2. QED
    BY <1>1, <2>1 DEF Lists
<1> DEFINE Place(s) == CHOOSE i \in DOMAIN known :
                         known[i].id = s /\ \A j \in DOMAIN known : known[j].id = s => i <= j
<1>3. ASSUME NEW s \in Servers, s \in SeqIds(known) PROVE known[Place(s)].set \in Urls
  <2>1. PICK same : same = {i \in DOMAIN known : known[i].id = s}
    OBVIOUS
  <2>2. same \in SUBSET Nat /\ same # {}
    BY <1>2, <1>3, <2>1 DEF SeqIds
  <2>3. PICK f \in same : \A k \in same : f <= k
    BY <2>2, Smallest
  <2>4. f \in DOMAIN known /\ known[f].id = s /\ \A j \in DOMAIN known : known[j].id = s => f <= j
    BY <2>1, <2>3
  <2>5. Place(s) \in DOMAIN known
    BY <2>4
  <2> HIDE DEF Place
  <2>6. QED
    BY <1>2, <2>5, RowElems
<1>4. Addresses = [s \in Servers |-> IF s \in SeqIds(known) THEN known[Place(s)].set ELSE None]
  BY <1>1 DEF Addresses
<1> HIDE DEF Place
<1>5. QED
  BY <1>3, <1>4 DEF AddressType

PanelHolds == PanelInv(Addresses)

(* The addresses change: the panel shows no server, or is not calm.        *)
LEMMA PanelReaddressed ==
  ASSUME NEW at, NEW new, PanelInv(at), Readdressed(new = at)
  PROVE  PanelInv(new)'
<1>1. /\ UNCHANGED <<files, active, conf, toks, confirming, secStatus, panelCalls>>
      /\ panelCalm' = (panelCalm /\ (new = at \/ (active = None /\ panelCalls = <<>>)))
  BY DEF Readdressed, form
<1>2. PanelTyped'
  BY <1>1 DEF PanelInv, PanelTyped
<1>3. ASSUME panelCalm' PROVE PanelFollows(new)'
  <2>1. PanelFollows(at)
    BY <1>1, <1>3 DEF PanelInv
  <2>2. CASE new = at
    BY <1>1, <2>1, <2>2 DEF PanelFollows, CallFollows, Shows, Inside
  <2>3. CASE active = None /\ panelCalls = <<>>
    BY <1>1, <2>1, <2>3 DEF PanelFollows, Shows, Inside
  <2>4. QED
    BY <1>1, <1>3, <2>2, <2>3
<1>4. QED
  BY <1>2, <1>3 DEF PanelInv

LEMMA PanelStep == PanelHolds /\ InfraInv /\ InfraInv' /\ [Next]_vars => PanelHolds'
<1> SUFFICES ASSUME PanelHolds, InfraInv, InfraInv', [Next]_vars PROVE PanelHolds'
  OBVIOUS
<1>1. SeqIds(lists.servers) \subseteq Servers
  <2>1. lists.servers \in Seq(Rows(Servers, Urls))
    BY DEF InfraInv, InfraTyped, AlignedLists, Lists
  <2>2. QED
    BY <2>1, RowElems DEF SeqIds
<1>7. PICK at, new : at = Addresses /\ new = Addresses'
  OBVIOUS
<1>8. at \in AddressType /\ PanelInv(at)
  BY <1>7, AddressesTyped DEF PanelHolds
<1>9. row' = row => new = at
  BY <1>7 DEF Addresses
<1>10. PanelInv(new)' => PanelHolds'
  BY <1>7 DEF PanelHolds, PanelInv, PanelTyped, PanelFollows, CallFollows, Shows
<1>2. CASE User
  <2>1. row' = row
    BY <1>2 DEF User, UseInfra, infra, AddSupervisor, RemoveSupervisor, AddOpc, UpdateOpc, RemoveOpc, UpdateClients,
                EditLists, Save, UseUsers
  <2>2. PanelInv(at)'
    <3>1. CASE UseInfra
      <4>1. RemoveOpc \/ UNCHANGED panel
        BY <3>1 DEF UseInfra, AddSupervisor, RemoveSupervisor, AddOpc, UpdateOpc, UpdateClients, Save
      <4>2. QED
        BY <1>8, <4>1, PanelDriven, PanelStutter
    <3>2. CASE UsePanel \/ \E s \in SeqIds(lists.servers) : Toggle(s)
      BY <1>1, <1>8, <3>2, PanelUsed
    <3>3. QED
      BY <1>2, <1>8, <3>1, <3>2, PanelStutter DEF User
  <2>3. QED
    BY <1>9, <1>10, <2>1, <2>2
<1>3. CASE Answers
  <2>1. CASE Panel /\ UNCHANGED infra
    <3>1. PanelInv(at)'
      BY <1>7, <1>8, <2>1, PanelRead, PanelWritten, PanelHeard DEF Panel, ServePanel
    <3>2. row' = row
      BY <2>1 DEF infra
    <3>3. QED
      BY <1>9, <1>10, <3>1, <3>2
  <2>2. CASE Infra
    <3>1. PICK i \in DOMAIN infraCalls : ServeInfra(i) \/ HearInfra(i)
      BY <2>2 DEF Infra
    <3>2. CASE StoreRow(i) /\ Readdressed(Addresses' = Addresses)
      <4>1. Readdressed(new = at)
        BY <1>7, <3>2 DEF Readdressed
      <4>2. QED
        BY <1>8, <1>10, <4>1, PanelReaddressed
    <3>3. CASE HearRow(i) \/ UNCHANGED <<panel, row>>
      <4>1. PanelInv(at)'
        BY <1>8, <3>3, PanelDriven, PanelStutter
      <4>2. row' = row
        BY <3>3 DEF HearRow
      <4>3. QED
        BY <1>9, <1>10, <4>1, <4>2
    <3>4. QED
      BY <3>1, <3>2, <3>3
      DEF ServeInfra, ReadRow, TakeSave, TakeClients, Push, Pushed, Reconnect, HearInfra, HearSaved,
          HearInfraRefusal, InfraFails
  <2>3. CASE UNCHANGED <<panel, infra>>
    <3>1. PanelInv(at)' /\ row' = row
      BY <1>8, <2>3, PanelStutter DEF infra
    <3>2. QED
      BY <1>9, <1>10, <3>1
  <2>4. QED
    BY <1>3, <2>1, <2>2, <2>3 DEF Answers
<1>4. CASE Losses
  <2>1. (\E i \in DOMAIN panelCalls : LosePanelCall(i)) \/ UNCHANGED panel
    BY <1>4 DEF Losses, LoseInfraCall, InfraFails
  <2>2. row' = row
    BY <1>4 DEF Losses, LoseInfraCall, InfraFails, PushFails, infra
  <2>3. PanelInv(at)'
    BY <1>8, <2>1, PanelHeard, PanelStutter
  <2>4. QED
    BY <1>9, <1>10, <2>2, <2>3
<1>5. CASE UNCHANGED vars
  <2>1. PanelInv(at)' /\ row' = row
    BY <1>5, <1>8, PanelStutter DEF vars, infra
  <2>2. QED
    BY <1>9, <1>10, <2>1
<1>6. QED
  BY <1>2, <1>3, <1>4, <1>5 DEF Next

LEMMA PanelSafe == Spec => [](PanelHolds /\ InfraInv /\ PeopleInv)
<1>1. Init => PanelHolds
  BY PanelStart DEF PanelHolds
<1>2. QED
  BY <1>1, PanelStep, InfraStart, InfraStep, PeopleStart, PeopleStep, PTL DEF Spec

(* While no request of the panel failed or overlapped another or an edit,  *)
(* and no stored address changed under a panel that shows or asks for a    *)
(* server, the panel that has its answers shows the profiles and the       *)
(* tokens of its own server, a save goes to the server its profiles are    *)
(* of, and no stored profile lists a token that is gone                    *)
(* (fetchOpcSecurityData, delete_user_token).                              *)
THEOREM PanelStaysMatched == Spec => []PanelMatches
<1>1. PanelHolds => PanelMatches
  <2> SUFFICES ASSUME PanelHolds, panelCalm PROVE PanelMatches
    BY DEF PanelMatches
  <2>1. PanelFollows(Addresses)
    BY DEF PanelHolds, PanelInv
  <2>2. panelCalls = <<>> /\ active # None => conf # None /\ conf.from = Addresses[active] /\ toks = files[conf.from].toks
    BY <2>1 DEF PanelFollows, Shows
  <2>3. \A i \in DOMAIN panelCalls :
          panelCalls[i].kind = "put" => panelCalls[i].arg.from = Addresses[panelCalls[i].srv]
    BY <2>1 DEF PanelFollows, CallFollows
  <2>4. \A u \in Urls : \A i \in DOMAIN files[u].conf.endpoints :
          files[u].conf.endpoints[i].tokens \subseteq files[u].toks
    BY <2>1 DEF PanelFollows, Inside
  <2>5. QED
    BY <2>2, <2>3, <2>4 DEF PanelMatches
<1>2. QED
  BY <1>1, PanelSafe, PTL

(* Whatever overlaps and whatever is lost, what the page and the servers   *)
(* hold keeps its types; a server's file names a default profile it has,   *)
(* and no profile of it that asks for security admits ANONYMOUS; and the   *)
(* page has one row of client settings for each host (saveOpcSecurityConfig,*)
(* set_security_payload, removeSupervisor).                                *)
THEOREM SettingsHold == Spec => []SettingsInv
<1>1. PanelHolds /\ InfraInv /\ PeopleInv => SettingsInv
  <2> SUFFICES ASSUME PanelHolds, InfraInv, PeopleInv PROVE SettingsInv
    OBVIOUS
  <2>1. /\ files \in [Urls -> File]
        /\ active \in Servers \cup {None} /\ conf \in Config \cup {None}
        /\ toks \subseteq Tokens \cup {Anon} /\ confirming \in BOOLEAN
        /\ secStatus \in {"none", "busy", "ok", "failed"} /\ panelCalm \in BOOLEAN
    BY DEF PanelHolds, PanelInv, PanelTyped, TokenSets
  <2>2. panelCalls \in Seq(PanelCall)
    <3>1. panelCalls \in Seq(GoodCall) /\ GoodCall \subseteq PanelCall
      BY DEF PanelHolds, PanelInv, PanelTyped, GoodCall
    <3>2. QED
      BY <3>1
  <2>3. /\ lists \in Lists /\ row \in Lists /\ hosts \in [Hosts -> Settings]
        /\ infraStatus \in {"none", "busy", "ok", "partial", "failed"} /\ infraCalm \in BOOLEAN
        /\ removed \subseteq Hosts \cup Servers /\ ClientPerHost
    BY DEF InfraInv, InfraTyped, AlignedLists, Aligned, ClientPerHost
  <2>4. /\ \A u \in Users : {users[u], accounts[u]} \subseteq {None} \cup [role : Roles, disabled : BOOLEAN]
        /\ audit \in [typed : Filters \cup {None}, asked : Filters \cup {None},
                     shown : Filters \cup {None, "nothing"}]
        /\ usersStatus \in {"none", "busy", "ok", "failed"} /\ usersCalm \in BOOLEAN
    BY DEF PeopleInv, PeopleTyped, AccountsType, Account
  <2>5. StoredSound
    <3>1. \A u \in Urls : Sound(files[u].conf)
      BY DEF PanelHolds, PanelInv, PanelTyped
    <3>2. QED
      BY <3>1 DEF StoredSound, Sound, Clean
  <2>6. TypeOK
    BY <2>1, <2>2, <2>3, <2>4 DEF TypeOK
  <2>7. QED
    BY <2>3, <2>5, <2>6 DEF SettingsInv
<1>2. QED
  BY <1>1, PanelSafe, PTL
=============================================================================
