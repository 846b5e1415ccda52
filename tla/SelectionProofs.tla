-------------------------- MODULE SelectionProofs --------------------------
(***************************************************************************)
(* What a filter returns, for every list.                                  *)
(*                                                                         *)
(* The proofs are inductions over the length of the list.  No prover can   *)
(* instantiate the induction theorems of the library, which take a         *)
(* predicate as a parameter; so each one looks at the least element of the *)
(* set of counterexamples instead.                                         *)
(***************************************************************************)
EXTENDS Selection, SequenceTheorems, WellFoundedInduction, TLAPS

(* The order of the natural numbers as a relation *)
LessNat == {pair \in Nat \X Nat : pair[1] < pair[2]}

(* LessNat, in a form without tuples. *)
LEMMA LessNatIsLess == \A m, n \in Nat : <<m, n>> \in LessNat <=> m < n
BY DEF LessNat

(* A set of natural numbers that is not empty has a least element: what    *)
(* every induction below is made of.                                       *)
LEMMA LeastElement ==
  ASSUME NEW T \in SUBSET Nat, T # {}
  PROVE  \E m \in T : \A n \in T : m <= n
<1>1. IsWellFoundedOn(LessNat, Nat)
  <2>1. LessNat = OpToRel(<, Nat)
    BY DEF OpToRel, LessNat
  <2>2. QED
    BY <2>1, NatLessThanWellFounded
<1>2. PICK m \in T : \A n \in T : ~(<<n, m>> \in LessNat)
  BY <1>1, WFMin
<1>3. ASSUME NEW n \in T
      PROVE  m <= n
  <2>1. ~(n < m)
    BY <1>2, LessNatIsLess
  <2>2. QED
    BY <2>1
<1>4. QED
  BY <1>3

(* One step of the recursion of Selected, and a function that takes m of   *)
(* them.                                                                   *)
SelectStep(list, Wanted, g, n) ==
  IF n = 0 THEN <<>>
  ELSE IF list[n] \in Wanted THEN Append(g[n - 1], list[n]) ELSE g[n - 1]

Selecting(list, Wanted, g, m) == g = [n \in 0..m |-> SelectStep(list, Wanted, g, n)]

(* There is such a function, for any number of steps. *)
LEMMA SelectingExists ==
  ASSUME NEW list, NEW Wanted, NEW l \in Nat
  PROVE  \E g : Selecting(list, Wanted, g, l)
<1> DEFINE T == {m \in Nat : ~\E g : Selecting(list, Wanted, g, m)}
<1> SUFFICES ASSUME T # {}
             PROVE  FALSE
  OBVIOUS
<1>1. PICK m \in T : \A n \in T : m <= n
  BY LeastElement
<1>2. m # 0
  <2>1. Selecting(list, Wanted, [n \in 0..0 |-> <<>>], 0)
    BY DEF Selecting, SelectStep
  <2>2. QED
    BY <2>1
<1>3. m - 1 \in Nat /\ m - 1 \notin T
  BY <1>1, <1>2
<1>4. PICK g : Selecting(list, Wanted, g, m - 1)
  BY <1>3
<1>5. DEFINE h == [n \in 0..m |-> IF n = m THEN SelectStep(list, Wanted, g, m) ELSE g[n]]
<1>6. ASSUME NEW n \in 0..m
      PROVE  h[n] = SelectStep(list, Wanted, h, n)
  <2>1. CASE n = m
    <3>1. h[m - 1] = g[m - 1] /\ m # 0
      BY <1>2, <1>3
    <3>2. QED
      BY <2>1, <3>1 DEF SelectStep
  <2>2. CASE n # m
    <3>1. n \in 0..(m - 1) /\ h[n] = g[n]
      BY <1>3, <2>2
    <3>2. g[n] = SelectStep(list, Wanted, g, n)
      BY <1>4, <3>1 DEF Selecting
    <3>3. n # 0 => h[n - 1] = g[n - 1]
      BY <2>2, <1>3
    <3>4. QED
      BY <3>1, <3>2, <3>3 DEF SelectStep
  <2>3. QED
    BY <2>1, <2>2
<1>7. Selecting(list, Wanted, h, m)
  <2> HIDE DEF h
  <2>1. h = [n \in 0..m |-> h[n]]
    BY DEF h
  <2>2. QED
    BY <1>6, <2>1 DEF Selecting
<1>8. QED
  BY <1>7

(* Selected is what it ends with. *)
LEMMA SelectedIsLast ==
  ASSUME NEW list, NEW Wanted, Len(list) \in Nat
  PROVE  \E g : Selecting(list, Wanted, g, Len(list)) /\ Selected(list, Wanted) = g[Len(list)]
<1> DEFINE kept == CHOOSE g : Selecting(list, Wanted, g, Len(list))
<1>1. Selecting(list, Wanted, kept, Len(list))
  BY SelectingExists
<1>2. Selected(list, Wanted) = kept[Len(list)]
  BY DEF Selected, Selecting, SelectStep
<1>3. QED
  BY <1>1, <1>2

(* `at` says where in the first m elements of the list the elements of the *)
(* selection come from.                                                    *)
SelectedFrom(list, Wanted, sel, m, at) ==
  /\ at \in [1..Len(sel) -> 1..m]
  /\ \A i, j \in 1..Len(sel) : i < j => at[i] < at[j]
  /\ \A i \in 1..Len(sel) : sel[i] = list[at[i]] /\ sel[i] \in Wanted
  /\ \A k \in 1..m : list[k] \in Wanted => \E i \in 1..Len(sel) : at[i] = k

(* One more element that is wanted has the next place. *)
LEMMA SelectedFromGrows ==
  ASSUME NEW S, NEW list \in Seq(S), NEW Wanted, NEW sel \in Seq(S), NEW m \in 1..Len(list),
         NEW at, SelectedFrom(list, Wanted, sel, m - 1, at), list[m] \in Wanted
  PROVE  \E to : SelectedFrom(list, Wanted, Append(sel, list[m]), m, to)
<1>1. PICK l \in Nat : l = Len(sel)
  OBVIOUS
<1>2. PICK more : more = Append(sel, list[m])
  OBVIOUS
<1>3. /\ Len(more) = l + 1
      /\ \A i \in 1..l : more[i] = sel[i]
      /\ more[l + 1] = list[m]
  <2>1. list[m] \in S
    OBVIOUS
  <2>2. QED
    BY <1>1, <1>2, <2>1
<1>4. PICK to : to = [i \in 1..(l + 1) |-> IF i = l + 1 THEN m ELSE at[i]]
  OBVIOUS
<1>5. at \in [1..l -> 1..(m - 1)] /\ m \in Nat
  BY <1>1 DEF SelectedFrom
<1>6. /\ to \in [1..(l + 1) -> 1..m]
      /\ \A i \in 1..l : to[i] = at[i] /\ to[i] < m
      /\ to[l + 1] = m
  <2>1. to[l + 1] = m /\ m \in 1..m
    BY <1>4, <1>5
  <2>2. ASSUME NEW i \in 1..l
        PROVE  to[i] = at[i] /\ to[i] < m /\ to[i] \in 1..m
    <3>1. i \in 1..(l + 1) /\ i # l + 1 /\ at[i] \in 1..(m - 1)
      BY <1>5
    <3>2. QED
      BY <1>4, <1>5, <3>1
  <2>3. \A i \in 1..(l + 1) : i \in 1..l \/ i = l + 1
    OBVIOUS
  <2>4. QED
    BY <1>4, <2>1, <2>2, <2>3
<1>7. ASSUME NEW i \in 1..(l + 1), NEW j \in 1..(l + 1), i < j
      PROVE  to[i] < to[j]
  <2>1. i \in 1..l
    BY <1>7
  <2>2. CASE j = l + 1
    BY <1>6, <2>1, <2>2
  <2>3. CASE j # l + 1
    <3>1. j \in 1..l
      BY <2>3
    <3>2. at[i] < at[j]
      BY <1>1, <1>7, <2>1, <3>1 DEF SelectedFrom
    <3>3. QED
      BY <1>6, <2>1, <3>1, <3>2
  <2>4. QED
    BY <2>2, <2>3
<1>8. \A i \in 1..(l + 1) : more[i] = list[to[i]] /\ more[i] \in Wanted
  <2>1. \A i \in 1..l : more[i] = list[to[i]] /\ more[i] \in Wanted
    BY <1>1, <1>3, <1>6 DEF SelectedFrom
  <2>2. QED
    BY <1>1, <1>3, <1>6, <2>1
<1>9. ASSUME NEW k \in 1..m, list[k] \in Wanted
      PROVE  \E i \in 1..(l + 1) : to[i] = k
  <2>1. CASE k = m
    BY <1>1, <1>6, <2>1
  <2>2. CASE k # m
    <3>1. k \in 1..(m - 1)
      BY <2>2
    <3>2. PICK i \in 1..l : at[i] = k
      BY <1>1, <1>9, <3>1 DEF SelectedFrom
    <3>3. QED
      BY <1>1, <1>6, <3>2
  <2>3. QED
    BY <2>1, <2>2
<1>10. SelectedFrom(list, Wanted, more, m, to)
  BY <1>3, <1>6, <1>7, <1>8, <1>9 DEF SelectedFrom
<1>11. QED
  BY <1>2, <1>10

(* The elements selected are those wanted, in their order. *)
THEOREM SelectedPlaces ==
  ASSUME NEW S, NEW list \in Seq(S), NEW Wanted
  PROVE  /\ Selected(list, Wanted) \in Seq(S)
         /\ \E at : SelectedFrom(list, Wanted, Selected(list, Wanted), Len(list), at)
<1>1. PICK g : Selecting(list, Wanted, g, Len(list)) /\ Selected(list, Wanted) = g[Len(list)]
  BY SelectedIsLast
<1> DEFINE Good(m) == g[m] \in Seq(S) /\ \E at : SelectedFrom(list, Wanted, g[m], m, at)
<1> DEFINE T == {m \in 0..Len(list) : ~Good(m)}
<1>2. ASSUME T # {}
      PROVE  FALSE
  <2>1. PICK m \in T : \A n \in T : m <= n
    <3>1. T \in SUBSET Nat
      OBVIOUS
    <3> HIDE DEF T
    <3>2. QED
      BY <1>2, <3>1, LeastElement
  <2>2. m \in 0..Len(list) /\ g[m] = SelectStep(list, Wanted, g, m)
    BY <1>1 DEF Selecting
  <2>3. m # 0
    <3>1. g[0] = <<>>
      BY <1>1 DEF Selecting, SelectStep
    <3>2. SelectedFrom(list, Wanted, <<>>, 0, <<>>)
      BY DEF SelectedFrom
    <3>3. Good(0)
      BY <3>1, <3>2
    <3>4. QED
      BY <2>1, <3>3
  <2>4. m - 1 \in 0..Len(list) /\ m - 1 \notin T
    BY <2>1, <2>2, <2>3
  <2>5. g[m - 1] \in Seq(S) /\ \E at : SelectedFrom(list, Wanted, g[m - 1], m - 1, at)
    BY <2>4
  <2>6. PICK at : SelectedFrom(list, Wanted, g[m - 1], m - 1, at)
    BY <2>5
  <2>7. CASE list[m] \in Wanted
    <3>1. g[m] = Append(g[m - 1], list[m])
      BY <2>2, <2>3, <2>7 DEF SelectStep
    <3>2. list[m] \in S /\ m \in 1..Len(list)
      BY <2>2, <2>3
    <3>3. \E to : SelectedFrom(list, Wanted, g[m], m, to)
      BY <2>5, <2>6, <2>7, <3>1, <3>2, SelectedFromGrows
    <3>4. g[m] \in Seq(S)
      BY <2>5, <3>1, <3>2
    <3>5. QED
      BY <2>1, <3>3, <3>4
  <2>8. CASE list[m] \notin Wanted
    <3>1. g[m] = g[m - 1]
      BY <2>2, <2>3, <2>8 DEF SelectStep
    <3>2. SelectedFrom(list, Wanted, g[m - 1], m, at)
      BY <2>2, <2>5, <2>6, <2>8, <2>3 DEF SelectedFrom
    <3>3. QED
      BY <2>1, <2>5, <3>1, <3>2
  <2>9. QED
    BY <2>7, <2>8
<1>3. Len(list) \notin T
  BY <1>2
<1>4. Good(Len(list))
  BY <1>3
<1>5. QED
  BY <1>1, <1>4

(* What is selected is wanted, nothing else is, and what is in the list    *)
(* once is selected once.                                                  *)
THEOREM SelectedElements ==
  ASSUME NEW S, NEW list \in Seq(S), NEW Wanted
  PROVE  LET sel == Selected(list, Wanted) IN
         /\ sel \in Seq(S) /\ sel \in Seq(S \cap Wanted)
         /\ \A x : (\E i \in 1..Len(sel) : sel[i] = x)
                     <=> (x \in Wanted /\ \E k \in 1..Len(list) : list[k] = x)
         /\ (\A i, j \in 1..Len(list) : list[i] = list[j] => i = j)
              => \A i, j \in 1..Len(sel) : sel[i] = sel[j] => i = j
<1> DEFINE sel == Selected(list, Wanted)
<1>1. sel \in Seq(S) /\ Len(sel) \in Nat /\ Len(list) \in Nat
  BY SelectedPlaces
<1>2. PICK at : SelectedFrom(list, Wanted, sel, Len(list), at)
  BY SelectedPlaces
<1> HIDE DEF sel
<1>3. sel \in Seq(S \cap Wanted)
  <2>1. \A i \in 1..Len(sel) : sel[i] \in S \cap Wanted
    BY <1>1, <1>2 DEF SelectedFrom
  <2>2. QED
    BY <1>1, <2>1, SeqDef
<1>4. \A x : (\E i \in 1..Len(sel) : sel[i] = x)
              <=> (x \in Wanted /\ \E k \in 1..Len(list) : list[k] = x)
  <2>1. ASSUME NEW i \in 1..Len(sel)
        PROVE  sel[i] \in Wanted /\ \E k \in 1..Len(list) : list[k] = sel[i]
    BY <1>2 DEF SelectedFrom
  <2>2. ASSUME NEW k \in 1..Len(list), list[k] \in Wanted
        PROVE  \E i \in 1..Len(sel) : sel[i] = list[k]
    BY <1>2, <2>2 DEF SelectedFrom
  <2>3. QED
    BY <2>1, <2>2
<1>5. ASSUME \A i, j \in 1..Len(list) : list[i] = list[j] => i = j,
             NEW i \in 1..Len(sel), NEW j \in 1..Len(sel), sel[i] = sel[j]
      PROVE  i = j
  <2>1. at[i] = at[j] /\ at[i] \in Nat /\ at[j] \in Nat
    <3>1. at[i] \in 1..Len(list) /\ at[j] \in 1..Len(list) /\ list[at[i]] = list[at[j]]
      BY <1>2, <1>5 DEF SelectedFrom
    <3>2. QED
      BY <1>1, <1>5, <3>1
  <2>2. ~(i < j) /\ ~(j < i)
    BY <1>2, <2>1 DEF SelectedFrom
  <2>3. QED
    BY <1>1, <2>2
<1>6. QED
  BY <1>1, <1>3, <1>4, <1>5 DEF sel
=============================================================================
