------------------------------ MODULE PathProofs ------------------------------
(***************************************************************************)
(* path_to is a breadth-first search: for every pair of statuses and every *)
(* set to avoid it returns a shortest legal route that passes nothing it is*)
(* to avoid, and no route exactly when there is none.  And what a          *)
(* comprehension over a list keeps of it, which Fleet and Investigation    *)
(* need.                                                                   *)
(*                                                                         *)
(* Induction over the natural numbers is used in the form a prover without *)
(* higher-order variables can cite: about sets of numbers, and about       *)
(* functions that make one step of a recursion.                            *)
(***************************************************************************)
EXTENDS IncidentStateMachine, Selection, WellFoundedInduction,
        FiniteSetTheorems, SequenceTheorems, TLAPS

-----------------------------------------------------------------------------
(* Induction and recursion.                                                *)

(* A non-empty set of natural numbers has a least element.                 *)
LEMMA LeastNumber ==
  ASSUME NEW S, S \subseteq Nat, S # {}
  PROVE  \E m \in S : \A k \in S : m <= k
<1>1. PICK m \in S : \A k \in S : <<k, m>> \notin OpToRel(<, Nat)
  BY NatLessThanWellFounded, WFMin, Zenon
<1>2. ASSUME NEW k \in S PROVE m <= k
  <2>1. ~(<<k, m>>[1] < <<k, m>>[2])
    BY <1>1 DEF OpToRel
  <2>. QED
    BY <2>1
<1>. QED
  BY <1>2

(* Induction: a set that has 0 and, with a number, the next one.           *)
LEMMA SetInduction ==
  ASSUME NEW S, 0 \in S, \A n \in Nat : n \in S => n + 1 \in S
  PROVE  Nat \subseteq S
<1>. DEFINE B == Nat \ S
<1>. SUFFICES ASSUME B # {} PROVE FALSE
  OBVIOUS
<1>1. PICK m \in B : \A k \in B : m <= k
  BY LeastNumber
<1>2. m # 0 /\ m - 1 \in Nat /\ m - 1 \notin B
  BY <1>1
<1>. QED
  BY <1>1, <1>2

(* The same over an interval.                                              *)
LEMMA IntervalInduction ==
  ASSUME NEW N \in Nat, NEW S, 0 \in S, \A n \in 1..N : n - 1 \in S => n \in S
  PROVE  0..N \subseteq S
<1>. DEFINE T == {n \in Nat : n \in 0..N => n \in S}
<1>1. 0 \in T
  OBVIOUS
<1>2. ASSUME NEW n \in Nat, n \in T PROVE n + 1 \in T
  <2>. SUFFICES ASSUME n + 1 \in 0..N PROVE n + 1 \in S
    OBVIOUS
  <2>1. n \in S /\ n + 1 \in 1..N /\ (n + 1) - 1 = n
    BY <1>2
  <2>. QED
    BY <2>1
<1>3. Nat \subseteq T
  <2>. HIDE DEF T
  <2>. QED
    BY <1>1, <1>2, SetInduction
<1>. QED
  BY <1>3

(* f starts at x0, and step makes each value from the one before.          *)
Recurses(f, x0, step, N) ==
  f = [k \in 0..N |-> IF k = 0 THEN x0 ELSE step[<<k, f[k-1]>>]]

(* A recursion over an interval defines a function.                        *)
LEMMA Recursion ==
  ASSUME NEW X, NEW x0 \in X, NEW step \in [Nat \X X -> X], NEW N \in Nat
  PROVE  \E f \in [0..N -> X] : Recurses(f, x0, step, N)
<1>. DEFINE S == {n \in Nat : \E f \in [0..n -> X] : Recurses(f, x0, step, n)}
<1>1. 0 \in S
  <2>. DEFINE f == [k \in 0..0 |-> x0]
  <2>1. f \in [0..0 -> X] /\ Recurses(f, x0, step, 0)
    BY DEF Recurses
  <2>. QED
    BY <2>1
<1>2. ASSUME NEW n \in Nat, n \in S PROVE n + 1 \in S
  <2>1. PICK f \in [0..n -> X] : Recurses(f, x0, step, n)
    BY <1>2
  <2>. DEFINE g == [k \in 0..(n + 1) |-> IF k \in 0..n THEN f[k]
                                         ELSE step[<<k, f[k-1]>>]]
  <2>2. g \in [0..(n + 1) -> X]
    <3>. SUFFICES ASSUME NEW k \in 0..(n + 1), k \notin 0..n
                  PROVE  step[<<k, f[k-1]>>] \in X
      OBVIOUS
    <3>1. k - 1 \in 0..n /\ f[k-1] \in X /\ k \in Nat
      OBVIOUS
    <3>. QED
      BY <3>1
  <2>3. ASSUME NEW k \in 0..(n + 1)
        PROVE  g[k] = IF k = 0 THEN x0 ELSE step[<<k, g[k-1]>>]
    <3>1. CASE k \in 0..n
      <4>1. f[k] = IF k = 0 THEN x0 ELSE step[<<k, f[k-1]>>]
        BY <2>1, <3>1 DEF Recurses
      <4>2. k # 0 => g[k-1] = f[k-1]
        BY <3>1
      <4>. QED
        BY <3>1, <4>1, <4>2
    <3>2. CASE k = n + 1
      <4>1. g[k-1] = f[k-1] /\ k # 0 /\ k \notin 0..n
        BY <3>2
      <4>. QED
        BY <4>1
    <3>. QED
      BY <3>1, <3>2
  <2>4. Recurses(g, x0, step, n + 1)
    BY <2>3 DEF Recurses
  <2>5. \E h \in [0..(n + 1) -> X] : Recurses(h, x0, step, n + 1)
    <3>. HIDE DEF g
    <3>. QED
      BY <2>2, <2>4, Zenon
  <2>6. n + 1 \in Nat
    OBVIOUS
  <2>. QED
    BY <2>5, <2>6, Zenon
<1>3. Nat \subseteq S
  <2>. HIDE DEF S
  <2>. QED
    BY <1>1, <1>2, SetInduction
<1>. QED
  BY <1>3

-----------------------------------------------------------------------------
(* Only: a selection grows by each wanted item as the items are gone       *)
(* through.                                                                *)
Selects(upto, T, items, wanted) ==
  /\ Only(items, wanted) = upto[Len(items)]
  /\ \A k \in 0..Len(items) : upto[k] \in Seq(T \cap wanted)
  /\ \A k \in 1..Len(items) :
       upto[k] = IF items[k] \in wanted THEN Append(upto[k-1], items[k])
                 ELSE upto[k-1]

(* Every selection is made so, and is of wanted items only.                *)
LEMMA OnlyGrows ==
  ASSUME NEW T, NEW items \in Seq(T), NEW wanted
  PROVE  \E upto : Selects(upto, T, items, wanted)
<1>. DEFINE N == Len(items)
            X == Seq(T \cap wanted)
            next(k, s) == IF items[k] \in wanted THEN Append(s, items[k]) ELSE s
            step == [p \in Nat \X X |-> IF p[1] \in 1..N THEN next(p[1], p[2])
                                        ELSE <<>>]
            Is(f) == f = [k \in 0..N |-> IF k = 0 THEN <<>>
                                         ELSE IF items[k] \in wanted
                                         THEN Append(f[k-1], items[k])
                                         ELSE f[k-1]]
            upto == CHOOSE f : Is(f)
<1>1. N \in Nat /\ \A k \in 1..N : items[k] \in T
  BY LenProperties, ElementOfSeq
<1>2. \A k \in 1..N, s \in X : next(k, s) \in X
  <2>1. ASSUME NEW k \in 1..N, NEW s \in X, items[k] \in wanted
        PROVE  Append(s, items[k]) \in X
    <3>1. items[k] \in T \cap wanted
      BY <1>1, <2>1
    <3>. QED
      BY <3>1, AppendProperties
  <2>. HIDE DEF N, X
  <2>. QED
    BY <2>1
<1>3. <<>> \in X
  BY EmptySeq
<1>. HIDE DEF N, X
<1>4. step \in [Nat \X X -> X]
  <2>. HIDE DEF next
  <2>. QED
    BY <1>2, <1>3
<1>5. \A k \in 1..N, s \in X : step[<<k, s>>] = next(k, s)
  <2>. HIDE DEF next
  <2>1. \A k \in 1..N : k \in Nat
    BY <1>1
  <2>. QED
    BY <2>1
<1>6. PICK f \in [0..N -> X] : Recurses(f, <<>>, step, N)
  <2>. HIDE DEF step
  <2>. QED
    BY <1>1, <1>3, <1>4, Recursion, Zenon
<1>7. Is(f)
  <2>. HIDE DEF step, next
  <2>1. /\ \A k \in 1..N : k \in 0..N /\ k # 0 /\ k - 1 \in 0..N
        /\ 0 \in 0..N /\ \A k \in 0..N : k = 0 \/ k \in 1..N
    BY <1>1
  <2>2. f = [k \in 0..N |-> IF k = 0 THEN <<>> ELSE step[<<k, f[k-1]>>]]
    BY <1>6, Zenon DEF Recurses
  <2>3. \A k \in 0..N : f[k] = IF k = 0 THEN <<>> ELSE step[<<k, f[k-1]>>]
    BY <2>2, Zenon
  <2>4. \A k \in 1..N : f[k] = next(k, f[k-1])
    BY <1>5, <2>1, <2>3
  <2>. QED
    BY <2>1, <2>2, <2>3, <2>4 DEF next
<1>8. Is(upto)
  <2>. HIDE DEF Is
  <2>. QED
    BY <1>7
<1>9. Only(items, wanted) = upto[N]
  BY DEF Only, N
<1>. HIDE DEF upto
<1>. DEFINE S == {k \in 0..N : upto[k] \in X}
<1>10. upto[0] = <<>> /\ \A k \in 1..N : upto[k] = next(k, upto[k-1])
  <2>1. 0 \in 0..N /\ \A k \in 1..N : k \in 0..N /\ k # 0
    BY <1>1
  <2>. QED
    BY <1>8, <2>1
<1>11. 0..N \subseteq S
  <2>. HIDE DEF next
  <2>1. 0 \in S
    BY <1>1, <1>3, <1>10
  <2>2. ASSUME NEW k \in 1..N, k - 1 \in S PROVE k \in S
    <3>1. k \in 0..N
      BY <1>1
    <3>. QED
      BY <1>2, <1>10, <2>2, <3>1
  <2>. HIDE DEF S
  <2>. QED
    BY <1>1, <2>1, <2>2, IntervalInduction
<1>12. /\ Only(items, wanted) = upto[N]
       /\ \A k \in 0..N : upto[k] \in X
       /\ \A k \in 1..N : upto[k] = next(k, upto[k-1])
  BY <1>9, <1>10, <1>11
<1>13. Selects(upto, T, items, wanted)
  BY <1>12, Zenon DEF Selects, X, N
<1>. QED
  BY <1>13, Zenon

(* Only wanted items are selected.                                         *)
LEMMA OnlyWanted ==
  ASSUME NEW T, NEW items \in Seq(T), NEW wanted
  PROVE  Only(items, wanted) \in Seq(T \cap wanted)
<1>1. Len(items) \in 0..Len(items)
  BY LenProperties
<1>2. PICK upto : Selects(upto, T, items, wanted)
  BY OnlyGrows, Zenon
<1>. QED
  BY <1>1, <1>2 DEF Selects

(* And every wanted item is.                                               *)
LEMMA OnlyKeeps ==
  ASSUME NEW T, NEW items \in Seq(T), NEW wanted, NEW n \in DOMAIN items,
         items[n] \in wanted
  PROVE  \E i \in DOMAIN Only(items, wanted) : Only(items, wanted)[i] = items[n]
<1>. DEFINE N == Len(items)
            Kept(s, m) == \E i \in DOMAIN s : s[i] = items[m]
<1>0. PICK upto : Selects(upto, T, items, wanted)
  BY OnlyGrows, Zenon
<1>1. /\ Only(items, wanted) = upto[N]
      /\ \A k \in 0..N : upto[k] \in Seq(T \cap wanted)
      /\ \A k \in 1..N :
           upto[k] = IF items[k] \in wanted THEN Append(upto[k-1], items[k])
                     ELSE upto[k-1]
  BY <1>0 DEF Selects
<1>2. N \in Nat /\ n \in 1..N
  BY LenProperties
<1>. HIDE DEF N
<1>. DEFINE S == {k \in 0..N : \A m \in 1..k : items[m] \in wanted => Kept(upto[k], m)}
<1>3. 0 \in S
  BY <1>2
<1>4. ASSUME NEW k \in 1..N, k - 1 \in S PROVE k \in S
  <2>. DEFINE s == upto[k-1]
  <2>1. k - 1 \in 0..N /\ k \in 0..N /\ \A m \in 1..k : m = k \/ m \in 1..(k-1)
    BY <1>2
  <2>2. s \in Seq(T \cap wanted)
    BY <1>1, <2>1
  <2>3. \A m \in 1..(k-1) : items[m] \in wanted => Kept(s, m)
    BY <1>4
  <2>4. upto[k] = IF items[k] \in wanted THEN Append(s, items[k]) ELSE s
    BY <1>1
  <2>5. CASE items[k] \in wanted
    <3>1. /\ upto[k] = Append(s, items[k])
          /\ Len(s) \in Nat /\ DOMAIN s = 1..Len(s)
          /\ DOMAIN upto[k] = 1..(Len(s) + 1)
          /\ upto[k][Len(s) + 1] = items[k]
          /\ \A i \in 1..Len(s) : upto[k][i] = s[i]
      <4>1. upto[k] = Append(s, items[k])
        BY <2>4, <2>5
      <4>. HIDE DEF s
      <4>. QED
        BY <2>2, <4>1
    <3>2. Kept(upto[k], k)
      BY <3>1
    <3>3. ASSUME NEW m \in 1..(k-1), Kept(s, m) PROVE Kept(upto[k], m)
      <4>1. PICK i \in DOMAIN s : s[i] = items[m]
        BY <3>3
      <4>2. i \in DOMAIN upto[k] /\ upto[k][i] = items[m]
        <5>. HIDE DEF s
        <5>. QED
          BY <3>1, <4>1
      <4>. QED
        BY <4>2
    <3>. HIDE DEF Kept, s
    <3>. QED
      BY <2>1, <2>3, <3>2, <3>3
  <2>6. CASE items[k] \notin wanted
    <3>1. upto[k] = s
      BY <2>4, <2>6
    <3>. HIDE DEF Kept, s
    <3>. QED
      BY <2>1, <2>3, <2>6, <3>1
  <2>. QED
    BY <2>5, <2>6
<1>5. 0..N \subseteq S
  <2>. HIDE DEF S
  <2>. QED
    BY <1>2, <1>3, <1>4, IntervalInduction
<1>6. N \in S
  BY <1>2, <1>5
<1>. QED
  BY <1>1, <1>2, <1>6

-----------------------------------------------------------------------------
(* Sorted: the names of a set, each once.                                  *)

Picked(set, k) == set \cap {ByName[j] : j \in 1..k}

(* The names are seventeen, and name each status once.                     *)
LEMMA NamesAreStatuses ==
  /\ Len(ByName) = 17 /\ DOMAIN ByName = 1..17
  /\ \A i \in 1..17 : ByName[i] \in Statuses
  /\ \A n \in Statuses : \E i \in 1..17 : ByName[i] = n
  /\ \A i, j \in 1..17 : ByName[i] = ByName[j] => i = j
<1>1. Len(ByName) = 17 /\ DOMAIN ByName = 1..17
  BY DEF ByName
<1>2. \A i \in 1..17 : ByName[i] \in Statuses
  BY DEF ByName, Statuses
<1>3. \A n \in Statuses : \E i \in 1..17 : ByName[i] = n
  BY DEF ByName, Statuses
<1>4. \A i, j \in 1..17 : ByName[i] = ByName[j] => i = j
  BY DEF ByName
<1>. QED
  BY <1>1, <1>2, <1>3, <1>4

(* Picking is the function its recursion describes.                        *)
LEMMA PickingDefined ==
  ASSUME NEW set, set \subseteq Statuses
  PROVE  /\ Picking(set) \in [0..17 -> Seq(Statuses)]
         /\ Picking(set)[0] = <<>>
         /\ \A k \in 1..17 :
              Picking(set)[k] = IF ByName[k] \in set
                                THEN Append(Picking(set)[k-1], ByName[k])
                                ELSE Picking(set)[k-1]
<1>. DEFINE X == Seq(Statuses)
            next(k, s) == IF ByName[k] \in set THEN Append(s, ByName[k]) ELSE s
            step == [p \in Nat \X X |-> IF p[1] \in 1..17 THEN next(p[1], p[2])
                                        ELSE <<>>]
            Is(f) == f = [k \in 0..17 |-> IF k = 0 THEN <<>>
                                          ELSE IF ByName[k] \in set
                                          THEN Append(f[k-1], ByName[k])
                                          ELSE f[k-1]]
<1>1. \A k \in 1..17, s \in X : next(k, s) \in X
  BY NamesAreStatuses, AppendProperties
<1>2. step \in [Nat \X X -> X]
  <2>. HIDE DEF next, X
  <2>1. <<>> \in X
    BY DEF X
  <2>. QED
    BY <1>1, <2>1
<1>3. \A k \in 1..17, s \in X : step[<<k, s>>] = next(k, s)
  <2>. HIDE DEF next, X
  <2>. QED
    OBVIOUS
<1>4. PICK f \in [0..17 -> X] : Recurses(f, <<>>, step, 17)
  <2>1. <<>> \in X /\ 17 \in Nat
    OBVIOUS
  <2>. HIDE DEF step, X
  <2>. QED
    BY <1>2, <2>1, Recursion, Zenon
<1>5. Is(f)
  <2>. HIDE DEF step, X, next
  <2>1. \A k \in 1..17 : f[k-1] \in X
    OBVIOUS
  <2>2. f[0] = <<>> /\ \A k \in 1..17 : f[k] = step[<<k, f[k-1]>>]
    <3>1. 0 \in 0..17 /\ \A k \in 1..17 : k \in 0..17 /\ k # 0
      OBVIOUS
    <3>2. f = [k \in 0..17 |-> IF k = 0 THEN <<>> ELSE step[<<k, f[k-1]>>]]
      BY <1>4, Zenon DEF Recurses
    <3>3. \A k \in 0..17 : f[k] = IF k = 0 THEN <<>> ELSE step[<<k, f[k-1]>>]
      BY <3>2, Zenon
    <3>. QED
      BY <3>1, <3>3
  <2>3. \A k \in 1..17 : f[k] = next(k, f[k-1])
    BY <1>3, <2>1, <2>2
  <2>4. \A k \in 0..17 : k = 0 \/ k \in 1..17
    OBVIOUS
  <2>. QED
    BY <2>2, <2>3, <2>4 DEF next
<1>6. Is(Picking(set))
  <2>1. \E g : Is(g)
    BY <1>5
  <2>2. Picking(set) = CHOOSE g : Is(g)
    BY NamesAreStatuses DEF Picking
  <2>. HIDE DEF Is
  <2>. QED
    BY <2>1, <2>2
<1>. DEFINE g == Picking(set)
            S == {k \in 0..17 : g[k] \in X}
<1>7. DOMAIN g = 0..17 /\ g[0] = <<>>
  BY <1>6
<1>8. ASSUME NEW k \in 1..17 PROVE g[k] = next(k, g[k-1])
  <2>1. k \in 0..17 /\ k # 0
    OBVIOUS
  <2>. HIDE DEF g
  <2>. QED
    BY <1>6, <2>1 DEF g
<1>9. 0..17 \subseteq S
  <2>. HIDE DEF g, next, X
  <2>1. 0 \in S
    <3>1. <<>> \in X /\ 0 \in 0..17
      BY DEF X
    <3>. QED
      BY <1>7, <3>1
  <2>2. ASSUME NEW k \in 1..17, k - 1 \in S PROVE k \in S
    BY <1>1, <1>8, <2>2
  <2>. HIDE DEF S
  <2>. QED
    BY <2>1, <2>2, IntervalInduction
<1>. QED
  <2>1. \A k \in 0..17 : g[k] \in X
    BY <1>9
  <2>. HIDE DEF g
  <2>2. g = [k \in 0..17 |-> g[k]]
    BY <1>6 DEF g
  <2>3. g \in [0..17 -> X]
    BY <2>1, <2>2
  <2>. QED
    BY <1>7, <1>8, <2>3 DEF g

(* Sorted lists a set of statuses, each element once, and there are at most*)
(* seventeen.                                                              *)
LEMMA SortedLists ==
  ASSUME NEW set, set \subseteq Statuses
  PROVE  /\ Sorted(set) \in Seq(Statuses)
         /\ \A i \in 1..Len(Sorted(set)) : Sorted(set)[i] \in set
         /\ \A n \in set : \E i \in 1..Len(Sorted(set)) : Sorted(set)[i] = n
         /\ IsFiniteSet(set)
         /\ Len(Sorted(set)) = Cardinality(set)
         /\ Cardinality(set) <= 17
<1>. DEFINE g == Picking(set)
            P(k) == /\ \A i \in 1..Len(g[k]) : g[k][i] \in Picked(set, k)
                    /\ \A n \in Picked(set, k) : \E i \in 1..Len(g[k]) : g[k][i] = n
                    /\ IsFiniteSet(Picked(set, k))
                    /\ Len(g[k]) = Cardinality(Picked(set, k))
                    /\ Len(g[k]) <= k
            S == {k \in 0..17 : P(k)}
<1>1. /\ g \in [0..17 -> Seq(Statuses)] /\ g[0] = <<>>
      /\ \A k \in 1..17 : g[k] = IF ByName[k] \in set THEN Append(g[k-1], ByName[k])
                                 ELSE g[k-1]
  BY PickingDefined
<1>. HIDE DEF g
<1>2. 0 \in S
  <2>1. Picked(set, 0) = {}
    BY DEF Picked
  <2>2. Len(g[0]) = 0
    BY <1>1
  <2>. QED
    BY <2>1, <2>2, FS_EmptySet
<1>3. ASSUME NEW k \in 1..17, k - 1 \in S PROVE k \in S
  <2>1. P(k-1) /\ k \in 0..17
    BY <1>3
  <2>2. 1..k = 1..(k-1) \cup {k}
    OBVIOUS
  <2>3. g[k-1] \in Seq(Statuses) /\ Len(g[k-1]) \in Nat /\ ByName[k] \in Statuses
    <3>1. k - 1 \in 0..17
      OBVIOUS
    <3>2. g[k-1] \in Seq(Statuses)
      BY <1>1, <3>1
    <3>. QED
      BY <3>2, NamesAreStatuses, LenProperties
  <2>4. CASE ByName[k] \in set
    <3>1. Picked(set, k) = Picked(set, k-1) \cup {ByName[k]}
      BY <2>2, <2>4 DEF Picked
    <3>2. ByName[k] \notin Picked(set, k-1)
      <4>1. \A j \in 1..(k-1) : j \in 1..17 /\ j # k
        OBVIOUS
      <4>. QED
        BY <4>1, NamesAreStatuses DEF Picked
    <3>3. g[k] = Append(g[k-1], ByName[k])
      BY <1>1, <2>4
    <3>4. /\ Len(g[k]) = Len(g[k-1]) + 1
          /\ \A i \in 1..Len(g[k-1]) : g[k][i] = g[k-1][i]
          /\ g[k][Len(g[k-1]) + 1] = ByName[k]
      BY <2>3, <3>3, AppendProperties
    <3>5. /\ IsFiniteSet(Picked(set, k))
          /\ Cardinality(Picked(set, k)) = Cardinality(Picked(set, k-1)) + 1
      <4>1. IsFiniteSet(Picked(set, k-1))
        BY <2>1
      <4>2. /\ IsFiniteSet(Picked(set, k-1) \cup {ByName[k]})
            /\ Cardinality(Picked(set, k-1) \cup {ByName[k]})
                 = IF ByName[k] \in Picked(set, k-1)
                   THEN Cardinality(Picked(set, k-1))
                   ELSE Cardinality(Picked(set, k-1)) + 1
        BY <4>1, FS_AddElement, Zenon
      <4>. QED
        BY <3>1, <3>2, <4>2
    <3>6. Len(g[k]) = Cardinality(Picked(set, k)) /\ Len(g[k]) <= k
      BY <2>1, <2>3, <3>4, <3>5
    <3>7. ASSUME NEW i \in 1..Len(g[k]) PROVE g[k][i] \in Picked(set, k)
      <4>1. i \in 1..Len(g[k-1]) \/ i = Len(g[k-1]) + 1
        BY <2>3, <3>4
      <4>. QED
        BY <2>1, <3>1, <3>4, <4>1
    <3>8. ASSUME NEW n \in Picked(set, k) PROVE \E i \in 1..Len(g[k]) : g[k][i] = n
      <4>1. CASE n \in Picked(set, k-1)
        <5>1. PICK i \in 1..Len(g[k-1]) : g[k-1][i] = n
          BY <2>1, <4>1
        <5>2. i \in 1..Len(g[k])
          BY <2>3, <3>4
        <5>. QED
          BY <3>4, <5>1, <5>2
      <4>2. CASE n = ByName[k]
        <5>1. Len(g[k-1]) + 1 \in 1..Len(g[k])
          BY <2>3, <3>4
        <5>. QED
          BY <3>4, <4>2, <5>1
      <4>. QED
        BY <3>1, <4>1, <4>2
    <3>. QED
      BY <2>1, <3>5, <3>6, <3>7, <3>8
  <2>5. CASE ByName[k] \notin set
    <3>1. Picked(set, k) = Picked(set, k-1)
      BY <2>2, <2>5 DEF Picked
    <3>2. g[k] = g[k-1]
      BY <1>1, <2>5
    <3>3. Len(g[k]) <= k
      BY <2>1, <2>3, <3>2
    <3>. QED
      BY <2>1, <3>1, <3>2, <3>3
  <2>. QED
    BY <2>4, <2>5
<1>4. 17 \in S
  <2>. HIDE DEF S
  <2>1. 0..17 \subseteq S
    BY <1>2, <1>3, IntervalInduction
  <2>. QED
    BY <2>1
<1>5. Picked(set, 17) = set
  BY NamesAreStatuses DEF Picked
<1>6. Sorted(set) = g[17]
  BY NamesAreStatuses DEF Sorted, g
<1>7. 17 \in 0..17 /\ P(17)
  BY <1>4
<1>8. g[17] \in Seq(Statuses)
  BY <1>1, <1>7
<1>. QED
  BY <1>5, <1>6, <1>7, <1>8

-----------------------------------------------------------------------------
(* What the search and the reference definition compute, visit by visit.   *)

Passable(n, current, avoid) == n \in avoid => n = current

(* Within is the function its recursion describes.                         *)
LEMMA WithinDefined ==
  ASSUME NEW from \in Statuses, NEW avoid
  PROVE  /\ Within(from, avoid) \in [0..17 -> SUBSET Statuses]
         /\ Within(from, avoid)[0] = {from}
         /\ \A k \in 1..17 :
              Within(from, avoid)[k] =
                Within(from, avoid)[k-1]
                  \cup {t \in Statuses : \E n \in Within(from, avoid)[k-1] :
                          Passable(n, from, avoid) /\ can_transition(n, t)}
<1>. DEFINE X == SUBSET Statuses
            next(s) == Beyond(s, from, avoid)
            step == [p \in Nat \X X |-> next(p[2])]
            Is(f) == f = [k \in 0..17 |-> IF k = 0 THEN {from} ELSE next(f[k-1])]
<1>1. \A s \in X : next(s) \in X
  BY DEF Beyond
<1>2. {from} \in X
  OBVIOUS
<1>. HIDE DEF X, next
<1>3. step \in [Nat \X X -> X]
  BY <1>1
<1>4. \A k \in 1..17, s \in X : step[<<k, s>>] = next(s)
  OBVIOUS
<1>5. PICK f \in [0..17 -> X] : Recurses(f, {from}, step, 17)
  <2>1. 17 \in Nat
    OBVIOUS
  <2>. HIDE DEF step
  <2>. QED
    BY <1>2, <1>3, <2>1, Recursion, Zenon
<1>6. Is(f)
  <2>. HIDE DEF step
  <2>1. \A k \in 0..17 : f[k] = IF k = 0 THEN {from} ELSE step[<<k, f[k-1]>>]
    BY <1>5, Zenon DEF Recurses
  <2>2. ASSUME NEW k \in 0..17, k # 0 PROVE step[<<k, f[k-1]>>] = next(f[k-1])
    <3>1. k \in 1..17 /\ k - 1 \in 0..17
      BY <2>2
    <3>. QED
      BY <1>4, <3>1
  <2>. QED
    BY <2>1, <2>2
<1>7. Is(Within(from, avoid))
  <2>1. Within(from, avoid) = CHOOSE g : Is(g)
    BY NamesAreStatuses DEF Within, next
  <2>. HIDE DEF Is
  <2>. QED
    BY <1>6, <2>1
<1>. DEFINE g == Within(from, avoid)
            S == {k \in 0..17 : g[k] \in X}
<1>8. g[0] = {from}
  BY <1>7
<1>9. ASSUME NEW k \in 1..17 PROVE g[k] = next(g[k-1])
  <2>1. k \in 0..17 /\ k # 0
    OBVIOUS
  <2>. HIDE DEF g
  <2>. QED
    BY <1>7, <2>1 DEF g
<1>10. 0..17 \subseteq S
  <2>. HIDE DEF g
  <2>1. 0 \in S
    BY <1>2, <1>8
  <2>2. ASSUME NEW k \in 1..17, k - 1 \in S PROVE k \in S
    BY <1>1, <1>9, <2>2
  <2>. HIDE DEF S
  <2>. QED
    BY <2>1, <2>2, IntervalInduction
<1>. QED
  <2>1. \A k \in 0..17 : g[k] \in X
    BY <1>10
  <2>2. g \in [0..17 -> X]
    <3>. HIDE DEF g
    <3>1. g = [k \in 0..17 |-> g[k]]
      BY <1>7 DEF g
    <3>. QED
      BY <2>1, <3>1
  <2>. QED
    BY <1>8, <1>9, <2>2 DEF X, next, Beyond, Passable

(* More steps reach no fewer statuses.                                     *)
LEMMA WithinGrows ==
  ASSUME NEW from \in Statuses, NEW avoid, NEW j \in 0..17, NEW k \in 0..j
  PROVE  Within(from, avoid)[k] \subseteq Within(from, avoid)[j]
<1>. DEFINE W == Within(from, avoid)
            S == {d \in 0..17 : \A e \in 0..d : W[e] \subseteq W[d]}
<1>1. \A d \in 1..17 : W[d-1] \subseteq W[d]
  BY WithinDefined, SMTT(30)
<1>2. 0..17 \subseteq S
  <2>. HIDE DEF W
  <2>1. 0 \in S
    OBVIOUS
  <2>2. ASSUME NEW d \in 1..17, d - 1 \in S PROVE d \in S
    <3>1. \A e \in 0..d : e = d \/ e \in 0..(d-1)
      OBVIOUS
    <3>. QED
      BY <1>1, <2>2, <3>1
  <2>. HIDE DEF S
  <2>. QED
    BY <2>1, <2>2, IntervalInduction
<1>3. j \in S
  BY <1>2
<1>. QED
  BY <1>3

SearchStates == [queue : Seq(Seq(Statuses)), seen : SUBSET Statuses, found : Seq(Statuses)]

(* The status a route ends at.                                             *)
LEMMA EndOfRoute ==
  ASSUME NEW route \in Seq(Statuses), NEW current \in Statuses, NEW n \in Statuses
  PROVE  /\ End(route, current) \in Statuses
         /\ Append(route, n) \in Seq(Statuses) /\ Append(route, n) # <<>>
         /\ Len(Append(route, n)) = Len(route) + 1
         /\ Last(Append(route, n)) = n /\ End(Append(route, n), current) = n
<1>1. Len(route) \in Nat /\ (route # <<>> => Len(route) \in 1..Len(route))
  BY EmptySeq, LenProperties
<1>2. End(route, current) \in Statuses
  BY <1>1, ElementOfSeq DEF End, Last
<1>3. /\ Append(route, n) \in Seq(Statuses) /\ Append(route, n) # <<>>
      /\ Len(Append(route, n)) = Len(route) + 1
      /\ Append(route, n)[Len(route) + 1] = n
  BY AppendProperties
<1>. QED
  BY <1>2, <1>3 DEF End, Last

(* t has the queue of s without its first route and, after the others, one *)
(* route more for each status in next.                                     *)
Requeues(s, t, route, next) ==
  LET rest == Len(s.queue) - 1
  IN  /\ t \in SearchStates /\ t.seen = s.seen \cup next /\ t.found = <<>>
      /\ rest \in Nat /\ IsFiniteSet(next)
      /\ Len(t.queue) = rest + Cardinality(next)
      /\ \A i \in 1..rest : t.queue[i] = s.queue[i + 1]
      /\ \A i \in 1..Len(t.queue) : i \notin 1..rest =>
           \E n \in next : t.queue[i] = Append(route, n)
      /\ \A n \in next : \E i \in 1..Len(t.queue) : t.queue[i] = Append(route, n)

(* A visit that does not end the search takes the first route off the      *)
(* queue and adds one route more for each status next to its end.          *)
LEMMA VisitQueues ==
  ASSUME NEW s \in SearchStates, s.queue # <<>>, NEW current \in Statuses,
         NEW target \in Statuses, NEW avoid,
         target \notin Successors(End(Head(s.queue), current), target, avoid, s.seen)
  PROVE  Requeues(s, Visit(s, current, target, avoid), Head(s.queue),
                  Successors(End(Head(s.queue), current), target, avoid, s.seen))
<1>. DEFINE t     == Visit(s, current, target, avoid)
            route == Head(s.queue)
            next  == Successors(End(route, current), target, avoid, s.seen)
            rest  == Len(s.queue) - 1
            names == Sorted(next)
            more  == [i \in DOMAIN names |-> Append(route, names[i])]
<1>1. /\ s.queue \in Seq(Seq(Statuses)) /\ s.seen \subseteq Statuses
      /\ next \subseteq Statuses
  BY DEF SearchStates, Successors
<1>2. /\ t.queue = Tail(s.queue) \o more /\ t.seen = s.seen \cup next /\ t.found = <<>>
      /\ t = [queue |-> t.queue, seen |-> t.seen, found |-> t.found]
  BY DEF Visit
<1>. HIDE DEF t, next, names
<1>3. /\ names \in Seq(Statuses) /\ Len(names) \in Nat /\ DOMAIN names = 1..Len(names)
      /\ \A i \in 1..Len(names) : names[i] \in next
      /\ \A n \in next : \E i \in 1..Len(names) : names[i] = n
      /\ IsFiniteSet(next) /\ Len(names) = Cardinality(next)
  BY <1>1, SortedLists, LenProperties DEF names
<1>4. /\ rest \in Nat /\ Tail(s.queue) \in Seq(Seq(Statuses)) /\ Len(Tail(s.queue)) = rest
      /\ \A i \in 1..rest : Tail(s.queue)[i] = s.queue[i + 1]
      /\ route \in Seq(Statuses)
  BY <1>1, HeadTailProperties, EmptySeq, LenProperties
<1>. HIDE DEF route, rest
<1>5. more \in Seq(Seq(Statuses)) /\ Len(more) = Len(names)
      /\ \A i \in 1..Len(names) : more[i] = Append(route, names[i])
  <2>1. \A i \in 1..Len(names) : Append(route, names[i]) \in Seq(Statuses)
    BY <1>1, <1>3, <1>4, AppendProperties
  <2>2. /\ more = [i \in 1..Len(names) |-> Append(route, names[i])]
        /\ DOMAIN more = 1..Len(names)
    BY <1>3
  <2>3. /\ more \in [1..Len(names) -> Seq(Statuses)]
        /\ \A i \in 1..Len(names) : more[i] = Append(route, names[i])
    BY <2>1, <2>2
  <2>. HIDE DEF more
  <2>4. more \in Seq(Seq(Statuses))
    BY <1>3, <2>3, SeqDef
  <2>5. Len(more) \in Nat /\ DOMAIN more = 1..Len(more)
    BY <2>4, LenProperties
  <2>6. Len(more) = Len(names)
    BY <1>3, <2>2, <2>5
  <2>. QED
    BY <2>3, <2>4, <2>6
<1>. HIDE DEF more
<1>6. /\ t.queue \in Seq(Seq(Statuses)) /\ Len(t.queue) = rest + Len(names)
      /\ \A i \in 1..(rest + Len(names)) :
           t.queue[i] = IF i <= rest THEN Tail(s.queue)[i] ELSE more[i - rest]
  BY <1>2, <1>4, <1>5, ConcatProperties
<1>7. t \in SearchStates
  <2>1. t.seen \in SUBSET Statuses /\ t.found \in Seq(Statuses)
    BY <1>1, <1>2
  <2>. QED
    BY <1>2, <1>6, <2>1 DEF SearchStates
<1>8. ASSUME NEW i \in 1..rest PROVE t.queue[i] = s.queue[i + 1]
  <2>1. i \in 1..(rest + Len(names)) /\ i <= rest
    BY <1>3, <1>4
  <2>. QED
    BY <1>4, <1>6, <2>1
<1>9. ASSUME NEW i \in 1..Len(t.queue), i \notin 1..rest
      PROVE  \E n \in next : t.queue[i] = Append(route, n)
  <2>1. /\ i - rest \in 1..Len(names) /\ ~(i <= rest)
        /\ i \in 1..(rest + Len(names))
    BY <1>3, <1>4, <1>6, <1>9
  <2>2. t.queue[i] = Append(route, names[i - rest])
    BY <1>5, <1>6, <2>1
  <2>. QED
    BY <1>3, <2>1, <2>2
<1>10. ASSUME NEW n \in next
       PROVE  \E i \in 1..Len(t.queue) : t.queue[i] = Append(route, n)
  <2>1. PICK j \in 1..Len(names) : names[j] = n
    BY <1>3
  <2>2. rest + j \in 1..Len(t.queue) /\ ~(rest + j <= rest) /\ (rest + j) - rest = j
    BY <1>3, <1>4, <1>6
  <2>. QED
    BY <1>5, <1>6, <2>1, <2>2
<1>. QED
  BY <1>2, <1>3, <1>4, <1>6, <1>7, <1>8, <1>9, <1>10 DEF Requeues, t, route, next, rest

-----------------------------------------------------------------------------
(* The invariant of the search.                                            *)

(* Every step of a route is legal.                                         *)
Legal(route, current) ==
  \A i \in 1..Len(route) :
    can_transition(IF i = 1 THEN current ELSE route[i-1], route[i])

(* A search that found a route found a shortest one.                       *)
Finds(s, current, target, avoid) ==
  /\ s.queue = <<>> /\ Len(s.found) \in 1..17
  /\ Legal(s.found, current) /\ Last(s.found) = target
  /\ \A j \in 1..(Len(s.found) - 1) : s.found[j] \notin avoid
  /\ target \in Within(current, avoid)[Len(s.found)]
  /\ target \notin Within(current, avoid)[Len(s.found) - 1]

(* Everything next to n is accounted for.                                  *)
Expanded(n, seen, target, avoid) ==
  \A t \in Statuses : can_transition(n, t) => t # target /\ t \in seen \cup avoid

SeenIsPassable(s, current, target, avoid) ==
  /\ current \in s.seen /\ target \notin s.seen
  /\ \A n \in s.seen : Passable(n, current, avoid)

RoutesAreLegal(s, k, current, avoid) ==
  \A i \in 1..Len(s.queue) :
    /\ Legal(s.queue[i], current) /\ Len(s.queue[i]) <= k
    /\ \A j \in 1..Len(s.queue[i]) : s.queue[i][j] \notin avoid
    /\ End(s.queue[i], current) \in s.seen
    /\ End(s.queue[i], current) \in Within(current, avoid)[Len(s.queue[i])]

ShorterFirst(s) ==
  \A i, j \in 1..Len(s.queue) :
    /\ i <= j => Len(s.queue[i]) <= Len(s.queue[j])
    /\ Len(s.queue[j]) <= Len(s.queue[1]) + 1

SeenIsHandled(s, current, target, avoid) ==
  \A n \in s.seen : \/ Expanded(n, s.seen, target, avoid)
                    \/ \E i \in 1..Len(s.queue) : End(s.queue[i], current) = n

(* What the first route's length can reach is seen, and visited unless a   *)
(* route of that length is still to be visited.                            *)
LevelIsSeen(s, current, target, avoid) ==
  s.queue # <<>> =>
    \A n \in Within(current, avoid)[Len(s.queue[1])] :
      /\ n # target
      /\ \/ n \in avoid /\ n # current
         \/ /\ n \in s.seen
            /\ \/ Expanded(n, s.seen, target, avoid)
               \/ \E i \in 1..Len(s.queue) :
                    End(s.queue[i], current) = n /\ Len(s.queue[i]) = Len(s.queue[1])

OneVisitEach(s, k) == s.queue # <<>> => k + Len(s.queue) = Cardinality(s.seen)

Searching(s, k, current, target, avoid) ==
  /\ s \in SearchStates
  /\ SeenIsPassable(s, current, target, avoid)
  /\ RoutesAreLegal(s, k, current, avoid)
  /\ ShorterFirst(s)
  /\ SeenIsHandled(s, current, target, avoid)
  /\ LevelIsSeen(s, current, target, avoid)
  /\ OneVisitEach(s, k)

(* A legal route stays legal when a next status is appended.               *)
LEMMA LegalAppend ==
  ASSUME NEW route \in Seq(Statuses), NEW current \in Statuses, NEW n \in Statuses,
         Legal(route, current), can_transition(End(route, current), n)
  PROVE  Legal(Append(route, n), current)
<1>1. /\ Len(route) \in Nat /\ Len(Append(route, n)) = Len(route) + 1
      /\ \A i \in 1..Len(route) : Append(route, n)[i] = route[i]
      /\ Append(route, n)[Len(route) + 1] = n
  BY AppendProperties, LenProperties
<1>2. route = <<>> <=> Len(route) = 0
  BY EmptySeq
<1>. SUFFICES ASSUME NEW i \in 1..(Len(route) + 1)
              PROVE  can_transition(IF i = 1 THEN current ELSE Append(route, n)[i-1],
                                    Append(route, n)[i])
  BY <1>1 DEF Legal
<1>3. CASE i \in 1..Len(route)
  <2>1. i = 1 \/ i - 1 \in 1..Len(route)
    BY <1>1, <1>3
  <2>. QED
    BY <1>1, <1>3, <2>1 DEF Legal
<1>4. CASE i = Len(route) + 1
  <2>1. CASE route = <<>>
    <3>1. i = 1
      BY <1>2, <1>4, <2>1
    <3>. QED
      BY <1>1, <1>4, <2>1, <3>1 DEF End
  <2>2. CASE route # <<>>
    <3>1. i # 1 /\ i - 1 = Len(route) /\ Len(route) \in 1..Len(route)
      BY <1>1, <1>2, <1>4, <2>2
    <3>. QED
      BY <1>1, <1>4, <2>2, <3>1 DEF End, Last
  <2>. QED
    BY <2>1, <2>2
<1>. QED
  BY <1>1, <1>3, <1>4

(* A status next to the end of a queued route can be reached in one step   *)
(* more than that route has.                                               *)
LEMMA NextIsWithin ==
  ASSUME NEW current \in Statuses, NEW avoid, NEW d \in 0..16,
         NEW m \in Within(current, avoid)[d], Passable(m, current, avoid),
         NEW n \in Statuses, can_transition(m, n)
  PROVE  n \in Within(current, avoid)[d + 1]
<1>1. d + 1 \in 1..17 /\ (d + 1) - 1 = d
  OBVIOUS
<1>. QED
  BY <1>1, WithinDefined

(* The search starts from the current status with an empty route.          *)
LEMMA SearchStarts ==
  ASSUME NEW current \in Statuses, NEW target \in Statuses, current # target, NEW avoid
  PROVE  Searching([queue |-> << <<>> >>, seen |-> {current}, found |-> <<>>],
                   0, current, target, avoid)
<1>. DEFINE s == [queue |-> << <<>> >>, seen |-> {current}, found |-> <<>>]
<1>1. /\ <<>> \in Seq(Statuses) /\ Len(s.queue) = 1 /\ s.queue[1] = <<>>
      /\ s.seen = {current} /\ s.queue # <<>> /\ Len(<<>>) = 0
  OBVIOUS
<1>2. s \in SearchStates
  BY DEF SearchStates
<1>. HIDE DEF s
<1>3. \A i \in 1..Len(s.queue) : i = 1
  BY <1>1
<1>4. End(<<>>, current) = current
  BY DEF End
<1>5. Within(current, avoid)[0] = {current}
  BY WithinDefined
<1>6. SeenIsPassable(s, current, target, avoid)
  BY <1>1 DEF SeenIsPassable, Passable
<1>7. RoutesAreLegal(s, 0, current, avoid)
  BY <1>1, <1>3, <1>4, <1>5 DEF RoutesAreLegal, Legal
<1>8. ShorterFirst(s)
  BY <1>1, <1>3 DEF ShorterFirst
<1>9. SeenIsHandled(s, current, target, avoid)
  BY <1>1, <1>4 DEF SeenIsHandled
<1>10. LevelIsSeen(s, current, target, avoid)
  BY <1>1, <1>4, <1>5 DEF LevelIsSeen
<1>11. OneVisitEach(s, 0)
  BY <1>1, FS_Singleton DEF OneVisitEach
<1>. QED
  BY <1>2, <1>6, <1>7, <1>8, <1>9, <1>10, <1>11 DEF Searching, s

(* A visit that sees the target next to the first route finds a shortest   *)
(* route.                                                                  *)
LEMMA VisitFinds ==
  ASSUME NEW current \in Statuses, NEW target \in Statuses, current # target, NEW avoid,
         NEW k \in 1..17, NEW s, Searching(s, k - 1, current, target, avoid),
         s.queue # <<>>,
         target \in Successors(End(Head(s.queue), current), target, avoid, s.seen)
  PROVE  LET t == Visit(s, current, target, avoid)
         IN  /\ t \in SearchStates /\ t.found # <<>>
             /\ Finds(t, current, target, avoid)
<1>. DEFINE t     == Visit(s, current, target, avoid)
            route == Head(s.queue)
            node  == End(route, current)
            W     == Within(current, avoid)
            L     == Len(route)
<1>1. /\ s \in SearchStates /\ s.queue \in Seq(Seq(Statuses))
      /\ s.seen \subseteq Statuses /\ 1 \in 1..Len(s.queue) /\ route = s.queue[1]
      /\ route \in Seq(Statuses)
  <2>1. s \in SearchStates
    BY DEF Searching
  <2>2. s.queue \in Seq(Seq(Statuses)) /\ s.seen \subseteq Statuses
    BY <2>1 DEF SearchStates
  <2>. QED
    BY <2>1, <2>2, HeadTailProperties, EmptySeq
<1>2. /\ t.queue = <<>> /\ t.seen = s.seen /\ t.found = Append(route, target)
      /\ t = [queue |-> t.queue, seen |-> t.seen, found |-> t.found]
  BY DEF Visit
<1>. HIDE DEF t, route
<1>3. can_transition(node, target)
  BY DEF Successors, route
<1>4. /\ Legal(route, current) /\ L <= k - 1 /\ node \in s.seen /\ node \in W[L]
      /\ \A j \in 1..L : route[j] \notin avoid
  BY <1>1 DEF Searching, RoutesAreLegal
<1>5. L \in 0..16 /\ L + 1 \in 1..17 /\ (L + 1) - 1 = L
  <2>1. L \in Nat /\ L <= k - 1
    BY <1>1, <1>4, LenProperties
  <2>. HIDE DEF L
  <2>. QED
    BY <2>1
<1>6. Passable(node, current, avoid)
  BY <1>4 DEF Searching, SeenIsPassable
<1>7. target \in W[L + 1]
  BY <1>3, <1>4, <1>5, <1>6, NextIsWithin
<1>8. target \notin W[L]
  BY <1>1 DEF Searching, LevelIsSeen
<1>9. /\ t.found \in Seq(Statuses) /\ t.found # <<>> /\ Len(t.found) = L + 1
      /\ Last(t.found) = target
      /\ \A j \in 1..L : t.found[j] = route[j]
  BY <1>1, <1>2, EndOfRoute, AppendProperties
<1>10. Legal(t.found, current)
  BY <1>1, <1>2, <1>3, <1>4, LegalAppend
<1>11. t \in SearchStates
  <2>1. t.queue \in Seq(Seq(Statuses)) /\ t.seen \in SUBSET Statuses
    BY <1>1, <1>2
  <2>. QED
    BY <1>2, <1>9, <2>1 DEF SearchStates
<1>12. \A j \in 1..(Len(t.found) - 1) : t.found[j] \notin avoid
  BY <1>4, <1>5, <1>9
<1>13. Finds(t, current, target, avoid)
  BY <1>2, <1>5, <1>7, <1>8, <1>9, <1>10, <1>12 DEF Finds
<1>. QED
  BY <1>9, <1>11, <1>13 DEF t

(* Any other visit keeps the invariant.                                    *)
LEMMA VisitGoesOn ==
  ASSUME NEW current \in Statuses, NEW target \in Statuses, current # target, NEW avoid,
         NEW k \in 1..17, NEW s, Searching(s, k - 1, current, target, avoid),
         s.queue # <<>>,
         target \notin Successors(End(Head(s.queue), current), target, avoid, s.seen)
  PROVE  LET t == Visit(s, current, target, avoid)
         IN  t.found = <<>> /\ Searching(t, k, current, target, avoid)
<1>. DEFINE t     == Visit(s, current, target, avoid)
            route == Head(s.queue)
            node  == End(route, current)
            next  == Successors(node, target, avoid, s.seen)
            rest  == Len(s.queue) - 1
            W     == Within(current, avoid)
            L     == Len(route)
<1>1. /\ s \in SearchStates /\ s.queue \in Seq(Seq(Statuses))
      /\ s.seen \subseteq Statuses /\ 1 \in 1..Len(s.queue) /\ route = s.queue[1]
      /\ route \in Seq(Statuses) /\ Len(s.queue) \in Nat
  <2>1. s \in SearchStates
    BY DEF Searching
  <2>2. s.queue \in Seq(Seq(Statuses)) /\ s.seen \subseteq Statuses
    BY <2>1 DEF SearchStates
  <2>. QED
    BY <2>1, <2>2, HeadTailProperties, EmptySeq, LenProperties
<1>2. /\ t \in SearchStates /\ t.seen = s.seen \cup next /\ t.found = <<>>
      /\ rest \in Nat /\ IsFiniteSet(next)
      /\ Len(t.queue) = rest + Cardinality(next)
      /\ \A i \in 1..rest : t.queue[i] = s.queue[i + 1]
      /\ \A i \in 1..Len(t.queue) : i \notin 1..rest =>
           \E n \in next : t.queue[i] = Append(route, n)
      /\ \A n \in next : \E i \in 1..Len(t.queue) : t.queue[i] = Append(route, n)
  <2>1. s \in SearchStates /\ target \notin next
    BY <1>1
  <2>2. Requeues(s, t, route, next)
    BY <2>1, VisitQueues, Zenon
  <2>. QED
    BY <2>2, Zenon DEF Requeues
<1>3. /\ next \subseteq Statuses /\ target \notin next
      /\ \A n \in next : can_transition(node, n) /\ n \notin s.seen /\ n \notin avoid
      /\ \A n \in Statuses : can_transition(node, n) => n \in s.seen \cup next \cup avoid
  BY DEF Successors
<1>. HIDE DEF t, route, next
<1>4. /\ Legal(route, current) /\ L <= k - 1 /\ node \in s.seen /\ node \in W[L]
      /\ \A j \in 1..L : route[j] \notin avoid
  BY <1>1 DEF Searching, RoutesAreLegal
<1>5. L \in 0..16 /\ L + 1 \in 1..17 /\ L + 1 <= k
  <2>1. L \in Nat /\ L <= k - 1
    BY <1>1, <1>4, LenProperties
  <2>. HIDE DEF L
  <2>. QED
    BY <2>1
<1>6. Passable(node, current, avoid)
  BY <1>4 DEF Searching, SeenIsPassable
<1>7. \A i \in 1..rest : i + 1 \in 1..Len(s.queue)
  BY <1>1
<1>8. \A i \in 1..Len(s.queue) : i = 1 \/ i - 1 \in 1..rest
  BY <1>1
<1>9. \A n \in next : /\ Append(route, n) \in Seq(Statuses)
                      /\ Len(Append(route, n)) = L + 1
                      /\ End(Append(route, n), current) = n
  BY <1>1, <1>3, EndOfRoute
<1>10. Len(t.queue) \in Nat /\ \A i \in 1..rest : i \in 1..Len(t.queue)
  <2>1. Cardinality(next) \in Nat
    BY <1>2, FS_CardinalityType
  <2>. QED
    BY <1>2, <2>1
<1>11. SeenIsPassable(t, current, target, avoid)
  BY <1>2, <1>3 DEF Searching, SeenIsPassable, Passable
<1>12. RoutesAreLegal(t, k, current, avoid)
  <2>. SUFFICES ASSUME NEW i \in 1..Len(t.queue)
                PROVE  /\ Legal(t.queue[i], current) /\ Len(t.queue[i]) <= k
                       /\ \A j \in 1..Len(t.queue[i]) : t.queue[i][j] \notin avoid
                       /\ End(t.queue[i], current) \in t.seen
                       /\ End(t.queue[i], current) \in W[Len(t.queue[i])]
    BY DEF RoutesAreLegal
  <2>1. CASE i \in 1..rest
    <3>. DEFINE r == s.queue[i + 1]
    <3>1. t.queue[i] = r /\ i + 1 \in 1..Len(s.queue)
      BY <1>2, <1>7, <2>1
    <3>2. /\ Legal(r, current) /\ Len(r) <= k - 1
          /\ \A j \in 1..Len(r) : r[j] \notin avoid
          /\ End(r, current) \in s.seen /\ End(r, current) \in W[Len(r)]
      BY <3>1 DEF Searching, RoutesAreLegal
    <3>3. Len(r) \in Nat
      BY <1>1, <3>1, ElementOfSeq, LenProperties
    <3>. HIDE DEF r
    <3>4. Len(r) <= k
      BY <3>2, <3>3
    <3>. QED
      BY <1>2, <3>1, <3>2, <3>4
  <2>2. CASE i \notin 1..rest
    <3>1. PICK n \in next : t.queue[i] = Append(route, n)
      BY <1>2, <2>2
    <3>2. n \in Statuses /\ can_transition(node, n) /\ n \notin avoid
      BY <1>3
    <3>3. Legal(Append(route, n), current)
      BY <1>1, <1>4, <3>2, LegalAppend
    <3>4. n \in W[L + 1]
      BY <1>4, <1>5, <1>6, <3>2, NextIsWithin
    <3>5. \A j \in 1..(L + 1) : Append(route, n)[j] \notin avoid
      <4>1. /\ \A j \in 1..L : Append(route, n)[j] = route[j]
            /\ Append(route, n)[L + 1] = n
        BY <1>1, <3>2, AppendProperties
      <4>2. \A j \in 1..(L + 1) : j \in 1..L \/ j = L + 1
        BY <1>5
      <4>. QED
        BY <1>4, <3>2, <4>1, <4>2
    <3>. QED
      BY <1>2, <1>5, <1>9, <3>1, <3>3, <3>4, <3>5
  <2>. QED
    BY <2>1, <2>2
<1>13. /\ \A i \in 1..Len(s.queue) : Len(s.queue[i]) \in Nat
       /\ \A i, j \in 1..Len(s.queue) : i <= j => Len(s.queue[i]) <= Len(s.queue[j])
       /\ \A j \in 1..Len(s.queue) : Len(s.queue[j]) \in L..(L + 1)
  <2>1. \A i \in 1..Len(s.queue) : Len(s.queue[i]) \in Nat
    BY <1>1, ElementOfSeq, LenProperties
  <2>2. \A i, j \in 1..Len(s.queue) :
          /\ i <= j => Len(s.queue[i]) <= Len(s.queue[j])
          /\ Len(s.queue[j]) <= L + 1
    BY <1>1 DEF Searching, ShorterFirst
  <2>3. \A j \in 1..Len(s.queue) : L <= Len(s.queue[j])
    BY <1>1, <2>2
  <2>. HIDE DEF L
  <2>. QED
    BY <1>5, <2>1, <2>2, <2>3
<1>14. /\ \A i \in 1..rest : Len(t.queue[i]) = Len(s.queue[i + 1])
       /\ \A i \in 1..Len(t.queue) : i \notin 1..rest => Len(t.queue[i]) = L + 1
       /\ \A i \in 1..Len(t.queue) : Len(t.queue[i]) \in L..(L + 1)
  <2>1. \A i \in 1..rest : Len(t.queue[i]) = Len(s.queue[i + 1])
    BY <1>2
  <2>2. \A i \in 1..Len(t.queue) : i \notin 1..rest => Len(t.queue[i]) = L + 1
    BY <1>2, <1>9
  <2>3. L + 1 \in L..(L + 1)
    BY <1>5
  <2>. HIDE DEF L
  <2>. QED
    BY <1>7, <1>13, <2>1, <2>2, <2>3
<1>15. ShorterFirst(t)
  <2>. SUFFICES ASSUME NEW i \in 1..Len(t.queue), NEW j \in 1..Len(t.queue)
                PROVE  /\ i <= j => Len(t.queue[i]) <= Len(t.queue[j])
                       /\ Len(t.queue[j]) <= Len(t.queue[1]) + 1
    BY DEF ShorterFirst
  <2>1. Len(t.queue[j]) <= Len(t.queue[1]) + 1
    <3>1. 1 \in 1..Len(t.queue)
      BY <1>10
    <3>2. Len(t.queue[1]) \in L..(L + 1) /\ Len(t.queue[j]) \in L..(L + 1)
      BY <1>14, <3>1
    <3>. HIDE DEF L
    <3>. QED
      BY <1>5, <3>2
  <2>2. ASSUME i <= j PROVE Len(t.queue[i]) <= Len(t.queue[j])
    <3>1. CASE j \in 1..rest
      <4>1. i \in 1..rest /\ i + 1 <= j + 1
        BY <1>2, <2>2, <3>1
      <4>. QED
        BY <1>7, <1>13, <1>14, <3>1, <4>1
    <3>2. CASE j \notin 1..rest
      <4>1. Len(t.queue[j]) = L + 1 /\ Len(t.queue[i]) \in L..(L + 1)
        BY <1>14, <3>2
      <4>. HIDE DEF L
      <4>. QED
        BY <1>5, <4>1
    <3>. QED
      BY <3>1, <3>2
  <2>. QED
    BY <2>1, <2>2
<1>16. \A n \in s.seen : /\ Expanded(n, s.seen, target, avoid)
                            => Expanded(n, t.seen, target, avoid)
                         /\ n = node => Expanded(n, t.seen, target, avoid)
  <2>1. ~can_transition(node, target)
    BY <1>3 DEF Searching, SeenIsPassable, next, Successors
  <2>. QED
    BY <1>2, <1>3, <2>1 DEF Expanded
<1>17. SeenIsHandled(t, current, target, avoid)
  <2>. SUFFICES ASSUME NEW n \in t.seen, ~Expanded(n, t.seen, target, avoid)
                PROVE  \E i \in 1..Len(t.queue) : End(t.queue[i], current) = n
    BY DEF SeenIsHandled
  <2>1. CASE n \in next
    BY <1>2, <1>9, <2>1
  <2>2. CASE n \in s.seen
    <3>1. PICK i \in 1..Len(s.queue) : End(s.queue[i], current) = n
      BY <1>16, <2>2 DEF Searching, SeenIsHandled
    <3>2. i # 1
      BY <1>1, <1>16, <2>2, <3>1
    <3>3. i - 1 \in 1..rest /\ (i - 1) + 1 = i
      BY <1>8, <3>2
    <3>. QED
      BY <1>2, <1>10, <3>1, <3>3
  <2>. QED
    BY <1>2, <2>1, <2>2
<1>18. LevelIsSeen(t, current, target, avoid)
  <2>. SUFFICES ASSUME t.queue # <<>>, NEW n \in W[Len(t.queue[1])]
                PROVE  /\ n # target
                       /\ \/ n \in avoid /\ n # current
                          \/ /\ n \in t.seen
                             /\ \/ Expanded(n, t.seen, target, avoid)
                                \/ \E i \in 1..Len(t.queue) :
                                     /\ End(t.queue[i], current) = n
                                     /\ Len(t.queue[i]) = Len(t.queue[1])
    BY DEF LevelIsSeen
  <2>1. 1 \in 1..Len(t.queue) /\ Len(t.queue[1]) \in L..(L + 1)
    <3>1. t.queue \in Seq(Seq(Statuses))
      BY <1>2 DEF SearchStates
    <3>2. 1 \in 1..Len(t.queue)
      BY <3>1, EmptySeq
    <3>. QED
      BY <1>14, <3>2
  <2>2. ASSUME NEW m \in W[L]
        PROVE  /\ m # target
               /\ \/ m \in avoid /\ m # current
                  \/ /\ m \in s.seen
                     /\ \/ Expanded(m, s.seen, target, avoid)
                        \/ \E i \in 1..Len(s.queue) :
                             End(s.queue[i], current) = m /\ Len(s.queue[i]) = L
    BY <1>1, <2>2 DEF Searching, LevelIsSeen
  <2>3. CASE Len(t.queue[1]) = L
    <3>. SUFFICES ASSUME n \in s.seen, ~Expanded(n, t.seen, target, avoid)
                  PROVE  \E i \in 1..Len(t.queue) : /\ End(t.queue[i], current) = n
                                                     /\ Len(t.queue[i]) = L
      BY <1>2, <2>2, <2>3
    <3>2. \A m \in s.seen : Passable(m, current, avoid)
      BY DEF Searching, SeenIsPassable
    <3>3. PICK i \in 1..Len(s.queue) : End(s.queue[i], current) = n /\ Len(s.queue[i]) = L
      BY <1>16, <2>2, <2>3, <3>2 DEF Passable
    <3>4. i # 1
      BY <1>1, <1>16, <3>3
    <3>5. i - 1 \in 1..rest /\ (i - 1) + 1 = i
      BY <1>8, <3>4
    <3>. QED
      BY <1>2, <1>10, <3>3, <3>5
  <2>4. CASE Len(t.queue[1]) = L + 1
    <3>1. \A i \in 1..Len(t.queue) : Len(t.queue[i]) = L + 1
      <4>1. \A i \in 1..Len(t.queue) : 1 <= i
        OBVIOUS
      <4>2. \A i \in 1..Len(t.queue) : L + 1 <= Len(t.queue[i])
        BY <1>15, <2>1, <2>4, <4>1 DEF ShorterFirst
      <4>. HIDE DEF L
      <4>. QED
        BY <1>5, <1>14, <4>2
    <3>2. \A i \in 2..Len(s.queue) : Len(s.queue[i]) # L
      <4>. SUFFICES ASSUME NEW i \in 2..Len(s.queue) PROVE Len(s.queue[i]) # L
        OBVIOUS
      <4>1. i - 1 \in 1..rest /\ (i - 1) + 1 = i
        BY <1>1
      <4>2. Len(s.queue[i]) = L + 1
        BY <1>10, <1>14, <3>1, <4>1
      <4>. QED
        BY <1>5, <4>2
    <3>3. ASSUME NEW m \in W[L], m \in avoid => m = current
          PROVE  m \in s.seen /\ Expanded(m, t.seen, target, avoid)
      <4>1. m \in s.seen
        BY <2>2, <3>3
      <4>2. CASE Expanded(m, s.seen, target, avoid)
        BY <1>16, <4>1, <4>2
      <4>3. CASE \E i \in 1..Len(s.queue) : End(s.queue[i], current) = m /\ Len(s.queue[i]) = L
        <5>1. PICK i \in 1..Len(s.queue) : End(s.queue[i], current) = m /\ Len(s.queue[i]) = L
          BY <4>3
        <5>2. i = 1
          BY <1>1, <3>2, <5>1
        <5>. QED
          BY <1>1, <1>16, <4>1, <5>1, <5>2
      <4>. QED
        BY <2>2, <3>3, <4>2, <4>3
    <3>4. n \in Statuses /\ (\/ n \in W[L]
                             \/ \E m \in W[L] : /\ Passable(m, current, avoid)
                                                /\ can_transition(m, n))
      <4>1. W[L + 1] = W[L] \cup {u \in Statuses : \E m \in W[L] :
                                   Passable(m, current, avoid) /\ can_transition(m, u)}
        <5>1. (L + 1) - 1 = L
          BY <1>5
        <5>2. \A d \in 1..17 :
                W[d] = W[d-1] \cup {u \in Statuses : \E m \in W[d-1] :
                                     Passable(m, current, avoid) /\ can_transition(m, u)}
          BY WithinDefined, Zenon
        <5>. HIDE DEF W, L
        <5>. QED
          BY <1>5, <5>1, <5>2
      <4>2. W[L] \subseteq Statuses
        <5>1. L \in 0..17
          BY <1>5
        <5>2. W \in [0..17 -> SUBSET Statuses]
          BY WithinDefined, Zenon
        <5>. HIDE DEF W, L
        <5>. QED
          BY <5>1, <5>2
      <4>. QED
        BY <2>4, <4>1, <4>2
    <3>5. n # target /\ (n \in t.seen \/ (n \in avoid /\ n # current))
      <4>1. CASE n \in W[L]
        BY <1>2, <2>2, <4>1
      <4>2. ASSUME NEW m \in W[L], Passable(m, current, avoid), can_transition(m, n)
            PROVE  n # target /\ (n \in t.seen \/ (n \in avoid /\ n # current))
        <5>1. Expanded(m, t.seen, target, avoid)
          BY <3>3, <4>2 DEF Passable
        <5>2. current \in t.seen
          BY <1>11 DEF SeenIsPassable
        <5>. QED
          BY <3>4, <4>2, <5>1, <5>2 DEF Expanded
      <4>. QED
        BY <3>4, <4>1, <4>2
    <3>6. ASSUME n \in t.seen, ~Expanded(n, t.seen, target, avoid)
          PROVE  \E i \in 1..Len(t.queue) : /\ End(t.queue[i], current) = n
                                            /\ Len(t.queue[i]) = Len(t.queue[1])
      <4>1. PICK i \in 1..Len(t.queue) : End(t.queue[i], current) = n
        BY <1>17, <3>6 DEF SeenIsHandled
      <4>. QED
        BY <2>4, <3>1, <4>1
    <3>. QED
      BY <3>5, <3>6
  <2>. QED
    <3>1. Len(t.queue[1]) = L \/ Len(t.queue[1]) = L + 1
      <4>. HIDE DEF L
      <4>. QED
        BY <1>5, <2>1
    <3>. QED
      BY <2>3, <2>4, <3>1
<1>19. OneVisitEach(t, k)
  <2>1. k - 1 + Len(s.queue) = Cardinality(s.seen)
    BY DEF Searching, OneVisitEach
  <2>2. IsFiniteSet(s.seen)
    BY <1>1, SortedLists
  <2>3. s.seen \cap next = {}
    BY <1>3
  <2>4. Cardinality(s.seen \cup next) = Cardinality(s.seen) + Cardinality(next)
    <3>1. Cardinality(s.seen \cup next)
            = Cardinality(s.seen) + Cardinality(next) - Cardinality(s.seen \cap next)
      BY <1>2, <2>2, FS_Union
    <3>2. Cardinality(s.seen \cap next) = 0
      BY <2>3, FS_EmptySet
    <3>3. Cardinality(s.seen) \in Nat /\ Cardinality(next) \in Nat
      BY <1>2, <2>2, FS_CardinalityType
    <3>. QED
      BY <3>1, <3>2, <3>3
  <2>5. Cardinality(next) \in Nat
    BY <1>2, FS_CardinalityType
  <2>. QED
    BY <1>1, <1>2, <2>1, <2>4, <2>5 DEF OneVisitEach
<1>. QED
  BY <1>2, <1>11, <1>12, <1>15, <1>17, <1>18, <1>19 DEF Searching, t

(* A visit leads from a state of the search to a state of the search.      *)
LEMMA VisitTyped ==
  ASSUME NEW s \in SearchStates, NEW current \in Statuses, NEW target \in Statuses,
         NEW avoid
  PROVE  Visit(s, current, target, avoid) \in SearchStates
<1>. DEFINE t     == Visit(s, current, target, avoid)
            route == Head(s.queue)
            next  == Successors(End(route, current), target, avoid, s.seen)
<1>1. CASE s.queue = <<>>
  BY <1>1 DEF Visit
<1>2. CASE s.queue # <<>> /\ target \notin next
  <2>1. Requeues(s, t, route, next)
    BY <1>2, VisitQueues, Zenon
  <2>. QED
    BY <2>1, Zenon DEF Requeues
<1>3. CASE s.queue # <<>> /\ target \in next
  <2>1. t = [queue |-> <<>>, seen |-> s.seen, found |-> Append(route, target)]
    BY <1>3 DEF Visit
  <2>2. s.queue \in Seq(Seq(Statuses)) /\ s.seen \in SUBSET Statuses
    BY DEF SearchStates
  <2>3. route \in Seq(Statuses)
    BY <1>3, <2>2, HeadTailProperties
  <2>4. Append(route, target) \in Seq(Statuses) /\ <<>> \in Seq(Seq(Statuses))
    BY <2>3, AppendProperties
  <2>. HIDE DEF t, route
  <2>. QED
    BY <2>1, <2>2, <2>4 DEF SearchStates, t
<1>. QED
  BY <1>1, <1>2, <1>3, Zenon

(* Search is the function its recursion describes.                         *)
LEMMA SearchDefined ==
  ASSUME NEW current \in Statuses, NEW target \in Statuses, NEW avoid
  PROVE  LET visits == Search(current, target, avoid)
         IN  /\ visits[0] = [queue |-> << <<>> >>, seen |-> {current}, found |-> <<>>]
             /\ \A k \in 1..17 : /\ visits[k-1] \in SearchStates
                                 /\ visits[k] = Visit(visits[k-1], current, target, avoid)
             /\ visits[17] \in SearchStates
<1>. DEFINE X == SearchStates
            x0 == [queue |-> << <<>> >>, seen |-> {current}, found |-> <<>>]
            next(s) == Visit(s, current, target, avoid)
            step == [p \in Nat \X X |-> next(p[2])]
            Is(f) == f = [k \in 0..17 |-> IF k = 0 THEN x0 ELSE next(f[k-1])]
<1>1. \A s \in X : next(s) \in X
  BY VisitTyped, Zenon
<1>2. x0 \in X
  BY DEF SearchStates
<1>. HIDE DEF X, next, x0
<1>3. step \in [Nat \X X -> X]
  BY <1>1
<1>4. \A k \in 1..17, s \in X : step[<<k, s>>] = next(s)
  OBVIOUS
<1>5. PICK f \in [0..17 -> X] : Recurses(f, x0, step, 17)
  <2>1. 17 \in Nat
    OBVIOUS
  <2>. HIDE DEF step
  <2>. QED
    BY <1>2, <1>3, <2>1, Recursion, Zenon
<1>6. Is(f)
  <2>. HIDE DEF step
  <2>1. \A k \in 0..17 : f[k] = IF k = 0 THEN x0 ELSE step[<<k, f[k-1]>>]
    BY <1>5, Zenon DEF Recurses
  <2>2. ASSUME NEW k \in 0..17, k # 0 PROVE step[<<k, f[k-1]>>] = next(f[k-1])
    <3>1. k \in 1..17 /\ k - 1 \in 0..17
      BY <2>2
    <3>. QED
      BY <1>4, <3>1
  <2>. QED
    BY <2>1, <2>2
<1>7. Is(Search(current, target, avoid))
  <2>1. Search(current, target, avoid) = CHOOSE g : Is(g)
    <3>1. Len(ByName) = 17
      BY NamesAreStatuses
    <3>. QED
      BY <3>1, Zenon DEF Search, next, x0
  <2>. HIDE DEF Is
  <2>. QED
    BY <1>6, <2>1
<1>. DEFINE g == Search(current, target, avoid)
            S == {k \in 0..17 : g[k] \in X}
<1>8. g[0] = x0
  BY <1>7
<1>9. ASSUME NEW k \in 1..17 PROVE g[k] = next(g[k-1])
  <2>1. k \in 0..17 /\ k # 0
    OBVIOUS
  <2>. HIDE DEF g
  <2>. QED
    BY <1>7, <2>1 DEF g
<1>10. 0..17 \subseteq S
  <2>. HIDE DEF g
  <2>1. 0 \in S
    BY <1>2, <1>8
  <2>2. ASSUME NEW k \in 1..17, k - 1 \in S PROVE k \in S
    BY <1>1, <1>9, <2>2
  <2>. HIDE DEF S
  <2>. QED
    BY <2>1, <2>2, IntervalInduction
<1>. QED
  <2>1. \A k \in 0..17 : g[k] \in X
    BY <1>10
  <2>2. 17 \in 0..17 /\ \A k \in 1..17 : k - 1 \in 0..17
    OBVIOUS
  <2>. HIDE DEF g
  <2>. QED
    BY <1>8, <1>9, <2>1, <2>2 DEF X, next, x0, g

(* After every visit the search has found a shortest route or its          *)
(* invariant holds.                                                        *)
LEMMA SearchInvariant ==
  ASSUME NEW current \in Statuses, NEW target \in Statuses, current # target, NEW avoid
  PROVE  LET s == Search(current, target, avoid)[17]
         IN  IF s.found = <<>> THEN Searching(s, 17, current, target, avoid)
             ELSE Finds(s, current, target, avoid)
<1>. DEFINE v == Search(current, target, avoid)
            Good(s, k) == IF s.found = <<>> THEN Searching(s, k, current, target, avoid)
                          ELSE Finds(s, current, target, avoid)
            S == {k \in 0..17 : Good(v[k], k)}
<1>1. /\ v[0] = [queue |-> << <<>> >>, seen |-> {current}, found |-> <<>>]
      /\ \A k \in 1..17 : v[k] = Visit(v[k-1], current, target, avoid)
  BY SearchDefined, Zenon
<1>. HIDE DEF v
<1>2. 0 \in S
  <2>1. v[0].found = <<>> /\ 0 \in 0..17
    BY <1>1
  <2>. QED
    BY <1>1, <2>1, SearchStarts
<1>3. ASSUME NEW k \in 1..17, k - 1 \in S PROVE k \in S
  <2>. DEFINE s == v[k-1]
              t == v[k]
  <2>1. t = Visit(s, current, target, avoid) /\ Good(s, k-1)
    BY <1>1, <1>3
  <2>. HIDE DEF s, t
  <2>2. CASE s.queue = <<>>
    <3>1. t = s
      BY <2>1, <2>2 DEF Visit
    <3>2. ASSUME Searching(s, k-1, current, target, avoid)
          PROVE  Searching(s, k, current, target, avoid)
      <4>1. RoutesAreLegal(s, k, current, avoid) /\ OneVisitEach(s, k)
        BY <2>2 DEF RoutesAreLegal, OneVisitEach
      <4>. QED
        BY <3>2, <4>1 DEF Searching
    <3>3. Good(t, k)
      BY <2>1, <3>1, <3>2
    <3>. QED
      BY <3>3 DEF t
  <2>3. CASE s.queue # <<>>
    <3>1. Searching(s, k-1, current, target, avoid)
      BY <2>1, <2>3 DEF Finds
    <3>2. CASE target \in Successors(End(Head(s.queue), current), target, avoid, s.seen)
      <4>1. t.found # <<>> /\ Finds(t, current, target, avoid)
        BY <2>1, <2>3, <3>1, <3>2, VisitFinds, Zenon
      <4>. QED
        BY <4>1 DEF t
    <3>3. CASE target \notin Successors(End(Head(s.queue), current), target, avoid, s.seen)
      <4>1. t.found = <<>> /\ Searching(t, k, current, target, avoid)
        BY <2>1, <2>3, <3>1, <3>3, VisitGoesOn, Zenon
      <4>. QED
        BY <4>1 DEF t
    <3>. QED
      BY <3>2, <3>3
  <2>. QED
    BY <2>2, <2>3
<1>4. 17 \in S
  <2>1. 17 \in 0..17
    OBVIOUS
  <2>. HIDE DEF S
  <2>2. 0..17 \subseteq S
    BY <1>2, <1>3, IntervalInduction
  <2>. QED
    BY <2>1, <2>2
<1>. QED
  BY <1>4 DEF v

(* A search that found nothing has visited every status there is a way to. *)
LEMMA NothingMissed ==
  ASSUME NEW current \in Statuses, NEW target \in Statuses, current # target, NEW avoid,
         NEW s, Searching(s, 17, current, target, avoid)
  PROVE  target \notin Within(current, avoid)[17]
<1>. DEFINE W == Within(current, avoid)
            C == {n \in Statuses : n # target /\ (n \in s.seen \/ (n \in avoid /\ n # current))}
            S == {d \in 0..17 : W[d] \subseteq C}
<1>1. /\ s \in SearchStates /\ s.queue \in Seq(Seq(Statuses)) /\ s.seen \subseteq Statuses
      /\ current \in s.seen
  BY DEF Searching, SearchStates, SeenIsPassable
<1>2. s.queue = <<>>
  <2>1. Cardinality(s.seen) <= 17
    BY <1>1, SortedLists
  <2>2. s.queue # <<>> => Len(s.queue) \in Nat \ {0}
    BY <1>1, EmptySeq
  <2>3. s.queue # <<>> => 17 + Len(s.queue) = Cardinality(s.seen)
    BY DEF Searching, OneVisitEach
  <2>. QED
    BY <2>1, <2>2, <2>3
<1>3. \A n \in s.seen : Expanded(n, s.seen, target, avoid)
  BY <1>2 DEF Searching, SeenIsHandled
<1>4. target \notin s.seen
  BY DEF Searching, SeenIsPassable
<1>5. /\ W[0] = {current}
      /\ \A d \in 1..17 :
           W[d] = W[d-1] \cup {t \in Statuses : \E n \in W[d-1] :
                               Passable(n, current, avoid) /\ can_transition(n, t)}
  BY WithinDefined, Zenon
<1>. HIDE DEF W
<1>6. 0 \in S
  BY <1>1, <1>4, <1>5
<1>7. ASSUME NEW d \in 1..17, d - 1 \in S PROVE d \in S
  <2>1. d \in 0..17 /\ W[d-1] \subseteq C
    BY <1>7
  <2>2. ASSUME NEW t \in Statuses, NEW n \in W[d-1], Passable(n, current, avoid),
               can_transition(n, t)
        PROVE  t \in C
    <3>1. n \in s.seen
      BY <2>1, <2>2 DEF Passable
    <3>. QED
      BY <1>1, <1>3, <2>2, <3>1 DEF Expanded
  <2>3. W[d] \subseteq C
    BY <1>5, <2>1, <2>2
  <2>. QED
    BY <2>1, <2>3
<1>8. 17 \in S
  <2>1. 17 \in 0..17
    OBVIOUS
  <2>. HIDE DEF S
  <2>2. 0..17 \subseteq S
    BY <1>6, <1>7, IntervalInduction
  <2>. QED
    BY <2>1, <2>2
<1>. QED
  BY <1>8 DEF W

(* path_to answers with a shortest legal route that passes through nothing *)
(* it is to avoid, and with none exactly when there is none                *)
(* (state_machine.py 100-135).                                             *)
THEOREM PathIsShortest ==
  ASSUME NEW current \in Statuses, NEW target \in Statuses, NEW avoid
  PROVE  /\ path_to(current, target, avoid) \in Seq(Statuses)
         /\ Len(path_to(current, target, avoid)) <= 17
         /\ IsShortestRoute(path_to(current, target, avoid), current, target, avoid)
<1>1. CASE current = target
  BY <1>1 DEF path_to, IsShortestRoute
<1>2. CASE current # target
  <2>. DEFINE s == Search(current, target, avoid)[17]
              W == Within(current, avoid)
  <2>1. path_to(current, target, avoid) = s.found
    BY <1>2, NamesAreStatuses DEF path_to
  <2>2. s \in SearchStates
    BY SearchDefined, Zenon
  <2>3. IF s.found = <<>> THEN Searching(s, 17, current, target, avoid)
        ELSE Finds(s, current, target, avoid)
    BY <1>2, SearchInvariant, Zenon
  <2>. HIDE DEF s
  <2>4. s.found \in Seq(Statuses)
    BY <2>2 DEF SearchStates
  <2>5. CASE s.found = <<>>
    <3>1. target \notin W[17]
      BY <1>2, <2>3, <2>5, NothingMissed, Zenon
    <3>. QED
      BY <2>1, <2>4, <2>5, <3>1, NamesAreStatuses DEF IsShortestRoute
  <2>6. CASE s.found # <<>>
    <3>1. /\ Len(s.found) \in 1..17 /\ Last(s.found) = target
          /\ Legal(s.found, current)
          /\ \A j \in 1..(Len(s.found) - 1) : s.found[j] \notin avoid
          /\ target \in W[Len(s.found)] /\ target \notin W[Len(s.found) - 1]
      BY <2>3, <2>6, Zenon DEF Finds
    <3>2. target \in W[17]
      <4>1. Len(s.found) \in 0..17
        BY <3>1
      <4>2. 17 \in 0..17
        OBVIOUS
      <4>. QED
        BY <3>1, <4>1, <4>2, WithinGrows
    <3>3. \A i \in 1..Len(s.found) :
            i < Len(s.found) => s.found[i] \notin avoid
      BY <3>1
    <3>4. IsShortestRoute(s.found, current, target, avoid)
      BY <1>2, <2>6, <3>1, <3>2, <3>3, NamesAreStatuses DEF IsShortestRoute, Legal
    <3>5. Len(s.found) <= 17
      <4>1. Len(s.found) \in 1..17
        BY <3>1, Zenon
      <4>2. \A n \in 1..17 : n <= 17
        OBVIOUS
      <4>. QED
        BY <4>1, <4>2, Zenon
    <3>. QED
      BY <2>1, <2>4, <3>4, <3>5
  <2>. QED
    BY <2>5, <2>6
<1>. QED
  BY <1>1, <1>2

(* Every open status has a route to ESCALATED that claims nothing false:   *)
(* all but VERIFYING go there directly, and VERIFYING by way of            *)
(* REMEDIATION_FAILED, which is never avoided (main.py 571-593).           *)
THEOREM OpenCanEscalate ==
  ASSUME NEW current \in Statuses \ TERMINAL_STATES, NEW avoid,
         "REMEDIATION_FAILED" \notin avoid
  PROVE  path_to(current, "ESCALATED", avoid) # <<>>
<1>. DEFINE W == Within(current, avoid)
            goal == "ESCALATED"
            way == "REMEDIATION_FAILED"
<1>1. current \in Statuses /\ current # goal /\ goal \in Statuses /\ way \in Statuses
  BY DEF Statuses, TERMINAL_STATES
<1>2. \/ can_transition(current, goal)
      \/ can_transition(current, way) /\ can_transition(way, goal)
  BY DEF can_transition, LEGAL_TRANSITIONS, Statuses, TERMINAL_STATES
<1>3. current \in W[0] /\ Passable(current, current, avoid) /\ Passable(way, current, avoid)
  BY <1>1, WithinDefined DEF Passable
<1>4. ASSUME NEW d \in 0..16, NEW m \in W[d], Passable(m, current, avoid),
             NEW n \in Statuses, can_transition(m, n)
      PROVE  n \in W[d + 1]
  BY <1>1, <1>4, NextIsWithin, Zenon
<1>. HIDE DEF W, goal, way
<1>5. 0 \in 0..16 /\ 0 + 1 = 1 /\ 1 \in 0..16 /\ 1 + 1 = 2 /\ 1 \in 0..17 /\ 2 \in 0..17
  OBVIOUS
<1>6. \E k \in 0..17 : goal \in W[k]
  <2>1. CASE can_transition(current, goal)
    <3>1. goal \in W[0 + 1]
      BY <1>1, <1>3, <1>4, <1>5, <2>1
    <3>. QED
      BY <1>5, <3>1
  <2>2. CASE can_transition(current, way) /\ can_transition(way, goal)
    <3>1. way \in W[0 + 1]
      BY <1>1, <1>3, <1>4, <1>5, <2>2
    <3>2. goal \in W[1 + 1]
      BY <1>1, <1>3, <1>4, <1>5, <2>2, <3>1
    <3>. QED
      BY <1>5, <3>2
  <2>. QED
    BY <1>2, <2>1, <2>2
<1>7. goal \in W[17]
  <2>1. 17 \in 0..17
    OBVIOUS
  <2>. QED
    BY <1>1, <1>6, <2>1, WithinGrows DEF W
<1>8. IsShortestRoute(path_to(current, goal, avoid), current, goal, avoid)
  BY <1>1, PathIsShortest
<1>9. path_to(current, goal, avoid) # <<>>
  BY <1>1, <1>7, <1>8, NamesAreStatuses DEF IsShortestRoute, W
<1>. QED
  BY <1>9 DEF goal

===============================================================================
