----------------------------- MODULE HealthProofs -----------------------------
(***************************************************************************)
(* For any JSON values and any bound on their depth, the reader of health  *)
(* bodies and the reading by levels agree.  The reader's recursion goes    *)
(* down into a value; the reading collects its levels from the top.  Both  *)
(* are unfolded one level at a time, by induction on the levels left.      *)
(***************************************************************************)
EXTENDS HealthBody, PathProofs

Most == MAX_HEALTH_DEPTH + 1

(* An unkeyed value, or a pair of an object.                               *)
Nodes ==
  {Unkeyed(value) : value \in JsonValues}
  \cup UNION {{value.v[i] : i \in DOMAIN value.v} :
               value \in {object \in JsonValues : object.t = "obj"}}

(* The depth bound is a number.                                            *)
LEMMA MostIsNat == Most \in Nat \ {0}
BY HealthAssumption DEF Most

(* An unkeyed value has no health key.                                     *)
LEMMA UnkeyedParts ==
  ASSUME NEW value
  PROVE  /\ Unkeyed(value)[2] = value
         /\ Unkeyed(value)[1] \notin HealthKeys
BY DEF Unkeyed, HealthKeys

(* An object is a sequence of pairs of a key and a JSON value.             *)
LEMMA PairsAreKeyed ==
  ASSUME NEW object \in JsonValues, object.t = "obj"
  PROVE  /\ object.v \in Seq(STRING \X JsonValues)
         /\ \A i \in DOMAIN object.v : object.v[i] \in STRING \X JsonValues
<1>1. object.v \in Seq(STRING \X JsonValues)
  BY HealthAssumption
<1>2. DOMAIN object.v = 1..Len(object.v)
  BY <1>1, LenProperties
<1>. QED
  BY <1>1, <1>2, ElementOfSeq

(* What a node holds is a JSON value, and so is all below it.              *)
LEMMA NodesAreClosed ==
  /\ \A value \in JsonValues : Unkeyed(value) \in Nodes
  /\ \A node \in Nodes : node[2] \in JsonValues
  /\ \A node \in Nodes : Below(node) \subseteq Nodes
<1>1. \A value \in JsonValues : Unkeyed(value) \in Nodes
  BY DEF Nodes
<1>2. ASSUME NEW object \in JsonValues, object.t = "obj", NEW i \in DOMAIN object.v
      PROVE  object.v[i] \in Nodes /\ object.v[i][2] \in JsonValues
  <2>1. object.v[i] \in Nodes
    BY <1>2 DEF Nodes
  <2>2. object.v[i] \in STRING \X JsonValues
    BY <1>2, PairsAreKeyed
  <2>. QED
    BY <2>1, <2>2
<1>3. ASSUME NEW list \in JsonValues, list.t = "list", NEW i \in DOMAIN list.v
      PROVE  list.v[i] \in JsonValues
  <2>1. list.v \in Seq(JsonValues)
    BY <1>3, HealthAssumption
  <2>. QED
    BY <2>1, <1>3, ElementOfSeq
<1>4. ASSUME NEW node \in Nodes PROVE node[2] \in JsonValues
  <2>1. CASE \E value \in JsonValues : node = Unkeyed(value)
    BY <2>1, UnkeyedParts
  <2>2. CASE \E object \in JsonValues : /\ object.t = "obj"
                                        /\ \E i \in DOMAIN object.v : node = object.v[i]
    BY <2>2, <1>2
  <2>. QED
    BY <2>1, <2>2 DEF Nodes
<1>5. ASSUME NEW node \in Nodes, NEW below \in Below(node) PROVE below \in Nodes
  <2>. DEFINE value == node[2]
  <2>1. value \in JsonValues
    BY <1>4
  <2>. HIDE DEF value
  <2>2. CASE value.t = "obj"
    <3>1. PICK i \in ReadPairs(value.v) : below = value.v[i]
      BY <2>2, <1>5 DEF Below, value
    <3>2. i \in DOMAIN value.v
      BY <3>1 DEF ReadPairs, KeptPairs
    <3>. QED
      BY <2>1, <2>2, <3>1, <3>2, <1>2
  <2>3. CASE value.t = "list"
    <3>1. PICK i \in DOMAIN value.v : below = Unkeyed(value.v[i])
      BY <2>3, <1>5 DEF Below, value
    <3>. QED
      BY <2>1, <2>3, <3>1, <1>3, <1>1
  <2>4. CASE value.t \in {"bool", "str", "num", "null"}
    BY <2>4, <1>5 DEF Below, value
  <2>. QED
    BY <2>1, <2>2, <2>3, <2>4, HealthAssumption
<1>. QED
  BY <1>1, <1>4, <1>5

(* What lies below a node depends on its value only.                       *)
LEMMA BelowOfValue ==
  ASSUME NEW node
  PROVE  Below(node) = Below(Unkeyed(node[2]))
<1>. DEFINE OfValue(value) ==
              CASE value.t = "obj"  -> {value.v[i] : i \in ReadPairs(value.v)}
                [] value.t = "list" -> {Unkeyed(value.v[i]) : i \in DOMAIN value.v}
                [] value.t \in {"bool", "str", "num", "null"} -> {}
<1>1. Below(node) = OfValue(node[2])
  BY DEF Below
<1>2. Below(Unkeyed(node[2])) = OfValue(Unkeyed(node[2])[2])
  BY DEF Below
<1>3. Unkeyed(node[2])[2] = node[2]
  BY UnkeyedParts
<1>. HIDE DEF OfValue
<1>. QED
  BY <1>1, <1>2, <1>3

-----------------------------------------------------------------------------
(* Levels.                                                                 *)

(* Each level is what lies right below the level before.                   *)
LEMMA LevelsDefined ==
  ASSUME NEW node \in Nodes
  PROVE  /\ LevelsFrom(node) \in [0..Most -> SUBSET Nodes]
         /\ LevelsFrom(node)[0] = {node}
         /\ \A n \in 1..Most :
              LevelsFrom(node)[n] = UNION {Below(above) : above \in LevelsFrom(node)[n-1]}
<1>. DEFINE X == SUBSET Nodes
            next(above) == UNION {Below(a) : a \in above}
            step == [p \in Nat \X X |-> next(p[2])]
            Is(f) == f = [n \in 0..Most |-> IF n = 0 THEN {node}
                                            ELSE UNION {Below(a) : a \in f[n-1]}]
            level == CHOOSE f : Is(f)
<1>1. \A above \in X : next(above) \in X
  BY NodesAreClosed
<1>2. step \in [Nat \X X -> X]
  <2>. HIDE DEF next, X
  <2>. QED
    BY <1>1
<1>3. {node} \in X
  OBVIOUS
<1>4. PICK f \in [0..Most -> X] : Recurses(f, {node}, step, Most)
  <2>. HIDE DEF step, X
  <2>. QED
    BY <1>2, <1>3, Recursion, MostIsNat
<1>5. \A n \in 1..Most : step[<<n, f[n-1]>>] = next(f[n-1])
  <2>1. ASSUME NEW n \in 1..Most PROVE n \in Nat /\ f[n-1] \in X
    BY <1>4, MostIsNat
  <2>. HIDE DEF next, X
  <2>. QED
    BY <2>1
<1>6. Is(f)
  <2>1. f = [n \in 0..Most |-> IF n = 0 THEN {node} ELSE step[<<n, f[n-1]>>]]
    BY <1>4 DEF Recurses
  <2>2. \A n \in 0..Most : n # 0 => n \in 1..Most
    BY MostIsNat
  <2>3. \A n \in 0..Most : (IF n = 0 THEN {node} ELSE step[<<n, f[n-1]>>])
                           = IF n = 0 THEN {node} ELSE next(f[n-1])
    <3>. HIDE DEF step, next
    <3>. QED
      BY <2>2, <1>5
  <2>. HIDE DEF step
  <2>. QED
    BY <2>1, <2>3
<1>7. Is(level)
  <2>. HIDE DEF Is
  <2>. QED
    BY <1>6, Zenon
<1>8. LevelsFrom(node) = level
  BY DEF LevelsFrom, Most
<1>9. level[0] = {node} /\ \A n \in 1..Most : level[n] = next(level[n-1])
  <2>. HIDE DEF level
  <2>. QED
    BY <1>7, MostIsNat
<1>10. DOMAIN level = 0..Most
  <2>. HIDE DEF level
  <2>. QED
    BY <1>7
<1>11. \A n \in 0..Most : level[n] \in X
  <2>. DEFINE S == {n \in 0..Most : level[n] \in X}
  <2>1. 0 \in S
    <3>1. 0 \in 0..Most /\ level[0] \in X
      <4>. HIDE DEF level
      <4>. QED
        BY <1>3, <1>9, MostIsNat
    <3>. QED
      BY <3>1
  <2>2. \A n \in 1..Most : n - 1 \in S => n \in S
    <3>. HIDE DEF level, next, X
    <3>. QED
      BY <1>1, <1>9, MostIsNat
  <2>3. 0..Most \subseteq S
    <3>. HIDE DEF S
    <3>. QED
      BY <2>1, <2>2, IntervalInduction, MostIsNat
  <2>. QED
    BY <2>3
<1>12. level = [n \in 0..Most |-> level[n]]
  <2>. HIDE DEF level
  <2>. QED
    BY <1>7
<1>. HIDE DEF level
<1>. QED
  BY <1>8, <1>9, <1>11, <1>12

(* A level below a node is a level of what lies right below it.            *)
LEMMA LevelsOfContents ==
  ASSUME NEW node \in Nodes, NEW n \in 1..Most
  PROVE  LevelsFrom(node)[n] =
           UNION {LevelsFrom(below)[n-1] : below \in Below(node)}
<1>. DEFINE L(k) == UNION {LevelsFrom(below)[k-1] : below \in Below(node)}
            S == {k \in 0..Most : k \in 1..Most => LevelsFrom(node)[k] = L(k)}
<1>1. 0 \in S
  BY MostIsNat
<1>2. ASSUME NEW k \in 1..Most, k - 1 \in S PROVE k \in S
  <2>1. LevelsFrom(node)[k] = UNION {Below(above) : above \in LevelsFrom(node)[k-1]}
    BY LevelsDefined
  <2>2. \A below \in Below(node) : below \in Nodes
    BY NodesAreClosed
  <2>3. LevelsFrom(node)[k] = L(k)
    <3>1. CASE k = 1
      <4>1. LevelsFrom(node)[k-1] = {node}
        BY <3>1, LevelsDefined
      <4>2. \A below \in Below(node) : LevelsFrom(below)[k-1] = {below}
        BY <3>1, <2>2, LevelsDefined
      <4>3. LevelsFrom(node)[k] = Below(node)
        BY <4>1, <2>1
      <4>4. L(k) = Below(node)
        BY <4>2
      <4>. QED
        BY <4>3, <4>4
    <3>2. CASE k # 1
      <4>1. k - 1 \in 1..Most /\ k - 1 \in Nat
        BY <3>2, MostIsNat
      <4>2. LevelsFrom(node)[k-1] = L(k-1)
        BY <1>2, <4>1
      <4>3. \A below \in Below(node) :
              LevelsFrom(below)[k-1] =
                UNION {Below(above) : above \in LevelsFrom(below)[(k-1)-1]}
        BY <4>1, <2>2, LevelsDefined
      <4>4. UNION {Below(above) : above \in L(k-1)} = L(k)
        BY <4>3
      <4>. QED
        BY <2>1, <4>2, <4>4
    <3>. QED
      BY <3>1, <3>2
  <2>. HIDE DEF L
  <2>. QED
    BY <2>3, MostIsNat
<1>3. 0..Most \subseteq S
  <2>. HIDE DEF S
  <2>. QED
    BY <1>1, <1>2, IntervalInduction, MostIsNat
<1>. QED
  BY <1>3, MostIsNat

(* Below the first level, the key of a node makes no difference.           *)
LEMMA LevelsOfValue ==
  ASSUME NEW node \in Nodes, NEW n \in 1..Most
  PROVE  LevelsFrom(node)[n] = LevelsFrom(Unkeyed(node[2]))[n]
BY LevelsOfContents, BelowOfValue, NodesAreClosed

(* Below an empty level there is nothing.                                  *)
LEMMA NothingBelowNothing ==
  ASSUME NEW node \in Nodes, NEW n \in 0..Most, LevelsFrom(node)[n] = {}
  PROVE  \A k \in 0..Most : n <= k => LevelsFrom(node)[k] = {}
<1>. DEFINE S == {k \in 0..Most : n <= k => LevelsFrom(node)[k] = {}}
<1>1. 0 \in S
  BY MostIsNat
<1>2. ASSUME NEW k \in 1..Most, k - 1 \in S PROVE k \in S
  <2>1. n <= k - 1 \/ n = k \/ ~(n <= k)
    BY MostIsNat
  <2>2. LevelsFrom(node)[k] = UNION {Below(above) : above \in LevelsFrom(node)[k-1]}
    BY LevelsDefined
  <2>3. LevelsFrom(node)[k-1] = {} => LevelsFrom(node)[k] = {}
    BY <2>2
  <2>. QED
    BY <1>2, <2>1, <2>3, MostIsNat
<1>3. 0..Most \subseteq S
  <2>. HIDE DEF S
  <2>. QED
    BY <1>1, <1>2, IntervalInduction, MostIsNat
<1>. QED
  BY <1>3

(* The first levels of a node.                                             *)
Upto(node, n) == UNION {LevelsFrom(node)[k] : k \in 0..n}

(* They hold the node, and the first levels of what is right below it.     *)
LEMMA UptoUnfolds ==
  ASSUME NEW node \in Nodes, NEW n \in 1..Most
  PROVE  Upto(node, n) = {node} \cup UNION {Upto(below, n-1) : below \in Below(node)}
<1>1. Upto(node, n) = {node} \cup UNION {LevelsFrom(node)[k] : k \in 1..n}
  <2>1. LevelsFrom(node)[0] = {node}
    BY LevelsDefined
  <2>2. 0..n = {0} \cup 1..n
    BY MostIsNat
  <2>. QED
    BY <2>1, <2>2 DEF Upto
<1>2. \A k \in 1..n : LevelsFrom(node)[k] =
                        UNION {LevelsFrom(below)[k-1] : below \in Below(node)}
  BY LevelsOfContents, MostIsNat
<1>3. ASSUME NEW x
      PROVE  (\E k \in 1..n : x \in LevelsFrom(node)[k])
             <=> \E below \in Below(node) : x \in Upto(below, n-1)
  <2>1. ASSUME NEW k \in 1..n, x \in LevelsFrom(node)[k]
        PROVE  \E below \in Below(node) : x \in Upto(below, n-1)
    <3>1. PICK below \in Below(node) : x \in LevelsFrom(below)[k-1]
      BY <1>2, <2>1
    <3>2. k - 1 \in 0..(n-1)
      BY MostIsNat
    <3>. QED
      BY <3>1, <3>2 DEF Upto
  <2>2. ASSUME NEW below \in Below(node), x \in Upto(below, n-1)
        PROVE  \E k \in 1..n : x \in LevelsFrom(node)[k]
    <3>1. PICK k \in 0..(n-1) : x \in LevelsFrom(below)[k]
      BY <2>2 DEF Upto
    <3>2. k + 1 \in 1..n /\ (k + 1) - 1 = k
      BY MostIsNat
    <3>3. x \in LevelsFrom(node)[k+1]
      BY <1>2, <3>1, <3>2
    <3>. QED
      BY <3>2, <3>3
  <2>. QED
    BY <2>1, <2>2
<1>. QED
  BY <1>1, <1>3

(* A node beyond whose first levels there is nothing is all in them.       *)
LEMMA EverythingIsUpto ==
  ASSUME NEW node \in Nodes, NEW n \in 0..Most
  PROVE  /\ Everything(node) = Upto(node, Most)
         /\ LevelsFrom(node)[n] = {} => Everything(node) = Upto(node, n)
<1>1. DOMAIN LevelsFrom(node) = 0..Most
  BY LevelsDefined
<1>2. Everything(node) = Upto(node, Most)
  BY <1>1 DEF Everything, Upto
<1>3. ASSUME LevelsFrom(node)[n] = {} PROVE Upto(node, Most) = Upto(node, n)
  <2>1. \A k \in 0..Most : k \in 0..n \/ LevelsFrom(node)[k] = {}
    <3>1. \A k \in 0..Most : k \in 0..n \/ n <= k
      BY MostIsNat
    <3>. QED
      BY <3>1, <1>3, NothingBelowNothing
  <2>2. 0..n \subseteq 0..Most
    BY MostIsNat
  <2>. QED
    BY <2>1, <2>2 DEF Upto
<1>. QED
  BY <1>2, <1>3

(* The key of a node makes no difference to what lies below it.            *)
LEMMA UptoOfValue ==
  ASSUME NEW node \in Nodes, NEW n \in 0..Most
  PROVE  \E rest :
           /\ Upto(node, n) = {node} \cup rest
           /\ Upto(Unkeyed(node[2]), n) = {Unkeyed(node[2])} \cup rest
<1>. DEFINE bare == Unkeyed(node[2])
            rest == UNION {LevelsFrom(node)[k] : k \in 1..n}
<1>1. bare \in Nodes
  BY NodesAreClosed
<1>2. 0..n = {0} \cup 1..n /\ 1..n \subseteq 1..Most
  BY MostIsNat
<1>3. Upto(node, n) = {node} \cup rest
  BY <1>2, LevelsDefined DEF Upto
<1>4. \A k \in 1..n : LevelsFrom(bare)[k] = LevelsFrom(node)[k]
  BY <1>2, LevelsOfValue
<1>5. LevelsFrom(bare)[0] = {bare}
  <2>. HIDE DEF bare
  <2>. QED
    BY <1>1, LevelsDefined
<1>6. Upto(bare, n) = {bare} \cup rest
  <2>. HIDE DEF bare
  <2>. QED
    BY <1>2, <1>4, <1>5 DEF Upto
<1>. QED
  BY <1>3, <1>6


-----------------------------------------------------------------------------
(* Repeated keys.                                                          *)

(* Of some indices below a bound one is the last.                          *)
LEMMA LastNumber ==
  ASSUME NEW N \in Nat, NEW S, S \subseteq 1..N, S # {}
  PROVE  \E m \in S : \A k \in S : k <= m
<1>. DEFINE T == {N - k : k \in S}
<1>0. \A k \in S : k \in Nat /\ N - k \in Nat
  OBVIOUS
<1>1. T \subseteq Nat /\ T # {}
  BY <1>0
<1>2. PICK t \in T : \A u \in T : t <= u
  <2>. HIDE DEF T
  <2>. QED
    BY <1>1, LeastNumber
<1>3. PICK m \in S : t = N - m
  BY <1>2
<1>4. \A k \in S : N - m <= N - k
  BY <1>2, <1>3
<1>5. \A k \in S : k \in Nat /\ m \in Nat
  BY <1>0, <1>3
<1>. QED
  BY <1>4, <1>5

(* Comparing each pair with the one before it of its key finds every key   *)
(* that has two pairs that differ, whatever the values are compared by.    *)
LEMMA NeighboursTell ==
  ASSUME NEW pairs \in Seq(STRING \X JsonValues), NEW plain, NEW key
  PROVE  (\E i \in Disagreeing(pairs, plain) : pairs[i][1] = key) <=>
           \E i, j \in PairsOf(pairs, key) : ~SameAssertion(pairs, plain, i, j)
<1>. DEFINE Own == PairsOf(pairs, key)
            Same(i, j) == SameAssertion(pairs, plain, i, j)
<1>1. /\ \A i, j : Same(i, j) => Same(j, i)
      /\ \A i, j, k : Same(i, j) /\ Same(j, k) => Same(i, k)
      /\ \A i : Same(i, i)
  BY DEF SameAssertion
<1>2. PICK N \in Nat : DOMAIN pairs = 1..N
  BY LenProperties
<1>3. Own \subseteq 1..N
  BY <1>2 DEF PairsOf
<1>4. ASSUME NEW i \in Disagreeing(pairs, plain), pairs[i][1] = key
      PROVE  \E a, b \in Own : ~Same(a, b)
  <2>1. i \in Own
    BY <1>4 DEF Disagreeing, PairsOf
  <2>2. \E j \in PairsOf(pairs, pairs[i][1]) : ~SameAssertion(pairs, plain, j, i)
    BY <1>4 DEF Disagreeing
  <2>3. PICK j \in Own : ~Same(j, i)
    BY <2>2, <1>4
  <2>. QED
    BY <2>1, <2>3
<1>5. ASSUME NEW a \in Own, NEW b \in Own, ~Same(a, b)
      PROVE  \E i \in Disagreeing(pairs, plain) : pairs[i][1] = key
  <2>. DEFINE Later == {i \in Own : \E j \in Own : j < i /\ ~Same(j, i)}
  <2>1. Later # {}
    <3>1. a < b \/ b < a \/ a = b
      BY <1>3
    <3>. QED
      BY <3>1, <1>1, <1>5
  <2>2. Later \subseteq Nat
    BY <1>3
  <2>3. PICK i \in Later : \A k \in Later : i <= k
    <3>. HIDE DEF Later
    <3>. QED
      BY <2>1, <2>2, LeastNumber
  <2>4. PICK j \in Own : j < i /\ ~Same(j, i)
    BY <2>3
  <2>. DEFINE Before == {k \in Own : k < i}
  <2>5. PICK p \in Before : \A k \in Before : k <= p
    <3>1. Before \subseteq 1..N /\ Before # {}
      BY <1>3, <2>4
    <3>. HIDE DEF Before
    <3>. QED
      BY <3>1, LastNumber
  <2>6. i \in Nat /\ j \in Nat /\ p \in Nat /\ p < i /\ i \in Own /\ p \in Own
    BY <1>3, <2>2, <2>3, <2>4, <2>5
  <2>7. ~Same(p, i)
    <3>1. CASE p = j
      BY <3>1, <2>4
    <3>2. CASE p # j
      <4>1. j < p
        BY <3>2, <2>4, <2>5, <2>6
      <4>2. p \notin Later
        BY <2>3, <2>6
      <4>3. Same(j, p)
        BY <4>1, <4>2, <2>4, <2>6
      <4>. QED
        BY <4>3, <2>4, <1>1
    <3>. QED
      BY <3>1, <3>2
  <2>8. pairs[i][1] = key /\ i \in DOMAIN pairs
    BY <2>6 DEF PairsOf
  <2>9. i \in Disagreeing(pairs, plain)
    <3>1. \A k \in PairsOf(pairs, pairs[i][1]) : k < i => k <= p
      BY <2>5, <2>8
    <3>2. p \in PairsOf(pairs, pairs[i][1])
      BY <2>6, <2>8
    <3>3. p < i /\ ~SameAssertion(pairs, plain, p, i) /\ i \in DOMAIN pairs
      BY <2>6, <2>7, <2>8
    <3>. QED
      BY <3>1, <3>2, <3>3, Zenon DEF Disagreeing
  <2>. QED
    BY <2>8, <2>9
<1>. QED
  BY <1>4, <1>5

(* The parser lists the keys of the pairs that disagree.                   *)
LEMMA KeysListed ==
  ASSUME NEW pairs \in Seq(STRING \X JsonValues), NEW plain
  PROVE  LET list == ConflictNote(pairs, plain)
         IN  /\ list.t = "list"
             /\ \A n \in DOMAIN list.v : \E i \in Disagreeing(pairs, plain) :
                  list.v[n] = KeyText(pairs[i][1])
             /\ \A i \in Disagreeing(pairs, plain) : \E n \in DOMAIN list.v :
                  list.v[n] = KeyText(pairs[i][1])
<1>. DEFINE D == Disagreeing(pairs, plain)
            items == [i \in DOMAIN pairs |-> i]
            listed == Only(items, D)
            list == ConflictNote(pairs, plain)
<1>1. PICK N \in Nat : DOMAIN pairs = 1..N
  BY LenProperties
<1>2. items \in Seq(1..N) /\ DOMAIN items = 1..N
  BY <1>1, IsASeq
<1>3. D \subseteq 1..N
  BY <1>1 DEF Disagreeing
<1>4. list = [t |-> "list", v |-> [n \in DOMAIN listed |-> KeyText(pairs[listed[n]][1])]]
  BY DEF ConflictNote
<1>5. \A i \in 1..N : items[i] = i
  BY <1>1
<1>. HIDE DEF items, D
<1>6. \A n \in DOMAIN listed : listed[n] \in D
  <2>1. listed \in Seq((1..N) \cap D)
    BY <1>2, OnlyWanted
  <2>2. DOMAIN listed = 1..Len(listed)
    BY <2>1, LenProperties
  <2>3. \A n \in 1..Len(listed) : listed[n] \in (1..N) \cap D
    BY <2>1, ElementOfSeq
  <2>. QED
    BY <2>2, <2>3
<1>7. \A i \in D : \E n \in DOMAIN listed : listed[n] = i
  <2>1. ASSUME NEW i \in D PROVE \E n \in DOMAIN listed : listed[n] = i
    <3>1. i \in DOMAIN items /\ items[i] = i
      BY <1>2, <1>3, <1>5
    <3>2. \E n \in DOMAIN listed : listed[n] = items[i]
      BY <3>1, <1>2, OnlyKeeps
    <3>. QED
      BY <3>1, <3>2
  <2>. QED
    BY <2>1
<1>. HIDE DEF listed, list
<1>8. list.t = "list" /\ list.v = [n \in DOMAIN listed |-> KeyText(pairs[listed[n]][1])]
  BY <1>4
<1>9. /\ list.t = "list"
      /\ \A n \in DOMAIN list.v : \E i \in D : list.v[n] = KeyText(pairs[i][1])
      /\ \A i \in D : \E n \in DOMAIN list.v : list.v[n] = KeyText(pairs[i][1])
  BY <1>6, <1>7, <1>8
<1>. QED
  BY <1>9 DEF list, D

(* Two keys with one text are one key.                                     *)
LEMMA KeysDiffer ==
  ASSUME NEW left, NEW right, KeyText(left) = KeyText(right)
  PROVE  left = right
<1>1. KeyText(left).v = KeyText(right).v
  OBVIOUS
<1>2. <<left>>[1] = <<right>>[1]
  BY <1>1 DEF KeyText
<1>. QED
  BY <1>2

(* What an object holds under the parser's key denies health exactly when  *)
(* the object contradicts itself about its health.                         *)
LEMMA NotesDeny ==
  ASSUME NEW object \in JsonValues, object.t = "obj"
  PROVE  ContradictsItself(object.v) <=>
           \/ Declared(object.v).t # "list"
           \/ NamesHealthKey(Declared(object.v))
<1>. DEFINE pairs == object.v
            plain == PlainValues(pairs)
            D == Disagreeing(pairs, plain)
            list == ConflictNote(pairs, plain)
            own == KeptPairs(pairs) \cap PairsOf(pairs, ConflictKey)
            declared == Declared(pairs)
            denies == declared.t # "list" \/ NamesHealthKey(declared)
            Apart(i, j) == Contradict(pairs, i, j)
<1>1. pairs \in Seq(STRING \X JsonValues)
  BY PairsAreKeyed
<1>2. \A key : (\E i \in D : pairs[i][1] = key) <=>
                 \E i, j \in DOMAIN pairs : pairs[i][1] = key /\ Apart(i, j)
  <2>1. ASSUME NEW key
        PROVE  (\E i, j \in PairsOf(pairs, key) : ~SameAssertion(pairs, plain, i, j))
               <=> \E i, j \in DOMAIN pairs : pairs[i][1] = key /\ Apart(i, j)
    BY DEF PairsOf, Contradict
  <2>2. ASSUME NEW key
        PROVE  (\E i \in D : pairs[i][1] = key) <=>
                 \E i, j \in PairsOf(pairs, key) : ~SameAssertion(pairs, plain, i, j)
    <3>. HIDE DEF pairs, plain
    <3>. QED
      BY <1>1, NeighboursTell
  <2>. HIDE DEF D, Apart, pairs, plain
  <2>. QED
    BY <2>1, <2>2
<1>3. D # {} <=> \E i, j \in DOMAIN pairs : Apart(i, j)
  <2>1. \A i \in D : \E key : pairs[i][1] = key
    OBVIOUS
  <2>. HIDE DEF pairs, plain, D, Apart
  <2>. QED
    BY <1>2, <2>1
<1>4. declared = IF D # {} THEN list
                 ELSE IF own # {} THEN pairs[CHOOSE i \in own : TRUE][2]
                 ELSE [t |-> "list", v |-> <<>>]
  BY DEF Declared
<1>5. ContradictsItself(pairs) <=>
        \/ \E i, j \in DOMAIN pairs : pairs[i][1] \in HealthKeys /\ Apart(i, j)
        \/ /\ \A i, j \in DOMAIN pairs : ~Apart(i, j)
           /\ \E i \in own : pairs[i][2].t = "list" => NamesHealthKey(pairs[i][2])
  BY DEF ContradictsItself, PairsOf, KeptPairs
<1>6. (\E i \in D : pairs[i][1] \in HealthKeys) <=>
        \E i, j \in DOMAIN pairs : pairs[i][1] \in HealthKeys /\ Apart(i, j)
  <2>. HIDE DEF pairs, plain, D, Apart
  <2>. QED
    BY <1>2
<1>7. \A i, j \in own : i = j
  <2>1. own \subseteq Nat
    BY <1>1, LenProperties DEF KeptPairs
  <2>2. \A i, j \in own : i <= j
    BY DEF KeptPairs, PairsOf
  <2>. HIDE DEF own
  <2>. QED
    BY <2>1, <2>2
<1>8. /\ list.t = "list"
      /\ \A n \in DOMAIN list.v : \E i \in D : list.v[n] = KeyText(pairs[i][1])
      /\ \A i \in D : \E n \in DOMAIN list.v : list.v[n] = KeyText(pairs[i][1])
  <2>. HIDE DEF pairs, plain
  <2>. QED
    BY <1>1, KeysListed
<1>. HIDE DEF pairs, plain, D, list, own, declared, Apart
<1>. SUFFICES ContradictsItself(pairs) <=> denies
  BY DEF pairs, declared
<1>9. CASE D # {}
  <2>1. declared = list
    BY <1>4, <1>9
  <2>2. NamesHealthKey(list) <=> \E i \in D : pairs[i][1] \in HealthKeys
    <3>1. ASSUME NEW i \in D, pairs[i][1] \in HealthKeys PROVE NamesHealthKey(list)
      BY <3>1, <1>8 DEF NamesHealthKey
    <3>2. ASSUME NamesHealthKey(list) PROVE \E i \in D : pairs[i][1] \in HealthKeys
      <4>1. PICK n \in DOMAIN list.v, key \in HealthKeys : list.v[n] = KeyText(key)
        BY <3>2 DEF NamesHealthKey
      <4>2. PICK i \in D : list.v[n] = KeyText(pairs[i][1])
        BY <1>8
      <4>3. pairs[i][1] = key
        BY <4>1, <4>2, KeysDiffer
      <4>. QED
        BY <4>1, <4>3
    <3>. QED
      BY <3>1, <3>2
  <2>. QED
    BY <2>1, <2>2, <1>3, <1>5, <1>6, <1>8, <1>9
<1>10. CASE D = {} /\ own # {}
  <2>1. PICK i \in own : \A j \in own : j = i
    BY <1>7, <1>10
  <2>2. (CHOOSE j \in own : TRUE) = i
    BY <2>1
  <2>3. declared = pairs[i][2]
    BY <1>4, <1>10, <2>2
  <2>. QED
    BY <2>1, <2>3, <1>3, <1>5, <1>6, <1>10
<1>11. CASE D = {} /\ own = {}
  <2>1. declared = [t |-> "list", v |-> <<>>]
    BY <1>4, <1>11
  <2>2. declared.t = "list" /\ ~NamesHealthKey(declared)
    <3>1. declared.t = "list" /\ declared.v = <<>>
      BY <2>1
    <3>2. DOMAIN declared.v = {}
      BY <3>1
    <3>. QED
      BY <3>1, <3>2 DEF NamesHealthKey
  <2>. QED
    BY <2>2, <1>3, <1>5, <1>6, <1>11
<1>. QED
  BY <1>9, <1>10, <1>11


-----------------------------------------------------------------------------
(* Verdicts.                                                               *)

(* A text is a report of health or it is not.                              *)
LEMMA TextBoolean ==
  ASSUME NEW text
  PROVE  text_is_healthy(text) \in BOOLEAN
BY DEF text_is_healthy

(* An unkeyed value denies health by its text or by contradicting itself.  *)
LEMMA UnkeyedDenies ==
  ASSUME NEW value
  PROVE  Denies(Unkeyed(value)) <=>
           \/ value.t = "str" /\ value_reports_failure(value.v)
           \/ value.t = "obj" /\ ContradictsItself(value.v)
BY UnkeyedParts DEF Denies

(* What an unkeyed value says is its nested verdicts.                      *)
LEMMA UnkeyedVerdicts ==
  ASSUME NEW value, NEW nested
  PROVE  PairVerdicts(Unkeyed(value), nested) = nested
BY UnkeyedParts DEF PairVerdicts

(* A value that denies health says no; any other says what the nodes right *)
(* below it say.                                                           *)
LEMMA OwnVerdictsUnfold ==
  ASSUME NEW value \in JsonValues, NEW inside
  PROVE  LET said == UNION {PairVerdicts(below, inside[below[2]]) :
                             below \in Below(Unkeyed(value))}
         IN  /\ Denies(Unkeyed(value)) => FALSE \in OwnVerdicts(value, inside)
             /\ ~Denies(Unkeyed(value)) => OwnVerdicts(value, inside) = said
             /\ OwnVerdicts(value, inside) \subseteq {FALSE} \cup said
<1>. DEFINE bare == Unkeyed(value)
            own == OwnVerdicts(value, inside)
            said == UNION {PairVerdicts(below, inside[below[2]]) : below \in Below(bare)}
<1>. SUFFICES /\ Denies(bare) => FALSE \in own
              /\ ~Denies(bare) => own = said
              /\ own \subseteq {FALSE} \cup said
  OBVIOUS
<1>1. CASE value.t = "str"
  <2>1. said = {}
    <3>1. Below(bare) = {}
      BY <1>1, UnkeyedParts DEF Below
    <3>. QED
      BY <3>1
  <2>2. Denies(bare) <=> value_reports_failure(value.v)
    BY <1>1, UnkeyedDenies
  <2>3. own = IF value_reports_failure(value.v) THEN {FALSE} ELSE {}
    BY <1>1 DEF OwnVerdicts
  <2>. HIDE DEF own, said
  <2>. QED
    BY <2>1, <2>2, <2>3
<1>2. CASE value.t = "obj"
  <2>. DEFINE declared == Declared(value.v)
              denies == declared.t # "list" \/ NamesHealthKey(declared)
  <2>1. Below(bare) = {value.v[i] : i \in ReadPairs(value.v)}
    BY <1>2, UnkeyedParts DEF Below
  <2>2. Denies(bare) <=> denies
    BY <1>2, UnkeyedDenies, NotesDeny
  <2>3. own = IF declared.t # "list" THEN {FALSE}
              ELSE (IF NamesHealthKey(declared) THEN {FALSE} ELSE {})
                   \cup UNION {PairVerdicts(value.v[i], inside[value.v[i][2]]) :
                                 i \in ReadPairs(value.v)}
    BY <1>2 DEF OwnVerdicts
  <2>4. said = UNION {PairVerdicts(value.v[i], inside[value.v[i][2]]) :
                       i \in ReadPairs(value.v)}
    <3>. HIDE DEF bare
    <3>. QED
      BY <2>1
  <2>. HIDE DEF own, said, declared
  <2>. QED
    BY <2>2, <2>3, <2>4
<1>3. CASE value.t = "list"
  <2>1. Below(bare) = {Unkeyed(value.v[i]) : i \in DOMAIN value.v}
    BY <1>3, UnkeyedParts DEF Below
  <2>2. ~Denies(bare)
    BY <1>3, UnkeyedDenies
  <2>3. own = UNION {inside[value.v[i]] : i \in DOMAIN value.v}
    BY <1>3 DEF OwnVerdicts
  <2>4. \A i \in DOMAIN value.v :
          PairVerdicts(Unkeyed(value.v[i]), inside[Unkeyed(value.v[i])[2]])
            = inside[value.v[i]]
    BY UnkeyedParts, UnkeyedVerdicts
  <2>5. said = UNION {inside[value.v[i]] : i \in DOMAIN value.v}
    <3>. HIDE DEF bare
    <3>. QED
      BY <2>1, <2>4
  <2>. HIDE DEF own, said
  <2>. QED
    BY <2>2, <2>3, <2>5
<1>4. CASE value.t \in {"bool", "num", "null"}
  <2>1. said = {}
    <3>1. Below(bare) = {}
      BY <1>4, UnkeyedParts DEF Below
    <3>. QED
      BY <3>1
  <2>2. ~Denies(bare)
    BY <1>4, UnkeyedDenies
  <2>3. own = {}
    BY <1>4 DEF OwnVerdicts
  <2>. HIDE DEF own, said
  <2>. QED
    BY <2>1, <2>2, <2>3
<1>. QED
  BY <1>1, <1>2, <1>3, <1>4, HealthAssumption

(* Verdicts are yes or no.                                                 *)
LEMMA VerdictsBoolean ==
  ASSUME NEW inside \in [JsonValues -> SUBSET BOOLEAN]
  PROVE  /\ \A node \in Nodes : PairVerdicts(node, inside[node[2]]) \subseteq BOOLEAN
         /\ \A value \in JsonValues : OwnVerdicts(value, inside) \subseteq BOOLEAN
<1>1. ASSUME NEW node \in Nodes
      PROVE  PairVerdicts(node, inside[node[2]]) \subseteq BOOLEAN
  <2>. DEFINE value == node[2]
              nested == inside[value]
  <2>1. value \in JsonValues
    BY NodesAreClosed
  <2>2. nested \subseteq BOOLEAN
    <3>. HIDE DEF value
    <3>. QED
      BY <2>1
  <2>. HIDE DEF value, nested
  <2>3. HealthVerdict(value, nested) \subseteq BOOLEAN
    <3>1. CASE value.t = "bool"
      BY <2>1, <3>1, HealthAssumption DEF HealthVerdict
    <3>2. CASE value.t = "str"
      <4>1. HealthVerdict(value, nested) = {text_is_healthy(value.v)}
        BY <3>2 DEF HealthVerdict
      <4>. QED
        BY <4>1, TextBoolean
    <3>3. CASE value.t \in {"obj", "list"}
      BY <3>3 DEF HealthVerdict
    <3>4. CASE value.t \in {"num", "null"}
      BY <3>4 DEF HealthVerdict
    <3>. QED
      BY <2>1, <3>1, <3>2, <3>3, <3>4, HealthAssumption
  <2>. QED
    BY <2>2, <2>3 DEF PairVerdicts, value, nested
<1>2. ASSUME NEW value \in JsonValues
      PROVE  OwnVerdicts(value, inside) \subseteq BOOLEAN
  <2>. DEFINE said == UNION {PairVerdicts(below, inside[below[2]]) :
                              below \in Below(Unkeyed(value))}
  <2>1. \A below \in Below(Unkeyed(value)) : below \in Nodes
    BY NodesAreClosed
  <2>2. said \subseteq BOOLEAN
    BY <2>1, <1>1
  <2>3. OwnVerdicts(value, inside) \subseteq {FALSE} \cup said
    BY OwnVerdictsUnfold
  <2>. HIDE DEF said
  <2>. QED
    BY <2>2, <2>3
<1>. QED
  BY <1>1, <1>2

(* The reader is defined at every depth, down to the values it leaves.     *)
LEMMA VerdictsDefined ==
  /\ \A value \in JsonValues : Verdicts[0][value] = {FALSE}
  /\ \A n \in 1..Most, value \in JsonValues :
       Verdicts[n][value] = OwnVerdicts(value, Verdicts[n-1])
  /\ \A n \in 0..Most : Verdicts[n] \in [JsonValues -> SUBSET BOOLEAN]
<1>. DEFINE X == [JsonValues -> SUBSET BOOLEAN]
            unread == [value \in JsonValues |-> {FALSE}]
            next(inside) == [value \in JsonValues |-> OwnVerdicts(value, inside)]
            step == [p \in Nat \X X |-> next(p[2])]
            Is(f) == f = [levels \in 0..Most |->
                            [value \in JsonValues |->
                               IF levels = 0 THEN {FALSE}
                               ELSE OwnVerdicts(value, f[levels-1])]]
<1>1. \A inside \in X : next(inside) \in X
  BY VerdictsBoolean
<1>2. step \in [Nat \X X -> X]
  <2>. HIDE DEF next, X
  <2>. QED
    BY <1>1
<1>3. unread \in X
  OBVIOUS
<1>4. PICK f \in [0..Most -> X] : Recurses(f, unread, step, Most)
  <2>. HIDE DEF step, X, unread
  <2>. QED
    BY <1>2, <1>3, Recursion, MostIsNat
<1>5. \A n \in 1..Most : step[<<n, f[n-1]>>] = next(f[n-1])
  <2>1. ASSUME NEW n \in 1..Most PROVE n \in Nat /\ f[n-1] \in X
    BY <1>4, MostIsNat
  <2>. HIDE DEF next, X
  <2>. QED
    BY <2>1
<1>6. f[0] = unread /\ \A n \in 1..Most : f[n] = next(f[n-1])
  <2>1. f = [n \in 0..Most |-> IF n = 0 THEN unread ELSE step[<<n, f[n-1]>>]]
    BY <1>4 DEF Recurses
  <2>2. 0 \in 0..Most /\ \A n \in 1..Most : n # 0 /\ n \in 0..Most
    BY MostIsNat
  <2>. HIDE DEF step, next, unread
  <2>. QED
    BY <2>1, <2>2, <1>5
<1>7. Is(f)
  <2>1. ASSUME NEW n \in 0..Most
        PROVE  f[n] = [value \in JsonValues |->
                         IF n = 0 THEN {FALSE} ELSE OwnVerdicts(value, f[n-1])]
    <3>1. CASE n = 0
      BY <3>1, <1>6
    <3>2. CASE n \in 1..Most
      <4>1. n # 0
        BY <3>2, MostIsNat
      <4>. QED
        BY <3>2, <4>1, <1>6
    <3>3. n = 0 \/ n \in 1..Most
      BY MostIsNat
    <3>. QED
      BY <3>1, <3>2, <3>3
  <2>2. f = [n \in 0..Most |-> f[n]]
    BY <1>4
  <2>. QED
    BY <2>1, <2>2
<1>8. Is(Verdicts)
  <2>1. Verdicts = CHOOSE g : Is(g)
    BY DEF Verdicts, Most
  <2>. HIDE DEF Is
  <2>. QED
    BY <1>7, <2>1, Zenon
<1>9. \A value \in JsonValues : Verdicts[0][value] = {FALSE}
  <2>1. 0 \in 0..Most
    BY MostIsNat
  <2>. QED
    BY <1>8, <2>1
<1>10. \A n \in 1..Most : Verdicts[n] = next(Verdicts[n-1])
  <2>1. \A n \in 1..Most : n # 0 /\ n \in 0..Most
    BY MostIsNat
  <2>. QED
    BY <1>8, <2>1
<1>11. \A n \in 0..Most : Verdicts[n] \in X
  <2>. DEFINE S == {n \in 0..Most : Verdicts[n] \in X}
  <2>1. 0 \in S
    <3>1. 0 \in 0..Most
      BY MostIsNat
    <3>2. Verdicts[0] \in X
      BY <1>8, <3>1
    <3>. QED
      BY <3>1, <3>2
  <2>2. \A n \in 1..Most : n - 1 \in S => n \in S
    <3>. HIDE DEF next, X
    <3>. QED
      BY <1>1, <1>10, MostIsNat
  <2>3. 0..Most \subseteq S
    <3>. HIDE DEF S
    <3>. QED
      BY <2>1, <2>2, IntervalInduction, MostIsNat
  <2>. QED
    BY <2>3
<1>. QED
  BY <1>9, <1>10, <1>11


-----------------------------------------------------------------------------
(* The reading by levels.                                                  *)

(* A health key says no by a text that is no report of health, by false, by*)
(* what is no statement, and by a container that answers nothing; and it   *)
(* never says nothing.                                                     *)
LEMMA HealthKeySays ==
  ASSUME NEW value \in JsonValues, NEW nested
  PROVE  /\ FALSE \in HealthVerdict(value, nested) <=>
              \/ value.t = "str" /\ ~text_is_healthy(value.v)
              \/ value.t = "bool" /\ value.v = FALSE
              \/ value.t \in {"num", "null"}
              \/ value.t \in {"obj", "list"} /\ nested = {}
         /\ nested \cup HealthVerdict(value, nested) # {}
<1>1. CASE value.t = "str"
  <2>1. HealthVerdict(value, nested) = {text_is_healthy(value.v)}
    BY <1>1 DEF HealthVerdict
  <2>2. FALSE \in {text_is_healthy(value.v)} <=> ~text_is_healthy(value.v)
    BY TextBoolean
  <2>. QED
    BY <1>1, <2>1, <2>2
<1>2. CASE value.t = "bool"
  <2>1. HealthVerdict(value, nested) = {value.v}
    BY <1>2 DEF HealthVerdict
  <2>. QED
    BY <1>2, <2>1
<1>3. CASE value.t \in {"obj", "list"}
  BY <1>3 DEF HealthVerdict
<1>4. CASE value.t \in {"num", "null"}
  BY <1>4 DEF HealthVerdict
<1>. QED
  BY <1>1, <1>2, <1>3, <1>4, HealthAssumption

Keyed(node) == node[1] \in HealthKeys

(* The verdicts deny health exactly when something within so many levels   *)
(* does, or lies beyond them; otherwise they assert it exactly when        *)
(* something there is a statement.                                         *)
Judged(node, n, verdicts) ==
  /\ FALSE \notin verdicts <=>
       LevelsFrom(node)[n] = {} /\ \A x \in Upto(node, n) : ~Denies(x)
  /\ FALSE \notin verdicts =>
       (verdicts # {} <=> \E x \in Upto(node, n) : Keyed(x))

(* A value that is judged right is judged right under any key.             *)
LEMMA PairJudged ==
  ASSUME NEW node \in Nodes, NEW n \in 0..Most, NEW nested,
         Judged(Unkeyed(node[2]), n, nested)
  PROVE  Judged(node, n, PairVerdicts(node, nested))
<1>. DEFINE value == node[2]
            bare == Unkeyed(value)
            said == PairVerdicts(node, nested)
<1>1. value \in JsonValues /\ bare \in Nodes
  BY NodesAreClosed
<1>2. PICK rest : Upto(node, n) = {node} \cup rest /\ Upto(bare, n) = {bare} \cup rest
  BY UptoOfValue
<1>3. LevelsFrom(node)[n] = {} <=> LevelsFrom(bare)[n] = {}
  <2>1. CASE n = 0
    BY <2>1, <1>1, LevelsDefined
  <2>2. CASE n # 0
    <3>1. n \in 1..Most
      BY <2>2, MostIsNat
    <3>. QED
      BY <3>1, LevelsOfValue
  <2>. QED
    BY <2>1, <2>2
<1>4. ~Keyed(bare)
  BY UnkeyedParts DEF Keyed
<1>5. Judged(bare, n, nested)
  OBVIOUS
<1>6. CASE ~Keyed(node)
  <2>1. said = nested
    BY <1>6 DEF PairVerdicts, Keyed
  <2>2. Denies(node) <=> Denies(bare)
    BY <1>6, UnkeyedDenies DEF Denies, Keyed
  <2>3. Judged(node, n, nested)
    <3>. HIDE DEF value, bare
    <3>. QED
      BY <1>2, <1>3, <1>4, <1>5, <1>6, <2>2 DEF Judged
  <2>. QED
    BY <2>1, <2>3
<1>7. CASE Keyed(node)
  <2>. DEFINE no == FALSE \in HealthVerdict(value, nested)
  <2>1. said = nested \cup HealthVerdict(value, nested)
    BY <1>7 DEF PairVerdicts, Keyed
  <2>2. said # {}
    <3>. HIDE DEF value
    <3>. QED
      BY <1>1, <2>1, HealthKeySays
  <2>3. ASSUME LevelsFrom(bare)[n] = {}, \A x \in {bare} \cup rest : ~Denies(x)
        PROVE  Denies(node) <=> no
    <3>1. FALSE \notin nested /\ (nested # {} <=> \E x \in Upto(bare, n) : Keyed(x))
      BY <2>3, <1>2, <1>5 DEF Judged
    <3>2. Everything(bare) = Upto(bare, n)
      BY <2>3, <1>1, EverythingIsUpto
    <3>3. Statements(bare) = {} <=> nested = {}
      BY <3>1, <3>2 DEF Statements, Keyed
    <3>4. ~Denies(bare)
      BY <2>3
    <3>5. Denies(node) <=>
             \/ Denies(bare)
             \/ value.t = "str" /\ ~text_is_healthy(value.v)
             \/ value.t = "bool" /\ value.v = FALSE
             \/ value.t \in {"num", "null"}
             \/ value.t \in {"obj", "list"} /\ Statements(bare) = {}
      BY <1>7, UnkeyedDenies DEF Denies, Keyed
    <3>6. no <=> \/ value.t = "str" /\ ~text_is_healthy(value.v)
                 \/ value.t = "bool" /\ value.v = FALSE
                 \/ value.t \in {"num", "null"}
                 \/ value.t \in {"obj", "list"} /\ nested = {}
      BY <1>1, HealthKeySays
    <3>. HIDE DEF no, bare, value
    <3>. QED
      BY <3>3, <3>4, <3>5, <3>6
  <2>4. FALSE \notin nested <=>
          LevelsFrom(bare)[n] = {} /\ \A x \in {bare} \cup rest : ~Denies(x)
    BY <1>2, <1>5 DEF Judged
  <2>5. Denies(bare) => Denies(node)
    BY UnkeyedDenies DEF Denies
  <2>6. FALSE \notin said <=> FALSE \notin nested /\ ~no
    BY <2>1
  <2>. HIDE DEF value, bare, said, no
  <2>7. FALSE \notin said <=>
          LevelsFrom(node)[n] = {} /\ \A x \in {node} \cup rest : ~Denies(x)
    <3>1. ASSUME FALSE \notin said
          PROVE  LevelsFrom(node)[n] = {} /\ \A x \in {node} \cup rest : ~Denies(x)
      BY <3>1, <2>3, <2>4, <2>6, <1>3
    <3>2. ASSUME LevelsFrom(node)[n] = {}, \A x \in {node} \cup rest : ~Denies(x)
          PROVE  FALSE \notin said
      BY <3>2, <2>3, <2>4, <2>5, <2>6, <1>3
    <3>. QED
      BY <3>1, <3>2
  <2>8. \E x \in {node} \cup rest : Keyed(x)
    BY <1>7
  <2>9. Judged(node, n, said)
    BY <2>2, <2>7, <2>8, <1>2 DEF Judged
  <2>. QED
    BY <2>9 DEF said
<1>. QED
  BY <1>6, <1>7

(* A value is judged right when what lies right below it is.               *)
LEMMA ValueJudged ==
  ASSUME NEW value \in JsonValues, NEW n \in 1..Most, NEW inside,
         \A below \in Below(Unkeyed(value)) :
           Judged(below, n - 1, PairVerdicts(below, inside[below[2]]))
  PROVE  Judged(Unkeyed(value), n, OwnVerdicts(value, inside))
<1>. DEFINE bare == Unkeyed(value)
            says(below) == PairVerdicts(below, inside[below[2]])
            own == OwnVerdicts(value, inside)
            said == UNION {says(below) : below \in Below(bare)}
<1>1. bare \in Nodes
  BY NodesAreClosed
<1>2. \A below \in Below(bare) : Judged(below, n - 1, says(below))
  OBVIOUS
<1>3. /\ Denies(bare) => FALSE \in own
      /\ ~Denies(bare) => own = said
  BY OwnVerdictsUnfold
<1>4. ~Keyed(bare)
  BY UnkeyedParts DEF Keyed
<1>. HIDE DEF bare, says, own
<1>5. LevelsFrom(bare)[n] = UNION {LevelsFrom(below)[n-1] : below \in Below(bare)}
  BY <1>1, LevelsOfContents
<1>6. Upto(bare, n) = {bare} \cup UNION {Upto(below, n-1) : below \in Below(bare)}
  BY <1>1, UptoUnfolds
<1>7. FALSE \notin own <=>
        ~Denies(bare) /\ \A below \in Below(bare) : FALSE \notin says(below)
  BY <1>3
<1>8. FALSE \notin own <=>
        LevelsFrom(bare)[n] = {} /\ \A x \in Upto(bare, n) : ~Denies(x)
  <2>1. (\A below \in Below(bare) : FALSE \notin says(below)) <=>
          \A below \in Below(bare) :
            LevelsFrom(below)[n-1] = {} /\ \A x \in Upto(below, n-1) : ~Denies(x)
    BY <1>2 DEF Judged
  <2>2. LevelsFrom(bare)[n] = {} <=>
          \A below \in Below(bare) : LevelsFrom(below)[n-1] = {}
    BY <1>5
  <2>3. (\A x \in Upto(bare, n) : ~Denies(x)) <=>
          /\ ~Denies(bare)
          /\ \A below \in Below(bare) : \A x \in Upto(below, n-1) : ~Denies(x)
    BY <1>6
  <2>. HIDE DEF said
  <2>. QED
    BY <2>1, <2>2, <2>3, <1>7
<1>9. FALSE \notin own => (own # {} <=> \E x \in Upto(bare, n) : Keyed(x))
  <2>. SUFFICES ASSUME FALSE \notin own
                PROVE  own # {} <=> \E x \in Upto(bare, n) : Keyed(x)
    OBVIOUS
  <2>1. \A below \in Below(bare) :
          says(below) # {} <=> \E x \in Upto(below, n-1) : Keyed(x)
    BY <1>2, <1>7 DEF Judged
  <2>2. own = said
    BY <1>3
  <2>3. own # {} <=> \E below \in Below(bare) : says(below) # {}
    BY <2>2
  <2>4. (\E x \in Upto(bare, n) : Keyed(x)) <=>
          \E below \in Below(bare) : \E x \in Upto(below, n-1) : Keyed(x)
    BY <1>4, <1>6
  <2>. HIDE DEF said
  <2>. QED
    BY <2>1, <2>3, <2>4
<1>10. Judged(bare, n, own)
  <2>. HIDE DEF said
  <2>. QED
    BY <1>8, <1>9 DEF Judged
<1>. QED
  BY <1>10 DEF bare, own

(* Every value is judged right, with any number of levels left to read.    *)
LEMMA EveryValueJudged ==
  \A n \in 0..Most : \A value \in JsonValues :
    Judged(Unkeyed(value), n, Verdicts[n][value])
<1>. DEFINE S == {n \in 0..Most : \A value \in JsonValues :
                                    Judged(Unkeyed(value), n, Verdicts[n][value])}
<1>1. 0 \in S
  <2>1. ASSUME NEW value \in JsonValues
        PROVE  Judged(Unkeyed(value), 0, Verdicts[0][value])
    <3>1. Verdicts[0][value] = {FALSE}
      BY VerdictsDefined
    <3>2. LevelsFrom(Unkeyed(value))[0] # {}
      BY NodesAreClosed, LevelsDefined
    <3>. QED
      BY <3>1, <3>2 DEF Judged
  <2>. QED
    BY <2>1, MostIsNat
<1>2. ASSUME NEW n \in 1..Most, n - 1 \in S PROVE n \in S
  <2>1. ASSUME NEW value \in JsonValues
        PROVE  Judged(Unkeyed(value), n, Verdicts[n][value])
    <3>. DEFINE inside == Verdicts[n-1]
    <3>1. Verdicts[n][value] = OwnVerdicts(value, inside)
      BY VerdictsDefined
    <3>2. ASSUME NEW below \in Below(Unkeyed(value))
          PROVE  Judged(below, n - 1, PairVerdicts(below, inside[below[2]]))
      <4>1. below \in Nodes /\ below[2] \in JsonValues
        BY NodesAreClosed
      <4>2. n - 1 \in 0..Most /\ Judged(Unkeyed(below[2]), n - 1, inside[below[2]])
        BY <1>2, <4>1
      <4>. HIDE DEF inside
      <4>. QED
        BY <4>1, <4>2, PairJudged
    <3>. HIDE DEF inside
    <3>3. Judged(Unkeyed(value), n, OwnVerdicts(value, inside))
      BY <3>2, ValueJudged
    <3>. QED
      BY <3>1, <3>3
  <2>. QED
    BY <2>1, MostIsNat
<1>3. 0..Most \subseteq S
  <2>. HIDE DEF S
  <2>. QED
    BY <1>1, <1>2, IntervalInduction, MostIsNat
<1>. QED
  BY <1>3

(* The verdict on every JSON body, however deep and whatever its keys, is  *)
(* the reading by levels (cloud_run_evidence.py 204-263, 311-402).         *)
THEOREM BodiesReadByLevels == ReadsByLevels
<1>1. ASSUME NEW value \in JsonValues
      PROVE  body_is_healthy([form |-> "json", value |-> value])
               <=> HealthyByLevels(value)
  <2>. DEFINE root == Unkeyed(value)
              verdicts == Verdicts[Most][value]
  <2>1. root \in Nodes /\ Most \in 0..Most
    BY NodesAreClosed, MostIsNat
  <2>2. Judged(root, Most, verdicts)
    BY <2>1, EveryValueJudged
  <2>3. Everything(root) = Upto(root, Most)
    BY <2>1, EverythingIsUpto
  <2>4. body_is_healthy([form |-> "json", value |-> value])
          <=> verdicts # {} /\ FALSE \notin verdicts
    BY DEF body_is_healthy, Most
  <2>5. HealthyByLevels(value) <=>
          /\ LevelsFrom(root)[Most] = {}
          /\ \E x \in Everything(root) : Keyed(x)
          /\ \A node \in Everything(root) : ~Denies(node)
    BY DEF HealthyByLevels, Statements, Keyed, Most
  <2>. HIDE DEF root, verdicts
  <2>. QED
    BY <2>2, <2>3, <2>4, <2>5 DEF Judged
<1>. QED
  BY <1>1 DEF ReadsByLevels

(* A body is read for what it says.                                        *)
LEMMA BodiesReadTruly ==
  ASSUME NEW body, IsBody(body)
  PROVE  /\ body_is_healthy(body) \in BOOLEAN
         /\ body_is_healthy(body) <=> SaysHealthy(body)
<1>1. CASE body.form \in {"empty", "truncated", "broken"}
  BY <1>1 DEF body_is_healthy, SaysHealthy
<1>2. CASE body.form = "text"
  <2>1. body_is_healthy(body) = text_is_healthy(body.text)
    BY <1>2 DEF body_is_healthy
  <2>. QED
    BY <1>2, <2>1, TextBoolean DEF SaysHealthy
<1>3. CASE body.form = "json"
  <2>. DEFINE verdicts == Verdicts[MAX_HEALTH_DEPTH + 1][body.value]
              same == [form |-> "json", value |-> body.value]
  <2>1. body_is_healthy(body) = (verdicts # {} /\ FALSE \notin verdicts)
    BY <1>3 DEF body_is_healthy
  <2>2. body_is_healthy(same) = (verdicts # {} /\ FALSE \notin verdicts)
    BY DEF body_is_healthy
  <2>3. body_is_healthy(same) <=> HealthyByLevels(body.value)
    BY <1>3, BodiesReadByLevels DEF ReadsByLevels, IsBody
  <2>4. SaysHealthy(body) <=> HealthyByLevels(body.value)
    BY <1>3 DEF SaysHealthy
  <2>. HIDE DEF verdicts, same
  <2>. QED
    BY <2>1, <2>2, <2>3, <2>4
<1>. QED
  BY <1>1, <1>2, <1>3 DEF IsBody
=============================================================================
