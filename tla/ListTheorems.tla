---------------------------- MODULE ListTheorems ----------------------------
(***************************************************************************)
(* Induction over numbers, and what the folds over lists return, for the   *)
(* proofs of the other modules.                                            *)
(*                                                                         *)
(* The library's induction theorems take the property as an operator.      *)
(* Here it is a set, that of the numbers that have the property, and       *)
(* induction is the fact that a set of numbers has a least member.         *)
(***************************************************************************)
EXTENDS Lists, WellFoundedInduction, SequenceTheorems, FiniteSetTheorems, TLAPS

(* A set of natural numbers has a least one.                               *)
LEMMA LeastNatural ==
    ASSUME NEW T, T \subseteq Nat, T # {}
    PROVE  \E x \in T : \A y \in T : x <= y
<1>1. PICK x \in T : \A y \in T : <<y, x>> \notin OpToRel(<, Nat)
  BY WFMin, NatLessThanWellFounded
<1>2. \A y \in T : ~ (y < x)
  <2> TAKE y \in T
  <2>1. <<y, x>> \notin {ss \in Nat \X Nat : ss[1] < ss[2]}
    BY <1>1 DEF OpToRel
  <2>2. <<y, x>> \in Nat \X Nat
    OBVIOUS
  <2> QED  BY <2>1, <2>2
<1>3. \A y \in T : x <= y
  BY <1>2
<1> QED  BY <1>3

(* Induction, with the property as the set of numbers that have it.        *)
LEMMA Induction ==
    ASSUME NEW P, P \subseteq Nat, 0 \in P, \A n \in P : n + 1 \in P
    PROVE  P = Nat
<1> SUFFICES ASSUME Nat \ P # {} PROVE FALSE
  OBVIOUS
<1>1. PICK x \in Nat \ P : \A y \in Nat \ P : x <= y
  <2> DEFINE T == Nat \ P
  <2>1. T \subseteq Nat /\ T # {}
    OBVIOUS
  <2> HIDE DEF T
  <2>2. \E x \in T : \A y \in T : x <= y
    BY <2>1, LeastNatural
  <2> QED BY <2>2 DEF T
<1>2. x # 0 /\ x - 1 \in Nat /\ x - 1 \in P
  BY <1>1
<1> QED BY <1>1, <1>2

(* A set of numbers within an interval has a greatest one.                 *)
LEMMA MaxOfInterval ==
    ASSUME NEW n \in Nat, NEW t \in SUBSET (1 .. n), t # {}
    PROVE  Max(t) \in t /\ \A y \in t : Max(t) >= y
<1> DEFINE T == {d \in Nat : n - d \in t}
<1>1. T \subseteq Nat /\ T # {}
  <2>1. PICK x \in t : TRUE
    OBVIOUS
  <2>2. n - x \in Nat /\ n - (n - x) = x
    OBVIOUS
  <2>3. n - x \in T
    BY <2>1, <2>2
  <2> QED  BY <2>3
<1>2. PICK d \in T : \A e \in T : d <= e
  <2> HIDE DEF T
  <2> QED  BY <1>1, LeastNatural
<1>3. n - d \in t /\ d \in Nat
  OBVIOUS
<1>4. ASSUME NEW y \in t  PROVE n - d >= y
  <2>1. y \in Int /\ n - y \in Nat /\ n - (n - y) = y
    OBVIOUS
  <2>2. n - y \in T
    BY <2>1
  <2>3. d <= n - y
    BY <1>2, <2>2
  <2> QED  BY <2>1, <2>3, <1>3
<1> DEFINE x == n - d
<1>5. x \in t /\ \A y \in t : x >= y
  BY <1>3, <1>4
<1> HIDE DEF x, T
<1>6. \E z \in t : \A y \in t : z >= y
  BY <1>5
<1> QED  BY <1>6 DEF Max

(* g gives, for each set of places, what a fold over these places returns. *)
Folds(g, n, base, Step) == \A t \in SUBSET (1 .. n) :
    g[t] = IF t = {} THEN base ELSE Step[<<g[t \ {Max(t)}], Max(t)>>]

(* There is a function that folds.                                         *)
LEMMA FoldExists ==
    ASSUME NEW V, NEW n \in Nat, NEW base \in V, NEW Step \in [V \X (1 .. n) -> V]
    PROVE  \E g \in [SUBSET (1 .. n) -> V] : Folds(g, n, base, Step)
<1> DEFINE Solves(g, k) == \A t \in SUBSET (1 .. k) :
               g[t] = IF t = {} THEN base ELSE Step[<<g[t \ {Max(t)}], Max(t)>>]
           P == {k \in Nat : k <= n => \E g \in [SUBSET (1 .. k) -> V] : Solves(g, k)}
<1>1. 0 \in P
  <2> DEFINE g == [t \in SUBSET (1 .. 0) |-> base]
  <2>1. g \in [SUBSET (1 .. 0) -> V] /\ Solves(g, 0)
    OBVIOUS
  <2> QED  BY <2>1
<1>2. ASSUME NEW k \in P  PROVE k + 1 \in P
  <2>0. k \in Nat /\ k + 1 \in Nat /\ (k + 1 <= n => k <= n)
    OBVIOUS
  <2> HIDE DEF Solves
  <2> SUFFICES ASSUME k + 1 <= n
               PROVE  \E g \in [SUBSET (1 .. k + 1) -> V] : Solves(g, k + 1)
    BY <2>0, Zenon
  <2>1. PICK g \in [SUBSET (1 .. k) -> V] : Solves(g, k)
    BY <2>0, Zenon
  <2> USE <2>0 DEF Solves
  <2> HIDE DEF P
  <2> DEFINE h == [t \in SUBSET (1 .. k + 1) |->
                      IF k + 1 \in t THEN Step[<<g[t \ {k + 1}], k + 1>>] ELSE g[t]]
  <2>2. ASSUME NEW t \in SUBSET (1 .. k + 1)
        PROVE  /\ t \ {k + 1} \in SUBSET (1 .. k)
               /\ k + 1 \notin t => t \in SUBSET (1 .. k)
    OBVIOUS
  <2>3. h \in [SUBSET (1 .. k + 1) -> V]
    <3>1. ASSUME NEW t \in SUBSET (1 .. k + 1)  PROVE h[t] \in V
      <4>1. CASE k + 1 \in t
        <5>1. g[t \ {k + 1}] \in V /\ k + 1 \in 1 .. n
          BY <2>2
        <5> QED  BY <4>1, <5>1
      <4>2. CASE k + 1 \notin t
        BY <4>2, <2>2
      <4> QED  BY <4>1, <4>2
    <3> QED  BY <3>1
  <2>4. \A t \in SUBSET (1 .. k) : t \in SUBSET (1 .. k + 1) /\ k + 1 \notin t /\ h[t] = g[t]
    OBVIOUS
  <2>5. ASSUME NEW t \in SUBSET (1 .. k + 1)
        PROVE  h[t] = IF t = {} THEN base ELSE Step[<<h[t \ {Max(t)}], Max(t)>>]
    <3>1. CASE k + 1 \in t
      <4>1. Max(t) \in t /\ \A y \in t : Max(t) >= y
        BY <3>1, MaxOfInterval
      <4>2. Max(t) = k + 1
        <5>1. Max(t) \in 1 .. k + 1 /\ Max(t) >= k + 1
          BY <3>1, <4>1
        <5> QED  BY <5>1, <2>0
      <4>3. h[t \ {k + 1}] = g[t \ {k + 1}]
        BY <2>2, <2>4
      <4> QED  BY <3>1, <4>2, <4>3
    <3>2. CASE k + 1 \notin t
      <4>1. t \in SUBSET (1 .. k) /\ h[t] = g[t]
        BY <3>2, <2>2
      <4>2. g[t] = IF t = {} THEN base ELSE Step[<<g[t \ {Max(t)}], Max(t)>>]
        BY <2>1, <4>1
      <4>3. t \ {Max(t)} \in SUBSET (1 .. k)
        BY <4>1
      <4>4. h[t \ {Max(t)}] = g[t \ {Max(t)}]
        BY <4>3, <2>4
      <4> QED  BY <4>1, <4>2, <4>4
    <3> QED  BY <3>1, <3>2
  <2>6. Solves(h, k + 1)
    BY <2>5
  <2> HIDE DEF h, Solves
  <2> QED  BY <2>3, <2>6
<1>3. P = Nat
  <2>1. P \subseteq Nat
    OBVIOUS
  <2> HIDE DEF P
  <2> QED  BY <1>1, <1>2, <2>1, Induction
<1>4. PICK g \in [SUBSET (1 .. n) -> V] : Solves(g, n)
  <2> HIDE DEF Solves
  <2>1. n \in P /\ n <= n
    <3> HIDE DEF P
    <3> QED  BY <1>3
  <2> QED  BY <2>1, Zenon
<1> QED  BY <1>4 DEF Folds

(* The greatest number of an interval, and what is below it.               *)
LEMMA MaxOfPrefix ==
    ASSUME NEW i \in Nat \ {0}
    PROVE  (1 .. i) # {} /\ Max(1 .. i) = i /\ (1 .. i) \ {Max(1 .. i)} = 1 .. i - 1
<1>0. 1 .. i \in SUBSET (1 .. i) /\ i \in 1 .. i /\ i \in Nat
  OBVIOUS
<1> DEFINE m == Max(1 .. i)
<1>1. m \in 1 .. i /\ \A y \in 1 .. i : m >= y
  <2>1. 1 .. i # {}
    BY <1>0
  <2> QED  BY <1>0, <2>1, MaxOfInterval
<1> HIDE DEF m
<1>2. m = i
  BY <1>0, <1>1
<1>3. (1 .. i) \ {i} = 1 .. i - 1
  OBVIOUS
<1> QED  BY <1>0, <1>2, <1>3 DEF m

(* h is a sequence of values, each made of the one before it: the solution *)
(* of a recursive function over an interval.                               *)
Follows(h, n, base, Step) ==
    h[0] = base /\ \A i \in 1 .. n : h[i] = Step[<<h[i - 1], i>>]

(* There is such a sequence.                                               *)
LEMMA StepsExist ==
    ASSUME NEW V, NEW n \in Nat, NEW base \in V, NEW Step \in [V \X (1 .. n) -> V]
    PROVE  \E h \in [0 .. n -> V] : Follows(h, n, base, Step)
<1>1. PICK g \in [SUBSET (1 .. n) -> V] : Folds(g, n, base, Step)
  BY FoldExists
<1> DEFINE h == [i \in 0 .. n |-> g[1 .. i]]
<1>2. h \in [0 .. n -> V]
  BY <1>1
<1>3. h[0] = base
  <2>1. 0 \in 0 .. n /\ 1 .. 0 = {} /\ {} \in SUBSET (1 .. n)
    OBVIOUS
  <2> QED  BY <1>1, <2>1 DEF Folds
<1>4. ASSUME NEW i \in 1 .. n  PROVE h[i] = Step[<<h[i - 1], i>>]
  <2>1. i \in Nat \ {0} /\ i \in 0 .. n /\ i - 1 \in 0 .. n /\ 1 .. i \in SUBSET (1 .. n)
    OBVIOUS
  <2>2. 1 .. i # {} /\ Max(1 .. i) = i /\ (1 .. i) \ {Max(1 .. i)} = 1 .. i - 1
    BY <2>1, MaxOfPrefix
  <2>3. g[1 .. i] = Step[<<g[1 .. i - 1], i>>]
    BY <1>1, <2>1, <2>2 DEF Folds
  <2> QED  BY <2>1, <2>3
<1> HIDE DEF h
<1> QED  BY <1>2, <1>3, <1>4 DEF Follows

(* Induction along a list: from each place to the next.                    *)
LEMMA Along ==
    ASSUME NEW n \in Nat, NEW P, 0 \in P, \A i \in 1 .. n : i - 1 \in P => i \in P
    PROVE  0 .. n \subseteq P
<1> DEFINE Q == {i \in Nat : i <= n => i \in P}
<1>1. ASSUME NEW i \in Q  PROVE i + 1 \in Q
  <2> SUFFICES ASSUME i + 1 <= n  PROVE i + 1 \in P
    OBVIOUS
  <2>1. i + 1 \in 1 .. n /\ (i + 1) - 1 = i /\ i <= n
    OBVIOUS
  <2>2. i \in P
    BY <2>1
  <2> QED  BY <2>1, <2>2
<1>2. Q = Nat
  <2>1. Q \subseteq Nat /\ 0 \in Q
    OBVIOUS
  <2> HIDE DEF Q
  <2> QED  BY <1>1, <2>1, Induction
<1> QED  BY <1>2

(* Appending adds one value to those of a list.                            *)
LEMMA RangeOfAppend ==
    ASSUME NEW V, NEW l \in Seq(V), NEW x \in V
    PROVE  Append(l, x) \in Seq(V) /\ Range(Append(l, x)) = Range(l) \union {x}
<1> DEFINE r == Append(l, x)  n == Len(l)
<1>1. /\ n \in Nat /\ DOMAIN l = 1 .. n /\ DOMAIN r = 1 .. n + 1
      /\ r[n + 1] = x /\ \A j \in 1 .. n : r[j] = l[j]
  BY AppendProperties
<1> HIDE DEF r, n
<1>2. 1 .. n + 1 = (1 .. n) \union {n + 1}
  BY <1>1
<1>3. Range(r) \subseteq Range(l) \union {x}
  BY <1>1, <1>2 DEF Range
<1>4. Range(l) \subseteq Range(r)
  BY <1>1, <1>2 DEF Range
<1>5. x \in Range(r)
  BY <1>1, <1>2 DEF Range
<1> QED  BY <1>3, <1>4, <1>5, AppendProperties DEF r

(* The steps of KeepOnly.                                                  *)
LEMMA KeepOnlySteps ==
    ASSUME NEW V, NEW list \in Seq(V), NEW S
    PROVE  \E h : /\ h[0] = << >>
                  /\ \A i \in 1 .. Len(list) :
                        h[i] = IF list[i] \in S THEN Append(h[i - 1], list[i]) ELSE h[i - 1]
                  /\ h[Len(list)] = KeepOnly(list, S)
<1> DEFINE n         == Len(list)
           Op(v, x)  == IF x \in S THEN Append(v, x) ELSE v
           Solves(g) == g = [t \in SUBSET DOMAIN list |->
                                IF t = {} THEN << >>
                                ELSE Op(g[t \ {Max(t)}], list[Max(t)])]
           G         == CHOOSE g : Solves(g)
<1>0. n \in Nat /\ DOMAIN list = 1 .. n
  OBVIOUS
<1>1. KeepOnly(list, S) = G[DOMAIN list]
  BY DEF KeepOnly, FoldLeft, MapThenFoldSet
<1> HIDE DEF n
<1>2. \E g : Solves(g)
  <2> DEFINE Step == [x \in Seq(V) \X (1 .. n) |-> Op(x[1], list[x[2]])]
  <2>1. Step \in [Seq(V) \X (1 .. n) -> Seq(V)] /\ << >> \in Seq(V)
    <3>1. ASSUME NEW v \in Seq(V), NEW i \in 1 .. n  PROVE Op(v, list[i]) \in Seq(V)
      <4>1. list[i] \in V
        BY <1>0, ElementOfSeq
      <4> QED  BY <4>1
    <3> QED  BY <3>1
  <2> HIDE DEF Step
  <2>2. PICK g \in [SUBSET (1 .. n) -> Seq(V)] : Folds(g, n, << >>, Step)
    BY <1>0, <2>1, FoldExists
  <2>3. ASSUME NEW t \in SUBSET (1 .. n), t # {}
        PROVE  Step[<<g[t \ {Max(t)}], Max(t)>>] = Op(g[t \ {Max(t)}], list[Max(t)])
    <3>1. g[t \ {Max(t)}] \in Seq(V) /\ Max(t) \in 1 .. n
      BY <1>0, <2>3, MaxOfInterval
    <3> QED  BY <3>1 DEF Step
  <2>4. \A t \in SUBSET (1 .. n) :
            g[t] = IF t = {} THEN << >> ELSE Op(g[t \ {Max(t)}], list[Max(t)])
    BY <2>2, <2>3 DEF Folds
  <2>5. Solves(g)
    BY Zenon, <1>0, <2>4
  <2> HIDE DEF Solves
  <2> QED  BY <2>5
<1>3. Solves(G)
  BY Zenon, <1>2
<1> HIDE DEF G
<1> DEFINE h == [i \in 0 .. n |-> G[1 .. i]]
<1>4. h[0] = << >> /\ h[n] = KeepOnly(list, S)
  BY <1>0, <1>1, <1>3
<1>5. ASSUME NEW i \in 1 .. n  PROVE h[i] = Op(h[i - 1], list[i])
  <2>1. i \in Nat \ {0} /\ 1 .. i \in SUBSET (1 .. n) /\ i - 1 \in 0 .. n
    BY <1>0
  <2>2. 1 .. i # {} /\ Max(1 .. i) = i /\ (1 .. i) \ {Max(1 .. i)} = 1 .. i - 1
    BY <2>1, MaxOfPrefix
  <2>3. G[1 .. i] = Op(G[(1 .. i) \ {Max(1 .. i)}], list[Max(1 .. i)])
    BY <1>0, <1>3, <2>1, <2>2
  <2>4. G[1 .. i] = Op(G[1 .. i - 1], list[i])
    BY <2>2, <2>3
  <2> QED  BY <2>1, <2>4
<1> QED  BY <1>4, <1>5 DEF n

(* KeepOnly returns the members of S that the list has, each where it      *)
(* stands in the list.                                                     *)
LEMMA KeepOnlyMembers ==
    ASSUME NEW V, NEW list \in Seq(V), NEW S
    PROVE  /\ KeepOnly(list, S) \in Seq(V)
           /\ Range(KeepOnly(list, S)) = Range(list) \cap S
<1> DEFINE n == Len(list)
<1>1. PICK h : /\ h[0] = << >>
               /\ \A i \in 1 .. n :
                     h[i] = IF list[i] \in S THEN Append(h[i - 1], list[i]) ELSE h[i - 1]
               /\ h[n] = KeepOnly(list, S)
  BY KeepOnlySteps
<1>0. n \in Nat /\ DOMAIN list = 1 .. n /\ \A i \in 1 .. n : list[i] \in V
  BY ElementOfSeq
<1> DEFINE Before(i) == {list[j] : j \in 1 .. i} \cap S
           P == {i \in 0 .. n : h[i] \in Seq(V) /\ Range(h[i]) = Before(i)}
<1> HIDE DEF n
<1>2. 0 \in P
  <2>1. h[0] \in Seq(V) /\ Range(h[0]) = {} /\ Before(0) = {}
    BY <1>1 DEF Range
  <2> QED  BY <1>0, <2>1
<1>3. ASSUME NEW i \in 1 .. n, i - 1 \in P  PROVE i \in P
  <2>0. i \in 0 .. n
    BY <1>0
  <2>1. h[i - 1] \in Seq(V) /\ Range(h[i - 1]) = Before(i - 1)
    BY <1>3
  <2>2. {list[j] : j \in 1 .. i} = {list[j] : j \in 1 .. i - 1} \union {list[i]}
    <3>1. 1 .. i = (1 .. i - 1) \union {i}
      BY <1>0
    <3> QED  BY <3>1
  <2>3. CASE list[i] \in S
    <3>0. h[i] = Append(h[i - 1], list[i]) /\ list[i] \in V
      BY <1>0, <1>1, <2>3
    <3>1. h[i] = Append(h[i - 1], list[i]) /\ h[i] \in Seq(V)
      BY <2>1, <3>0, AppendProperties
    <3>2. Range(h[i]) = Range(h[i - 1]) \union {list[i]}
      BY <2>1, <3>0, RangeOfAppend
    <3>3. Range(h[i]) = Before(i)
      BY <2>1, <2>2, <2>3, <3>2
    <3> HIDE DEF Before
    <3> QED  BY <2>0, <3>1, <3>3
  <2>4. CASE list[i] \notin S
    <3>1. h[i] = h[i - 1] /\ Before(i) = Before(i - 1)
      BY <1>1, <2>2, <2>4
    <3> QED  BY <1>0, <2>1, <3>1
  <2> QED  BY <2>3, <2>4
<1>4. n \in P
  <2> HIDE DEF P
  <2>1. 0 .. n \subseteq P
    BY <1>0, <1>2, <1>3, Along
  <2> QED  BY <1>0, <2>1
<1>5. Range(list) = {list[j] : j \in 1 .. n}
  BY <1>0 DEF Range
<1> QED  BY <1>1, <1>4, <1>5

(* KeepOnly keeps the order of the list.                                   *)
LEMMA KeepOnlyOrder ==
    ASSUME NEW V, NEW list \in Seq(V), NEW S,
           NEW k \in DOMAIN KeepOnly(list, S), NEW m \in DOMAIN KeepOnly(list, S), k < m
    PROVE  \E a, b \in DOMAIN list :
              a < b /\ KeepOnly(list, S)[k] = list[a] /\ KeepOnly(list, S)[m] = list[b]
<1> DEFINE n == Len(list)
<1>1. PICK h : /\ h[0] = << >>
               /\ \A i \in 1 .. n :
                     h[i] = IF list[i] \in S THEN Append(h[i - 1], list[i]) ELSE h[i - 1]
               /\ h[n] = KeepOnly(list, S)
  BY KeepOnlySteps
<1>0. n \in Nat /\ DOMAIN list = 1 .. n /\ \A i \in 1 .. n : list[i] \in V
  BY ElementOfSeq
<1> DEFINE From(l, i) == \A x \in DOMAIN l : \E a \in 1 .. i : l[x] = list[a]
           Ordered(l, i) == \A x, y \in DOMAIN l : x < y =>
               \E a, b \in 1 .. i : a < b /\ l[x] = list[a] /\ l[y] = list[b]
           P == {i \in 0 .. n : h[i] \in Seq(V) /\ From(h[i], i) /\ Ordered(h[i], i)}
<1> HIDE DEF n
<1>2. 0 \in P
  <2>1. h[0] \in Seq(V) /\ DOMAIN h[0] = {} /\ 0 \in 0 .. n
    BY <1>0, <1>1
  <2> QED  BY <2>1
<1>3. ASSUME NEW i \in 1 .. n, i - 1 \in P  PROVE i \in P
  <2>0. i \in 0 .. n /\ i \in 1 .. i /\ 1 .. i - 1 \subseteq 1 .. i
    BY <1>0
  <2>1. h[i - 1] \in Seq(V) /\ From(h[i - 1], i - 1) /\ Ordered(h[i - 1], i - 1)
    BY <1>3
  <2>2. CASE list[i] \in S
    <3> DEFINE l == h[i - 1]  r == h[i]
    <3>0. r = Append(l, list[i]) /\ list[i] \in V /\ l \in Seq(V)
      BY <1>0, <1>1, <2>1, <2>2
    <3>1. r \in Seq(V) /\ Len(l) \in Nat /\ DOMAIN l = 1 .. Len(l) /\ DOMAIN r = 1 .. Len(l) + 1
      BY <3>0, AppendProperties
    <3>2. r[Len(l) + 1] = list[i] /\ \A j \in 1 .. Len(l) : r[j] = l[j]
      BY <3>0, AppendProperties
    <3>3. From(l, i - 1) /\ Ordered(l, i - 1)
      BY <2>1
    <3> HIDE DEF l, r
    <3>4. ASSUME NEW x \in DOMAIN r  PROVE x \in DOMAIN l \/ x = Len(l) + 1
      BY <3>1
    <3>5. From(r, i)
      BY <2>0, <3>1, <3>2, <3>3, <3>4
    <3>6. ASSUME NEW x \in DOMAIN r, NEW y \in DOMAIN r, x < y
          PROVE  \E a, b \in 1 .. i : a < b /\ r[x] = list[a] /\ r[y] = list[b]
      <4>1. x \in DOMAIN l
        BY <3>1, <3>6
      <4>2. CASE y \in DOMAIN l
        <5>1. PICK a \in 1 .. i - 1, b \in 1 .. i - 1 : a < b /\ l[x] = list[a] /\ l[y] = list[b]
          BY <3>3, <3>6, <4>1, <4>2
        <5> QED  BY <5>1, <2>0, <3>1, <3>2, <4>1, <4>2
      <4>3. CASE y = Len(l) + 1
        <5>1. PICK a \in 1 .. i - 1 : l[x] = list[a]
          BY <3>3, <4>1
        <5>2. a < i /\ a \in 1 .. i /\ r[x] = list[a] /\ r[y] = list[i]
          BY <1>0, <3>1, <3>2, <4>1, <4>3, <5>1
        <5> QED  BY <5>2, <2>0
      <4> QED  BY <3>4, <4>2, <4>3
    <3>7. Ordered(r, i)
      BY <3>6
    <3> HIDE DEF From, Ordered
    <3> QED  BY <2>0, <3>1, <3>5, <3>7 DEF r
  <2>3. CASE list[i] \notin S
    <3>1. h[i] = h[i - 1]
      BY <1>1, <2>3
    <3>2. From(h[i], i) /\ Ordered(h[i], i)
      BY <2>0, <2>1, <3>1
    <3> HIDE DEF From, Ordered
    <3> QED  BY <2>0, <2>1, <3>1, <3>2
  <2> QED  BY <2>2, <2>3
<1>4. n \in P
  <2> HIDE DEF P
  <2>1. 0 .. n \subseteq P
    BY <1>0, <1>2, <1>3, Along
  <2> QED  BY <1>0, <2>1
<1>5. Ordered(KeepOnly(list, S), n)
  <2>1. Ordered(h[n], n)
    BY <1>4
  <2> HIDE DEF Ordered
  <2> QED  BY <1>1, <2>1
<1> QED  BY <1>0, <1>5

(* A finite set as a sequence has the members of the set.                  *)
LEMMA SetToSeqMembers ==
    ASSUME NEW S, IsFiniteSet(S)
    PROVE  SetToSeq(S) \in Seq(S) /\ Range(SetToSeq(S)) = S
<1> DEFINE n == Cardinality(S)
<1>1. n \in Nat
  BY FS_CardinalityType
<1>2. \E f \in [1 .. n -> S] : IsInjective(f)
  <2>1. ExistsBijection(1 .. n, S)
    BY FS_CardinalityType
  <2> QED  BY <2>1 DEF ExistsBijection, Bijection, Injection, IsInjective
<1>3. SetToSeq(S) \in [1 .. n -> S] /\ IsInjective(SetToSeq(S))
  <2> HIDE DEF n
  <2>1. (CHOOSE f \in [1 .. n -> S] : IsInjective(f)) \in [1 .. n -> S]
        /\ IsInjective(CHOOSE f \in [1 .. n -> S] : IsInjective(f))
    BY <1>2
  <2> QED  BY <2>1 DEF SetToSeq, n
<1> DEFINE f == SetToSeq(S)
<1>4. f \in Injection(1 .. n, S)
  BY <1>3 DEF Injection, IsInjective
<1>5. Cardinality(1 .. n) = n
  <2> HIDE DEF n
  <2> QED  BY <1>1, FS_Interval
<1> HIDE DEF f
<1>6. f \in Surjection(1 .. n, S)
  BY <1>4, <1>5, FS_Injection
<1>7. Range(f) = S
  BY <1>6 DEF Surjection, Range
<1> HIDE DEF n
<1> QED  BY <1>1, <1>3, <1>7 DEF f
-----------------------------------------------------------------------------
(* What can be reached: f[n] is what is reached from S in n steps, where   *)
(* a[i] is what follows i.                                                 *)
Spreads(f, k, S, a) ==
    f[0] = S /\ \A n \in 1 .. k : f[n] = f[n - 1] \union UNION {a[i] : i \in f[n - 1]}

(* Nothing in a set is followed by what is not.                            *)
ClosedUnder(C, V, a) == \A i \in C \cap V : a[i] \subseteq C

(* There is such a sequence of sets.                                       *)
LEMMA SpreadExists ==
    ASSUME NEW V, NEW S \in SUBSET V, NEW a \in [V -> SUBSET V], NEW k \in Nat
    PROVE  \E f \in [0 .. k -> SUBSET V] : Spreads(f, k, S, a)
<1> DEFINE W    == SUBSET V
           Step == [q \in W \X (1 .. k) |-> q[1] \union UNION {a[i] : i \in q[1]}]
<1>1. \A x \in W, n \in 1 .. k : /\ Step[<<x, n>>] = x \union UNION {a[i] : i \in x}
                                  /\ x \union UNION {a[i] : i \in x} \in W
  OBVIOUS
<1>2. Step \in [W \X (1 .. k) -> W]
  BY <1>1
<1>3. S \in W
  OBVIOUS
<1> HIDE DEF W, Step
<1>4. PICK f \in [0 .. k -> W] : Follows(f, k, S, Step)
  BY <1>2, <1>3, StepsExist
<1>5. \A n \in 1 .. k : f[n] = f[n - 1] \union UNION {a[i] : i \in f[n - 1]}
  <2> TAKE n \in 1 .. k
  <2>1. n - 1 \in 0 .. k /\ f[n - 1] \in W /\ f[n] = Step[<<f[n - 1], n>>]
    BY <1>4 DEF Follows
  <2> QED  BY <1>1, <2>1
<1>6. f[0] = S
  BY <1>4 DEF Follows
<1> QED  BY <1>4, <1>5, <1>6 DEF Spreads, W

(* In a finite set, as many steps as it has members reach a closed set.    *)
LEMMA SpreadCloses ==
    ASSUME NEW V, IsFiniteSet(V), NEW S \in SUBSET V, NEW a \in [V -> SUBSET V],
           NEW f, Spreads(f, Cardinality(V), S, a)
    PROVE  LET R == f[Cardinality(V)]
           IN  R \in SUBSET V /\ S \subseteq R /\ \A i \in R : a[i] \subseteq R
<1> DEFINE k == Cardinality(V)
           Closed(x) == \A i \in x : a[i] \subseteq x
           P == {n \in 0 .. k : /\ f[n] \in SUBSET V /\ S \subseteq f[n]
                                /\ Closed(f[n]) \/ Cardinality(f[n]) >= n}
<1>1. k \in Nat /\ \A T \in SUBSET V : IsFiniteSet(T) /\ Cardinality(T) \in Nat
  BY FS_CardinalityType, FS_Subset
<1>2. /\ f[0] = S
      /\ \A n \in 1 .. k : f[n] = f[n - 1] \union UNION {a[i] : i \in f[n - 1]}
  BY DEF Spreads
<1> HIDE DEF k
<1>3. 0 \in P
  BY <1>1, <1>2
<1>4. ASSUME NEW n \in 1 .. k, n - 1 \in P  PROVE n \in P
  <2> DEFINE x == f[n - 1]  y == f[n]
  <2>1. /\ n \in 0 .. k /\ x \in SUBSET V /\ S \subseteq x
        /\ Closed(x) \/ Cardinality(x) >= n - 1
    BY <1>1, <1>4
  <2>2. y = x \union UNION {a[i] : i \in x}
    BY <1>2
  <2> HIDE DEF x, y
  <2>3. y \in SUBSET V /\ x \subseteq y /\ S \subseteq y
    BY <2>1, <2>2
  <2>4. CASE Closed(x)
    <3>1. y = x
      BY <2>2, <2>4
    <3> QED  BY <2>1, <2>3, <2>4, <3>1 DEF y
  <2>5. CASE ~Closed(x)
    <3>1. y # x
      BY <2>2, <2>5
    <3>2. Cardinality(x) <= Cardinality(y) /\ Cardinality(x) # Cardinality(y)
      BY <1>1, <2>3, <3>1, FS_Subset
    <3>3. Cardinality(x) \in Nat /\ Cardinality(y) \in Nat
      BY <1>1, <2>1, <2>3
    <3>4. Cardinality(y) >= n
      BY <2>1, <2>5, <3>2, <3>3
    <3> QED  BY <2>1, <2>3, <3>4 DEF y
  <2> QED  BY <2>4, <2>5
<1>5. k \in P
  <2> HIDE DEF P
  <2>1. 0 .. k \subseteq P
    BY <1>1, <1>3, <1>4, Along
  <2> QED  BY <1>1, <2>1
<1>6. f[k] \in SUBSET V /\ S \subseteq f[k] /\ Closed(f[k])
  <2>1. CASE Cardinality(f[k]) >= k
    <3>1. f[k] \in SUBSET V /\ Cardinality(f[k]) <= Cardinality(V) /\ Cardinality(f[k]) \in Nat
      BY <1>1, <1>5, FS_Subset
    <3>2. f[k] = V
      BY <1>1, <2>1, <3>1, FS_Subset DEF k
    <3> QED  BY <1>5, <3>2
  <2> QED  BY <1>5, <2>1
<1> QED  BY <1>6 DEF k

(* No step leaves a closed set.                                            *)
LEMMA SpreadIsLeast ==
    ASSUME NEW V, NEW S \in SUBSET V, NEW a \in [V -> SUBSET V], NEW k \in Nat,
           NEW f, Spreads(f, k, S, a),
           NEW C, S \subseteq C, ClosedUnder(C, V, a)
    PROVE  f[k] \subseteq C
<1> DEFINE Q == {n \in 0 .. k : f[n] \subseteq C /\ f[n] \subseteq V}
<1>1. /\ f[0] = S
      /\ \A n \in 1 .. k : f[n] = f[n - 1] \union UNION {a[i] : i \in f[n - 1]}
  BY DEF Spreads
<1>2. 0 \in Q
  BY <1>1
<1>3. ASSUME NEW n \in 1 .. k, n - 1 \in Q  PROVE n \in Q
  BY <1>1, <1>3 DEF ClosedUnder
<1>4. k \in Q
  <2> HIDE DEF Q
  <2>1. 0 .. k \subseteq Q
    BY <1>2, <1>3, Along
  <2> QED  BY <2>1
<1> QED  BY <1>4

(* What is reachable is what was there first, and all that a member of it  *)
(* leads to, and no more than this takes.                                  *)
LEMMA ReachableIs ==
    ASSUME NEW V, IsFiniteSet(V), NEW S \in SUBSET V, NEW to \in [V -> SUBSET V]
    PROVE  LET R == Reachable(S, to)
           IN  /\ R \in SUBSET V /\ S \subseteq R
               /\ \A i \in R : to[i] \subseteq R
               /\ \A C : S \subseteq C /\ (\A i \in C \cap V : to[i] \subseteq C) => R \subseteq C
<1> DEFINE k == Cardinality(V)
           Solves(f) == f = [n \in 0 .. k |->
                                IF n = 0 THEN S ELSE f[n - 1] \union UNION {to[i] : i \in f[n - 1]}]
           seen == CHOOSE f : Solves(f)
<1>1. k \in Nat /\ DOMAIN to = V
  BY FS_CardinalityType
<1>2. Reachable(S, to) = seen[k]
  BY <1>1 DEF Reachable
<1> HIDE DEF k
<1>3. Solves(seen)
  <2>1. PICK f \in [0 .. k -> SUBSET V] : Spreads(f, k, S, to)
    BY <1>1, SpreadExists
  <2>2. \A n \in 0 .. k : f[n] = IF n = 0 THEN S
                                  ELSE f[n - 1] \union UNION {to[i] : i \in f[n - 1]}
    <3> TAKE n \in 0 .. k
    <3>1. CASE n = 0
      BY <2>1, <3>1 DEF Spreads
    <3>2. CASE n # 0
      <4>1. n \in 1 .. k
        BY <1>1, <3>2
      <4> QED  BY <2>1, <3>2, <4>1 DEF Spreads
    <3> QED  BY <3>1, <3>2
  <2>3. f = [n \in 0 .. k |-> f[n]]
    OBVIOUS
  <2>4. Solves(f)
    BY <2>2, <2>3
  <2> HIDE DEF Solves
  <2> QED  BY <2>4
<1> HIDE DEF seen
<1>4. Spreads(seen, k, S, to)
  <2>1. \A n \in 0 .. k : seen[n] = IF n = 0 THEN S
                                     ELSE seen[n - 1] \union UNION {to[i] : i \in seen[n - 1]}
    BY <1>3
  <2>2. 0 \in 0 .. k /\ \A n \in 1 .. k : n \in 0 .. k /\ n # 0
    BY <1>1
  <2> QED  BY <2>1, <2>2 DEF Spreads
<1> DEFINE R == seen[k]
<1>5. R = seen[Cardinality(V)] /\ Spreads(seen, Cardinality(V), S, to)
  BY <1>4 DEF k
<1>6. R \in SUBSET V /\ S \subseteq R /\ \A i \in R : to[i] \subseteq R
  BY <1>5, SpreadCloses
<1>7. ASSUME NEW C, S \subseteq C, \A i \in C \cap V : to[i] \subseteq C  PROVE R \subseteq C
  <2>1. ClosedUnder(C, V, to)
    BY <1>7 DEF ClosedUnder
  <2> QED  BY <1>1, <1>4, <1>7, <2>1, SpreadIsLeast
<1> QED  BY <1>2, <1>6, <1>7 DEF R
-----------------------------------------------------------------------------
(* h is what has been collected after each member of the list.             *)
Collects(h, list, yields) ==
    /\ h[0] = << >>
    /\ \A i \in 1 .. Len(list) : h[i] = h[i - 1] \o yields[list[i]]
    /\ h[Len(list)] = Collect(list, yields)

LEMMA CollectSteps ==
    ASSUME NEW V, NEW list \in Seq(V), NEW W, NEW yields \in [V -> Seq(W)]
    PROVE  \E h : Collects(h, list, yields)
<1> DEFINE n         == Len(list)
           Op(v, x)  == v \o yields[x]
           Solves(g) == g = [t \in SUBSET DOMAIN list |->
                                IF t = {} THEN << >>
                                ELSE Op(g[t \ {Max(t)}], list[Max(t)])]
           G         == CHOOSE g : Solves(g)
<1>0. n \in Nat /\ DOMAIN list = 1 .. n
  OBVIOUS
<1>1. Collect(list, yields) = G[DOMAIN list]
  BY DEF Collect, FoldLeft, MapThenFoldSet
<1> HIDE DEF n
<1>2. \E g : Solves(g)
  <2> DEFINE Step == [x \in Seq(W) \X (1 .. n) |-> Op(x[1], list[x[2]])]
  <2>1. Step \in [Seq(W) \X (1 .. n) -> Seq(W)] /\ << >> \in Seq(W)
    <3>1. ASSUME NEW v \in Seq(W), NEW i \in 1 .. n  PROVE Op(v, list[i]) \in Seq(W)
      <4>1. list[i] \in V
        BY <1>0, ElementOfSeq
      <4> QED  BY <4>1
    <3> QED  BY <3>1
  <2> HIDE DEF Step
  <2>2. PICK g \in [SUBSET (1 .. n) -> Seq(W)] : Folds(g, n, << >>, Step)
    BY <1>0, <2>1, FoldExists
  <2>3. ASSUME NEW t \in SUBSET (1 .. n), t # {}
        PROVE  Step[<<g[t \ {Max(t)}], Max(t)>>] = Op(g[t \ {Max(t)}], list[Max(t)])
    <3>1. g[t \ {Max(t)}] \in Seq(W) /\ Max(t) \in 1 .. n
      BY <1>0, <2>3, MaxOfInterval
    <3> QED  BY <3>1 DEF Step
  <2>4. \A t \in SUBSET (1 .. n) :
            g[t] = IF t = {} THEN << >> ELSE Op(g[t \ {Max(t)}], list[Max(t)])
    BY <2>2, <2>3 DEF Folds
  <2>5. Solves(g)
    BY Zenon, <1>0, <2>4
  <2> HIDE DEF Solves
  <2> QED  BY <2>5
<1>3. Solves(G)
  BY Zenon, <1>2
<1> HIDE DEF G
<1> DEFINE h == [i \in 0 .. n |-> G[1 .. i]]
<1>4. h[0] = << >> /\ h[n] = Collect(list, yields)
  BY <1>0, <1>1, <1>3
<1>5. ASSUME NEW i \in 1 .. n  PROVE h[i] = Op(h[i - 1], list[i])
  <2>1. i \in Nat \ {0} /\ 1 .. i \in SUBSET (1 .. n) /\ i - 1 \in 0 .. n
    BY <1>0
  <2>2. 1 .. i # {} /\ Max(1 .. i) = i /\ (1 .. i) \ {Max(1 .. i)} = 1 .. i - 1
    BY <2>1, MaxOfPrefix
  <2>3. G[1 .. i] = Op(G[(1 .. i) \ {Max(1 .. i)}], list[Max(1 .. i)])
    BY <1>0, <1>3, <2>1, <2>2
  <2>4. G[1 .. i] = Op(G[1 .. i - 1], list[i])
    BY <2>2, <2>3
  <2>5. h[i] = G[1 .. i] /\ h[i - 1] = G[1 .. i - 1]
    BY <2>1, <1>0
  <2> HIDE DEF h
  <2> QED  BY Zenon, <2>4, <2>5
<1>6. Collects(h, list, yields)
  <2> HIDE DEF h
  <2> QED  BY <1>4, <1>5 DEF n, Collects
<1> QED  BY <1>6

(* Collect returns what the members of the list yield, and no more.        *)
LEMMA CollectMembers ==
    ASSUME NEW V, NEW list \in Seq(V), NEW W, NEW yields \in [V -> Seq(W)]
    PROVE  /\ Collect(list, yields) \in Seq(W)
           /\ Range(Collect(list, yields)) = UNION {Range(yields[x]) : x \in Range(list)}
<1> DEFINE n == Len(list)
           Before(i) == UNION {Range(yields[list[j]]) : j \in 1 .. i}
<1>1. PICK h : Collects(h, list, yields)
  BY CollectSteps
<1>0. n \in Nat /\ DOMAIN list = 1 .. n /\ \A i \in 1 .. n : list[i] \in V
  BY ElementOfSeq
<1> DEFINE P == {i \in 0 .. n : h[i] \in Seq(W) /\ Range(h[i]) = Before(i)}
<1>6. /\ h[0] = << >> /\ h[n] = Collect(list, yields)
      /\ \A i \in 1 .. n : h[i] = h[i - 1] \o yields[list[i]]
  BY <1>1 DEF Collects
<1> HIDE DEF n
<1>2. 0 \in P
  <2>1. h[0] \in Seq(W) /\ Range(h[0]) = {} /\ Before(0) = {}
    BY <1>6 DEF Range
  <2> QED  BY <1>0, <2>1
<1>3. ASSUME NEW i \in 1 .. n, i - 1 \in P  PROVE i \in P
  <2>1. h[i - 1] \in Seq(W) /\ Range(h[i - 1]) = Before(i - 1) /\ i \in 0 .. n
    BY <1>0, <1>3
  <2>2. Before(i) = Before(i - 1) \union Range(yields[list[i]])
    <3>1. 1 .. i = (1 .. i - 1) \union {i}
      BY <1>0
    <3> QED  BY <3>1
  <2>3. yields[list[i]] \in Seq(W) /\ h[i] = h[i - 1] \o yields[list[i]]
    BY <1>0, <1>6
  <2> DEFINE a == h[i - 1]  b == yields[list[i]]
  <2>4. a \in Seq(W) /\ b \in Seq(W)
    BY <2>1, <2>3
  <2>5. Range(h[i]) = Range(a) \union Range(b) /\ h[i] \in Seq(W)
    <3> HIDE DEF a, b
    <3>1. a \o b \in Seq(W) /\ Range(a \o b) = Range(a) \union Range(b)
      BY <2>4, RangeConcatenation, ConcatProperties
    <3> QED  BY <2>3, <3>1 DEF a, b
  <2> HIDE DEF Before
  <2> QED  BY <2>1, <2>2, <2>5
<1>4. n \in P
  <2> HIDE DEF P
  <2>1. 0 .. n \subseteq P
    BY <1>0, <1>2, <1>3, Along
  <2> QED  BY <1>0, <2>1
<1>5. Before(n) = UNION {Range(yields[x]) : x \in Range(list)}
  <2>1. Range(list) = {list[j] : j \in 1 .. n}
    BY <1>0 DEF Range
  <2> QED  BY <2>1
<1> QED  BY <1>4, <1>5, <1>6

(* The members of S yield one value each, and the others none.             *)
OfSome(list, S, of) == [x \in Range(list) |-> IF x \in S THEN <<of[x]>> ELSE << >>]

(* When some members of a list yield one value each, and the others none,  *)
(* Collect returns these values.                                           *)
LEMMA CollectOfSome ==
    ASSUME NEW V, NEW list \in Seq(V), NEW S \in SUBSET Range(list), NEW of
    PROVE  LET all == Collect(list, OfSome(list, S, of))
           IN  all \in Seq({of[x] : x \in S}) /\ Range(all) = {of[x] : x \in S}
<1> DEFINE R == Range(list)
           Q == {of[x] : x \in S}
           yields == OfSome(list, S, of)
<1>1. list \in Seq(R) /\ S \subseteq R
  BY DEF Range
<1>2. \A x \in R : yields[x] = IF x \in S THEN <<of[x]>> ELSE << >>
  BY DEF OfSome
<1>3. yields = [x \in R |-> yields[x]] /\ \A x \in S : of[x] \in Q
  BY DEF OfSome
<1> HIDE DEF R, Q, yields
<1>4. \A x \in R : yields[x] \in Seq(Q)
  <2>1. << >> \in Seq(Q) /\ \A c \in Q : <<c>> \in Seq(Q)
    OBVIOUS
  <2> QED  BY <1>2, <1>3, <2>1
<1>5. yields \in [R -> Seq(Q)]
  BY <1>3, <1>4
<1>6. /\ Collect(list, yields) \in Seq(Q)
      /\ Range(Collect(list, yields)) = UNION {Range(yields[x]) : x \in Range(list)}
  BY <1>1, <1>5, CollectMembers
<1>7. \A x \in R : Range(yields[x]) = {of[y] : y \in S \cap {x}}
  <2> TAKE x \in R
  <2>1. Range(<<of[x]>>) = {of[x]} /\ Range(<< >>) = {}
    BY DEF Range
  <2> QED  BY <1>2, <2>1
<1>8. UNION {Range(yields[x]) : x \in R} = Q
  <2>1. ASSUME NEW c \in Q  PROVE \E x \in R : c \in Range(yields[x])
    <3>1. PICK x \in S : c = of[x]
      BY DEF Q
    <3>2. x \in R /\ Range(yields[x]) = {of[y] : y \in S \cap {x}}
      BY <1>1, <1>7
    <3> QED  BY <3>1, <3>2
  <2>2. ASSUME NEW x \in R, NEW c \in Range(yields[x])  PROVE c \in Q
    BY <1>3, <1>7
  <2> QED  BY <2>1, <2>2
<1> QED  BY <1>6, <1>8 DEF R, Q, yields

(* What FlattenSeq makes of the first lists, for each number of them.      *)
Flattens(h, seqs) ==
    /\ h[0] = << >>
    /\ \A i \in 1 .. Len(seqs) : h[i] = h[i - 1] \o seqs[i]
    /\ h[Len(seqs)] = FlattenSeq(seqs)

(* There are such lists.                                                   *)
LEMMA FlattenSteps ==
    ASSUME NEW W, NEW n \in Nat, NEW seqs \in [1 .. n -> Seq(W)]
    PROVE  \E h \in [0 .. n -> Seq(W)] : Flattens(h, seqs)
<1> DEFINE Step      == [x \in Seq(W) \X (1 .. n) |-> x[1] \o seqs[x[2]]]
           Solves(f) == f = [i \in 1 .. Len(seqs) |-> IF i = 1 THEN seqs[i] ELSE f[i - 1] \o seqs[i]]
           F         == CHOOSE f : Solves(f)
<1>0. Len(seqs) = n
  OBVIOUS
<1>1. FlattenSeq(seqs) = IF Len(seqs) = 0 THEN seqs ELSE F[Len(seqs)]
  BY DEF FlattenSeq
<1>2. << >> \in Seq(W) /\ Step \in [Seq(W) \X (1 .. n) -> Seq(W)]
  OBVIOUS
<1>s. \A v \in Seq(W), i \in 1 .. n : Step[<<v, i>>] = v \o seqs[i]
  OBVIOUS
<1> HIDE DEF Step
<1>3. PICK h \in [0 .. n -> Seq(W)] : Follows(h, n, << >>, Step)
  BY <1>2, StepsExist
<1>4. h[0] = << >> /\ \A i \in 1 .. n : h[i] = h[i - 1] \o seqs[i]
  <2>1. \A i \in 1 .. n : h[i - 1] \in Seq(W)
    OBVIOUS
  <2> QED  BY <1>3, <1>s, <2>1 DEF Follows
<1>f. 1 \in 1 .. n => h[0] = << >> /\ seqs[1] \in Seq(W) /\ h[1] = h[0] \o seqs[1]
  <2>1. 1 - 1 = 0
    OBVIOUS
  <2> QED  BY <1>4, <2>1
<1>5. CASE n = 0
  <2>1. seqs = << >>
    BY <1>5
  <2> QED  BY <1>0, <1>1, <1>4, <1>5, <2>1 DEF Flattens
<1>6. CASE n # 0
  <2>1. \E f : Solves(f)
    <3> DEFINE f == [i \in 1 .. n |-> h[i]]
    <3>1. \A i \in 1 .. n : f[i] = IF i = 1 THEN seqs[i] ELSE f[i - 1] \o seqs[i]
      <4> TAKE i \in 1 .. n
      <4>1. CASE i = 1
        <5>1. h[0] = << >> /\ seqs[1] \in Seq(W) /\ h[1] = h[0] \o seqs[1]
          BY <1>f, <4>1
        <5>2. << >> \o seqs[1] = seqs[1]
          BY <5>1, ConcatEmptySeq
        <5> QED  BY <4>1, <5>1, <5>2
      <4>2. CASE i # 1
        <5>1. f[i] = h[i] /\ f[i - 1] = h[i - 1]
          BY <4>2
        <5>2. h[i] = h[i - 1] \o seqs[i]
          BY <1>4
        <5> HIDE DEF f
        <5> QED  BY <4>2, <5>1, <5>2
      <4> QED  BY <4>1, <4>2
    <3>2. Solves(f)
      BY <1>0, <3>1
    <3> HIDE DEF Solves
    <3> QED  BY <3>2
  <2>2. Solves(F)
    BY <2>1
  <2> HIDE DEF F
  <2>3. F = [i \in 1 .. n |-> IF i = 1 THEN seqs[i] ELSE F[i - 1] \o seqs[i]]
    BY <1>0, <2>2
  <2> HIDE DEF Solves
  <2> DEFINE P == {i \in 0 .. n : i # 0 => F[i] = h[i]}
  <2>4. 0 \in P
    OBVIOUS
  <2>5. ASSUME NEW i \in 1 .. n, i - 1 \in P  PROVE i \in P
    <3>1. CASE i = 1
      <4>1. h[0] = << >> /\ seqs[1] \in Seq(W) /\ h[1] = h[0] \o seqs[1] /\ F[1] = seqs[1]
        BY <1>f, <2>3, <3>1
      <4>2. << >> \o seqs[1] = seqs[1]
        BY <4>1, ConcatEmptySeq
      <4> QED  BY <3>1, <4>1, <4>2
    <3>2. CASE i # 1
      <4>1. h[i] = h[i - 1] \o seqs[i] /\ F[i] = F[i - 1] \o seqs[i]
        BY <1>4, <2>3, <3>2
      <4>2. F[i - 1] = h[i - 1]
        BY <2>5, <3>2
      <4>3. F[i] = h[i]
        BY Zenon, <4>1, <4>2
      <4>4. i \in 0 .. n
        OBVIOUS
      <4> QED  BY <4>3, <4>4
    <3> QED  BY <3>1, <3>2
  <2>6. n \in P
    <3> HIDE DEF P
    <3>1. 0 .. n \subseteq P
      BY <2>4, <2>5, Along
    <3> QED  BY <3>1
  <2>7. F[n] = h[n]
    BY <1>6, <2>6
  <2> QED  BY <1>0, <1>1, <1>4, <1>6, <2>7 DEF Flattens
<1> QED  BY <1>5, <1>6

(* Two members, one after the other.                                       *)
LEMMA ConcatTwo == ASSUME NEW a, NEW b PROVE <<a>> \o <<b>> = <<a, b>>
<1> DEFINE V == {a, b}  x == <<a>>  y == <<b>>  z == <<a, b>>  w == x \o y
<1>1. x \in Seq(V) /\ y \in Seq(V) /\ z \in Seq(V) /\ Len(x) = 1 /\ Len(y) = 1 /\ Len(z) = 2
      /\ x[1] = a /\ y[1] = b /\ z[1] = a /\ z[2] = b
  OBVIOUS
<1> HIDE DEF x, y, z, V
<1>2. /\ w \in Seq(V) /\ Len(w) = 2
      /\ \A n \in 1 .. 2 : w[n] = IF n <= 1 THEN x[n] ELSE y[n - 1]
  BY <1>1, ConcatProperties
<1> HIDE DEF w
<1>3. \A n \in 1 .. 2 : w[n] = z[n]
  <2>1. w[1] = z[1] /\ w[2] = z[2]
    BY <1>1, <1>2
  <2> QED  BY <2>1
<1>4. w = z
  BY <1>1, <1>2, <1>3, SeqEqual
<1> QED  BY <1>4 DEF x, y, z, w

(* Three members, one and the others.                                     *)
LEMMA ConcatThree == ASSUME NEW a, NEW b, NEW c PROVE <<a>> \o <<b, c>> = <<a, b, c>>
<1> DEFINE V == {a, b, c}  x == <<a>>  y == <<b, c>>  z == <<a, b, c>>  w == x \o y
<1>1. x \in Seq(V) /\ y \in Seq(V) /\ z \in Seq(V) /\ Len(x) = 1 /\ Len(y) = 2 /\ Len(z) = 3
      /\ x[1] = a /\ y[1] = b /\ y[2] = c /\ z[1] = a /\ z[2] = b /\ z[3] = c
  OBVIOUS
<1> HIDE DEF x, y, z, V
<1>2. /\ w \in Seq(V) /\ Len(w) = Len(x) + Len(y)
      /\ \A n \in 1 .. Len(x) + Len(y) : w[n] = IF n <= Len(x) THEN x[n] ELSE y[n - Len(x)]
  BY <1>1, ConcatProperties
<1> HIDE DEF w
<1>3. \A n \in 1 .. 3 : w[n] = z[n]
  <2>1. w[1] = z[1] /\ w[2] = z[2] /\ w[3] = z[3]
    BY <1>1, <1>2
  <2> QED  BY <2>1
<1>4. w = z
  BY <1>1, <1>2, <1>3, SeqEqual
<1> QED  BY <1>4 DEF x, y, z, w
=============================================================================
