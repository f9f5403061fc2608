-------------------------- MODULE CJsonItemsProofs --------------------------
(***************************************************************************)
(* What holds of cJSON's trees of items after every sequence of calls, of  *)
(* any length, with any number of items, names, references and members:    *)
(* pointers lead to items that exist, lists read the same both ways, no    *)
(* copy of a name is lost or freed twice, and the lists are the trees that *)
(* the calls promised.                                                     *)
(*                                                                         *)
(* ItemsRight says how heap and trees correspond.  There is a lemma for    *)
(* each operation on items: when memory m holds the trees M with the names *)
(* N (Right), it holds what is promised afterwards.  Then there is one for *)
(* each call of the program.                                               *)
(*                                                                         *)
(* The sections: lists; the list of an item; the tree of an item; joining, *)
(* leaving and replacing in a list; new, deleted and renamed items; the    *)
(* operations; looking up; copies of trees; arrays; the calls; the         *)
(* theorems.                                                               *)
(***************************************************************************)
EXTENDS CJsonItems, ListTheorems

(* The items as they may be.                                               *)
ItemRecord == [next : Pointer, prev : Pointer, child : Pointer,
               string : Name \union {NoName}, const : BOOLEAN, ref : BOOLEAN]

(* A heap of finitely many items.                                          *)
IsHeap(h) == IsFiniteSet(DOMAIN h) /\ DOMAIN h \subseteq Item /\ h \in [DOMAIN h -> ItemRecord]

(* Lists of items, each item in one place of one list at most.             *)
Forest(M) ==
    /\ \A p \in DOMAIN M : M[p] \in Seq(DOMAIN M)
    /\ \A p, q \in DOMAIN M : \A a \in DOMAIN M[p], b \in DOMAIN M[q] :
          M[p][a] = M[q][b] => p = q /\ a = b

(* Items below others have lower ranks: no item is below itself.           *)
Ranked(M, rank) ==
    /\ rank \in [DOMAIN M -> Nat]
    /\ \A p \in DOMAIN M : \A a \in DOMAIN M[p] : rank[M[p][a]] < rank[p]

(* i is a member of no item.                                               *)
IsRoot(M, i) == \A p \in DOMAIN M : \A a \in DOMAIN M[p] : M[p][a] # i

(* Lists of members that make trees.                                       *)
Trees(M) ==
    /\ M = [p \in DOMAIN M |-> M[p]]
    /\ Forest(M)
    /\ \E rank : Ranked(M, rank)

(* The pointers of an item at a place of a list.                           *)
First(l)     == IF l = << >> THEN NULL ELSE l[1]
After(l, n)  == IF n = Len(l) THEN NULL ELSE l[n + 1]
Before(l, n) == IF n = 1 THEN NULL ELSE l[n - 1]

(* The heap has the lists of the trees, and what is in no list points to   *)
(* no other.                                                               *)
Linked(h, M) ==
    /\ \A p \in DOMAIN h : IF h[p].ref THEN M[p] = << >> ELSE h[p].child = First(M[p])
    /\ \A p \in DOMAIN h : \A n \in DOMAIN M[p] :
          h[M[p][n]].next = After(M[p], n) /\ h[M[p][n]].prev = Before(M[p], n)
    /\ \A i \in DOMAIN h : IsRoot(M, i) => h[i].next = NULL /\ h[i].prev = NULL

(* The heap holds the trees.                                               *)
Good(h, M) == IsHeap(h) /\ DOMAIN M = DOMAIN h /\ Trees(M) /\ Linked(h, M)

(* The items that own a copy of a name.                                    *)
Owners(h) == {i \in DOMAIN h : OwnsName(h[i])}

(* The items have these names, and there is a copy for each that owns one. *)
NamesRight(h, c, N) == N = [i \in DOMAIN h |-> h[i].string] /\ c = Cardinality(Owners(h))

(* The invariant: the heap holds the trees and the names that the calls    *)
(* promised, and nothing else is allocated.                                *)
ItemsRight == Good(heap, members) /\ NamesRight(heap, copies, name)
-----------------------------------------------------------------------------
(* Lists.                                                                  *)

(* Elements of a list.                                                     *)
LEMMA Elements ==
    ASSUME NEW V, NEW l \in Seq(V)
    PROVE  Len(l) \in Nat /\ DOMAIN l = 1 .. Len(l) /\ \A n \in 1 .. Len(l) : l[n] \in V
BY ElementOfSeq

(* r is l with i in place k.                                               *)
Longer(l, k, i, r) ==
    /\ Len(r) = Len(l) + 1 /\ r[k] = i
    /\ \A n \in 1 .. k - 1 : r[n] = l[n]
    /\ \A n \in k + 1 .. Len(l) + 1 : r[n] = l[n - 1]

(* r is l without its member in place k.                                   *)
Shorter(l, k, r) ==
    /\ Len(r) = Len(l) - 1
    /\ \A n \in 1 .. k - 1 : r[n] = l[n]
    /\ \A n \in k .. Len(l) - 1 : r[n] = l[n + 1]

(* What InsertAt makes.                                                    *)
LEMMA Inserted ==
    ASSUME NEW V, NEW l \in Seq(V), NEW i \in V, NEW k \in 1 .. Len(l) + 1
    PROVE  InsertAt(l, k, i) \in Seq(V) /\ Longer(l, k, i, InsertAt(l, k, i))
<1> DEFINE a == SubSeq(l, 1, k - 1)
           b == SubSeq(l, k, Len(l))
           m == Len(l)
           r == InsertAt(l, k, i)
<1>0. m \in Nat /\ k \in Nat /\ k >= 1 /\ k <= m + 1
  OBVIOUS
<1>1. /\ a \in Seq(V) /\ Len(a) = k - 1 /\ \A n \in 1 .. k - 1 : a[n] = l[n]
  BY <1>0, SubSeqProperties
<1>2. /\ b \in Seq(V) /\ Len(b) = m - k + 1 /\ \A n \in 1 .. m - k + 1 : b[n] = l[k + n - 1]
  BY <1>0, SubSeqProperties
<1>3. r = (a \o <<i>>) \o b
  BY DEF InsertAt
<1> HIDE DEF a, b, m, r
<1> DEFINE ai == a \o <<i>>
<1>4. /\ ai \in Seq(V) /\ Len(ai) = k /\ ai[k] = i /\ \A n \in 1 .. k - 1 : ai[n] = a[n]
  BY <1>0, <1>1
<1> HIDE DEF ai
<1>5. /\ ai \o b \in Seq(V) /\ Len(ai \o b) = m + 1
      /\ \A n \in 1 .. k : (ai \o b)[n] = ai[n]
      /\ \A n \in k + 1 .. m + 1 : (ai \o b)[n] = b[n - k]
  BY <1>0, <1>2, <1>4
<1>6. \A n \in k + 1 .. m + 1 : n - k \in 1 .. m - k + 1 /\ k + (n - k) - 1 = n - 1
  BY <1>0
<1>7. \A n \in k + 1 .. m + 1 : (ai \o b)[n] = l[n - 1]
  BY <1>2, <1>5, <1>6
<1>8. \A n \in 1 .. k - 1 : n \in 1 .. k /\ (ai \o b)[n] = l[n]
  BY <1>0, <1>1, <1>4, <1>5
<1>9. r = ai \o b
  BY <1>3 DEF ai
<1> QED  BY <1>0, <1>4, <1>5, <1>7, <1>8, <1>9 DEF r, m, Longer

(* What RemoveAt makes.                                                    *)
LEMMA Removed ==
    ASSUME NEW V, NEW l \in Seq(V), NEW k \in 1 .. Len(l)
    PROVE  RemoveAt(l, k) \in Seq(V) /\ Shorter(l, k, RemoveAt(l, k))
<1> DEFINE a == SubSeq(l, 1, k - 1)
           b == SubSeq(l, k + 1, Len(l))
           m == Len(l)
           r == RemoveAt(l, k)
<1>0. m \in Nat /\ k \in Nat /\ k >= 1 /\ k <= m
  OBVIOUS
<1>1. /\ a \in Seq(V) /\ Len(a) = k - 1 /\ \A n \in 1 .. k - 1 : a[n] = l[n]
  BY <1>0, SubSeqProperties
<1>2. /\ b \in Seq(V) /\ Len(b) = m - k /\ \A n \in 1 .. m - k : b[n] = l[k + n]
  BY <1>0, SubSeqProperties
<1>3. r = a \o b
  BY DEF RemoveAt
<1> HIDE DEF a, b, m, r
<1>4. /\ a \o b \in Seq(V) /\ Len(a \o b) = m - 1
      /\ \A n \in 1 .. k - 1 : (a \o b)[n] = a[n]
      /\ \A n \in k .. m - 1 : (a \o b)[n] = b[n - k + 1]
  <2>1. /\ a \o b \in Seq(V) /\ Len(a \o b) = Len(a) + Len(b)
        /\ \A n \in 1 .. Len(a) + Len(b) : (a \o b)[n] =
                     IF n <= Len(a) THEN a[n] ELSE b[n - Len(a)]
    BY <1>1, <1>2, ConcatProperties
  <2> DEFINE ab == a \o b
  <2> HIDE DEF ab
  <2>2. /\ ab \in Seq(V) /\ Len(ab) = m - 1
        /\ \A n \in 1 .. m - 1 : ab[n] = IF n <= k - 1 THEN a[n] ELSE b[n - k + 1]
    <3>1. Len(a) + Len(b) = m - 1
      BY <1>0, <1>1, <1>2
    <3>2. \A n \in Int : n - (k - 1) = n - k + 1
      BY <1>0
    <3> QED  BY <1>0, <1>1, <2>1, <3>1, <3>2 DEF ab
  <2> QED  BY <1>0, <2>2 DEF ab
<1>5. \A n \in k .. m - 1 : n - k + 1 \in 1 .. m - k /\ k + (n - k + 1) = n + 1
  BY <1>0
<1>6. \A n \in k .. m - 1 : (a \o b)[n] = l[n + 1]
  BY <1>2, <1>4, <1>5
<1>7. \A n \in 1 .. k - 1 : (a \o b)[n] = l[n]
  BY <1>1, <1>4
<1> QED  BY <1>3, <1>4, <1>6, <1>7 DEF r, m, Shorter
-----------------------------------------------------------------------------
(* The list of an item is the one that it should be.                       *)
LEMMA ListIs ==
    ASSUME NEW h, NEW M, Good(h, M), NEW p \in DOMAIN h, ~h[p].ref
    PROVE  List(h, p) = M[p]
<1> DEFINE l         == M[p]
           n         == Len(l)
           k         == Cardinality(DOMAIN h)
           Prefix(j) == [x \in 1 .. j |-> l[x]]
           Grow(s)   == LET next == IF s = << >> THEN h[p].child ELSE h[Last(s)].next
                        IN  IF next = NULL THEN s ELSE Append(s, next)
           Solves(g) == g = [j \in 0 .. k |-> IF j = 0 THEN << >> ELSE Grow(g[j - 1])]
           G         == CHOOSE g : Solves(g)
           m(j)      == IF j <= n THEN j ELSE n
<1>1. /\ l \in Seq(DOMAIN h) /\ DOMAIN l = 1 .. n /\ n \in Nat /\ k \in Nat
      /\ h[p].child = First(l)
      /\ \A x \in 1 .. n : l[x] \in DOMAIN h /\ l[x] # NULL /\ h[l[x]].next = After(l, x)
  <2>1. l \in Seq(DOMAIN h) /\ h[p].child = First(l)
    BY DEF Good, Trees, Forest, Linked
  <2>2. DOMAIN l = 1 .. n /\ n \in Nat /\ \A x \in 1 .. n : l[x] \in DOMAIN h
    <3> HIDE DEF l
    <3> QED  BY <2>1, Elements
  <2>3. k \in Nat
    BY FS_CardinalityType DEF Good, IsHeap
  <2>4. \A x \in 1 .. n : h[l[x]].next = After(l, x)
    BY <2>2 DEF Good, Linked
  <2>5. \A x \in 1 .. n : l[x] # NULL
    BY <2>2, NamesOK DEF Good, IsHeap
  <2> QED  BY <2>1, <2>2, <2>3, <2>4, <2>5
<1>2. n <= k
  <2>1. l \in [1 .. n -> DOMAIN h]
    BY <1>1
  <2>2. \A a, b \in 1 .. n : l[a] = l[b] => a = b
    BY <1>1, SMTT(30) DEF Good, Trees, Forest
  <2>3. l \in Injection(1 .. n, DOMAIN h)
    <3> HIDE DEF l, n
    <3> QED  BY <2>1, <2>2 DEF Injection, IsInjective
  <2>4. IsFiniteSet(DOMAIN h) /\ Cardinality(1 .. n) = n
    <3>1. IsFiniteSet(DOMAIN h)
      BY DEF Good, IsHeap
    <3>2. n \in Nat
      BY <1>1
    <3> HIDE DEF n
    <3>3. Cardinality(1 .. n) = n
      BY <3>2, FS_Interval, SMTT(30)
    <3> QED  BY <3>1, <3>3
  <2> QED  BY <2>3, <2>4, FS_Injection
<1>3. List(h, p) = G[k]
  BY DEF List
<1> HIDE DEF l, n, k
<1>4. ASSUME NEW j \in 0 .. n
      PROVE  /\ Prefix(j) \in Seq(DOMAIN h) /\ Len(Prefix(j)) = j
             /\ j # 0 => Last(Prefix(j)) = l[j] /\ Prefix(j) = Append(Prefix(j - 1), l[j])
  <2>1. Prefix(j) \in Seq(DOMAIN h) /\ Len(Prefix(j)) = j
    BY <1>1
  <2>2. ASSUME j # 0  PROVE Last(Prefix(j)) = l[j]
    BY <1>1, <2>1, <2>2 DEF Last
  <2>3. ASSUME j # 0  PROVE Prefix(j) = Append(Prefix(j - 1), l[j])
    <3>1. Prefix(j - 1) \in Seq(DOMAIN h) /\ Len(Prefix(j - 1)) = j - 1 /\ l[j] \in DOMAIN h
      BY <1>1, <2>3
    <3> QED  BY <1>1, <2>1, <2>3, <3>1
  <2> QED  BY <2>1, <2>2, <2>3
<1>5. Prefix(0) = << >> /\ Prefix(n) = l
  BY <1>1
<1>6. ASSUME NEW j \in 0 .. n  PROVE Prefix(j) = << >> <=> j = 0
  BY <1>4, <1>5, <1>1
<1> HIDE DEF Prefix
<1>7. \A j \in 1 .. n : Grow(Prefix(j - 1)) = Prefix(j)
  <2> TAKE j \in 1 .. n
  <2>1. j \in 0 .. n /\ j - 1 \in 0 .. n /\ j # 0
    BY <1>1
  <2>2. CASE j = 1
    BY <1>1, <1>4, <1>5, <1>6, <2>1, <2>2 DEF First
  <2>3. CASE j # 1
    <3>0. j - 1 \in 1 .. n /\ j - 1 # 0
      BY <1>1, <2>3
    <3>1. Prefix(j - 1) # << >> /\ Last(Prefix(j - 1)) = l[j - 1] /\ j - 1 \in 1 .. n
      BY <1>4, <1>6, <2>1, <3>0
    <3>2. h[l[j - 1]].next = l[j]
      BY <1>1, <3>1 DEF After
    <3> QED  BY <1>1, <1>4, <2>1, <3>1, <3>2
  <2> QED  BY <2>2, <2>3
<1>8. Grow(Prefix(n)) = Prefix(n)
  <2>1. n \in 0 .. n
    BY <1>1
  <2>2. CASE n = 0
    BY <1>1, <1>5, <1>6, <2>1, <2>2 DEF First
  <2>3. CASE n # 0
    <3>1. Prefix(n) # << >> /\ Last(Prefix(n)) = l[n] /\ n \in 1 .. n
      BY <1>1, <1>4, <1>6, <2>1, <2>3
    <3>2. h[l[n]].next = NULL
      BY <1>1, <3>1 DEF After
    <3> QED  BY <3>1, <3>2
  <2> QED  BY <2>2, <2>3
<1>9. \A j \in 1 .. k : Grow(Prefix(m(j - 1))) = Prefix(m(j))
  <2> TAKE j \in 1 .. k
  <2>1. CASE j <= n
    BY <1>1, <1>7, <2>1
  <2>2. CASE ~(j <= n)
    BY <1>1, <1>8, <2>2
  <2> QED  BY <2>1, <2>2
<1> HIDE DEF Grow
<1>10. Solves(G)
  <2> DEFINE W == [j \in 0 .. k |-> Prefix(m(j))]
  <2>1. \A j \in 0 .. k : W[j] = IF j = 0 THEN << >> ELSE Grow(W[j - 1])
    BY <1>1, <1>5, <1>9
  <2>2. Solves(W)
    <3>1. W = [j \in 0 .. k |-> W[j]]
      OBVIOUS
    <3> HIDE DEF W
    <3> QED  BY <2>1, <3>1
  <2> HIDE DEF Solves, W
  <2> QED  BY <2>2
<1> HIDE DEF G
<1>11. G[0] = << >> /\ \A j \in 1 .. k : G[j] = Grow(G[j - 1])
  BY <1>1, <1>10
<1> DEFINE P == {j \in 0 .. k : G[j] = Prefix(m(j))}
<1>12. 0 .. k \subseteq P
  <2>1. 0 \in P
    BY <1>1, <1>5, <1>11
  <2>2. ASSUME NEW j \in 1 .. k, j - 1 \in P  PROVE j \in P
    BY <1>1, <1>9, <1>11, <2>2
  <2> HIDE DEF P
  <2> QED  BY <1>1, <2>1, <2>2, Along
<1>13. G[k] = Prefix(n)
  BY <1>1, <1>2, <1>12
<1> QED  BY <1>3, <1>5, <1>13 DEF l
-----------------------------------------------------------------------------
(* What is below an item.                                                  *)

(* C has the members of the items in it.                                   *)
Closed(M, C) == \A q \in C \cap DOMAIN M : \A a \in DOMAIN M[q] : M[q][a] \in C

(* The least set with an item and the members of what is in it.            *)
IsTree(M, i, T) ==
    /\ i \in T /\ T \subseteq DOMAIN M /\ Closed(M, T)
    /\ \A C : i \in C /\ Closed(M, C) => T \subseteq C

(* The tree of an item in the abstract specification is its tree.          *)
LEMMA TreeIs ==
    ASSUME Trees(members), IsFiniteSet(DOMAIN members), NEW i \in DOMAIN members
    PROVE  IsTree(members, i, Tree!Tree(i))
<1> DEFINE V  == DOMAIN members
           to == [j \in V |-> ToSet(members[j])]
           R  == Reachable({i}, to)
<1>1. Tree!Tree(i) = R
  BY DEF Tree!Tree, Tree!Items, 
         Tree!Reachable, Reachable, Tree!ToSet, ToSet, Tree!Cardinality, Cardinality
<1>2. \A j \in V : members[j] \in Seq(V) /\ to[j] = {members[j][a] : a \in DOMAIN members[j]}
  BY DEF Trees, Forest, ToSet
<1>3. \A j \in V : to[j] \in SUBSET V
  <2> TAKE j \in V
  <2>1. \A l \in Seq(V) : \A a \in DOMAIN l : l[a] \in V
    OBVIOUS
  <2> HIDE DEF to
  <2> QED  BY <1>2, <2>1
<1>4. to \in [V -> SUBSET V]
  BY <1>3
<1> HIDE DEF to, V
<1>5. /\ R \in SUBSET V /\ {i} \subseteq R
      /\ \A j \in R : to[j] \subseteq R
      /\ \A C : {i} \subseteq C /\ (\A j \in C \cap V : to[j] \subseteq C) => R \subseteq C
  <2>1. IsFiniteSet(V) /\ {i} \in SUBSET V
    BY DEF V
  <2> HIDE DEF R
  <2> QED  BY <1>4, <2>1, ReachableIs DEF R
<1> HIDE DEF R
<1>6. Closed(members, R)
  <2>1. ASSUME NEW q \in R \cap V, NEW a \in DOMAIN members[q]  PROVE members[q][a] \in R
    <3>1. members[q][a] \in to[q]
      BY <1>2
    <3> QED  BY <1>5, <3>1
  <2> QED  BY <2>1 DEF Closed, V
<1>7. ASSUME NEW C, i \in C, Closed(members, C)  PROVE R \subseteq C
  <2>1. \A j \in C \cap V : to[j] \subseteq C
    BY <1>2, <1>7 DEF Closed, V
  <2> QED  BY <1>5, <1>7, <2>1
<1> QED  BY <1>1, <1>5, <1>6, <1>7 DEF IsTree, V

(* What is below an item is a member of the item or of what is below it.   *)
LEMMA ParentInTree ==
    ASSUME NEW M, NEW i, NEW T, IsTree(M, i, T), NEW j \in T, j # i
    PROVE  \E q \in T : \E a \in DOMAIN M[q] : M[q][a] = j
<1> DEFINE C == {i} \union {k \in T : \E q \in T : \E a \in DOMAIN M[q] : M[q][a] = k}
<1>1. i \in C /\ C \subseteq T
  BY DEF IsTree
<1>2. Closed(M, C)
  BY <1>1 DEF IsTree, Closed
<1>3. T \subseteq C
  <2> HIDE DEF C
  <2> QED  BY <1>1, <1>2 DEF IsTree
<1> QED  BY <1>3

(* A tree depends only on what is in it.                                   *)
LEMMA TreeElsewhere ==
    ASSUME NEW M, NEW i, NEW T, IsTree(M, i, T), NEW M2, T \subseteq DOMAIN M2,
           \A q \in T : M2[q] = M[q]
    PROVE  IsTree(M2, i, T)
<1>1. Closed(M2, T)
  BY DEF IsTree, Closed
<1>2. ASSUME NEW C, i \in C, Closed(M2, C)  PROVE T \subseteq C
  <2> DEFINE D == C \cap T
  <2>1. i \in D
    BY <1>2 DEF IsTree
  <2>2. Closed(M, D)
    BY <1>2 DEF IsTree, Closed
  <2>3. T \subseteq D
    <3> HIDE DEF D
    <3> QED  BY <2>1, <2>2 DEF IsTree
  <2> QED  BY <2>3
<1> QED  BY <1>1, <1>2 DEF IsTree

(* An item is not below its member.                                        *)
LEMMA NotBelowItself ==
    ASSUME NEW M, Trees(M), NEW p \in DOMAIN M, NEW n \in DOMAIN M[p],
           NEW T, IsTree(M, M[p][n], T)
    PROVE  p \notin T
<1>1. PICK rank : Ranked(M, rank)
  BY DEF Trees
<1> DEFINE i == M[p][n]
           C == {j \in DOMAIN M : rank[j] <= rank[i]}
<1>2. i \in DOMAIN M /\ i \in C
  BY <1>1 DEF Trees, Forest, Ranked, IsTree
<1>3. Closed(M, C)
  <2> SUFFICES ASSUME NEW q \in C, NEW a \in DOMAIN M[q]  PROVE M[q][a] \in C
    BY DEF Closed
  <2>1. q \in DOMAIN M /\ M[q] \in Seq(DOMAIN M) /\ rank[q] <= rank[i] /\ rank[M[q][a]] < rank[q]
    BY <1>1 DEF Ranked, Trees, Forest
  <2>2. M[q][a] \in DOMAIN M
    BY <2>1
  <2>3. rank[q] \in Nat /\ rank[i] \in Nat /\ rank[M[q][a]] \in Nat
    BY <1>1, <1>2, <2>1, <2>2 DEF Ranked
  <2> QED  BY <2>1, <2>2, <2>3
<1>4. T \subseteq C
  <2> HIDE DEF C, i
  <2> QED  BY <1>2, <1>3 DEF IsTree, i
<1>5. rank[i] < rank[p] /\ rank[i] \in Nat /\ rank[p] \in Nat
  BY <1>1, <1>2 DEF Ranked
<1> QED  BY <1>4, <1>5

(* An item can be ranked above one that it is not below.                   *)
LEMMA RankAbove ==
    ASSUME NEW M, Trees(M), NEW i, NEW T, IsTree(M, i, T), NEW p \in DOMAIN M, p \notin T
    PROVE  \E rank : Ranked(M, rank) /\ rank[i] < rank[p]
<1>1. PICK rank : Ranked(M, rank)
  BY DEF Trees
<1>2. i \in DOMAIN M /\ i \in T /\ T \subseteq DOMAIN M
  BY DEF IsTree
<1> DEFINE r == [q \in DOMAIN M |-> IF q \in T THEN rank[q] ELSE rank[q] + rank[i] + 1]
<1>3. r \in [DOMAIN M -> Nat] /\ rank \in [DOMAIN M -> Nat]
  BY <1>1, <1>2 DEF Ranked
<1>4. ASSUME NEW q \in DOMAIN M, NEW a \in DOMAIN M[q]  PROVE r[M[q][a]] < r[q]
  <2>1. M[q] \in Seq(DOMAIN M) /\ rank[M[q][a]] < rank[q]
    BY <1>1 DEF Ranked, Trees, Forest
  <2>2. M[q][a] \in DOMAIN M
    BY <2>1
  <2>3. q \in T => M[q][a] \in T
    BY DEF IsTree, Closed
  <2>4. rank[q] \in Nat /\ rank[i] \in Nat /\ rank[M[q][a]] \in Nat
    BY <1>2, <1>3, <2>2
  <2> QED  BY <2>1, <2>2, <2>3, <2>4
<1>5. r[i] < r[p]
  <2>1. rank[i] \in Nat /\ rank[p] \in Nat /\ r[i] = rank[i] /\ r[p] = rank[p] + rank[i] + 1
    BY <1>2, <1>3
  <2> HIDE DEF r
  <2> QED  BY <2>1
<1> HIDE DEF r
<1>6. Ranked(M, r)
  BY <1>3, <1>4 DEF Ranked
<1> QED  BY <1>5, <1>6

(* What is deleted with an item that is in no list is its tree.            *)
LEMMA FreedIsTree ==
    ASSUME NEW h, NEW M, Good(h, M), NEW i \in DOMAIN h, IsRoot(M, i), NEW T, IsTree(M, i, T)
    PROVE  Freed(h, i) = T
<1> DEFINE V  == DOMAIN h
           to == [j \in V |-> {h[j].next, IF h[j].ref THEN NULL ELSE h[j].child} \ {NULL}]
           R  == Reachable({i}, to)
<1>1. Freed(h, i) = R
  <2>1. i # NULL
    BY NamesOK DEF Good, IsHeap
  <2>2. {i} \ {NULL} = {i}
    BY <2>1
  <2> QED  BY <2>2 DEF Freed
<1>2. ASSUME NEW p \in V
      PROVE  /\ M[p] \in Seq(V) /\ Len(M[p]) \in Nat /\ DOMAIN M[p] = 1 .. Len(M[p])
             /\ \A a \in 1 .. Len(M[p]) : M[p][a] \in V /\ M[p][a] # NULL
             /\ h[p].ref => M[p] = << >>
             /\ ~h[p].ref => h[p].child = First(M[p])
             /\ First(M[p]) = IF Len(M[p]) = 0 THEN NULL ELSE M[p][1]
  <2>1. M[p] \in Seq(V)
    BY DEF Good, Trees, Forest
  <2>2. Len(M[p]) \in Nat /\ DOMAIN M[p] = 1 .. Len(M[p]) /\ \A a \in 1 .. Len(M[p]) : M[p][a] \in V
    BY <2>1, Elements
  <2>3. NULL \notin V
    BY NamesOK DEF Good, IsHeap
  <2>4. First(M[p]) = IF Len(M[p]) = 0 THEN NULL ELSE M[p][1]
    BY <2>1 DEF First
  <2> QED  BY <2>1, <2>2, <2>3, <2>4 DEF Good, Linked
<1>3. ASSUME NEW p \in V, NEW a \in 1 .. Len(M[p])
      PROVE  h[M[p][a]].next = After(M[p], a)
  BY <1>2 DEF Good, Linked
<1>4. ASSUME NEW j \in V  PROVE to[j] \subseteq V
  <2>1. ~h[j].ref => h[j].child \in V \union {NULL}
    BY <1>2
  <2>2. h[j].next \in V \union {NULL}
    <3>1. CASE IsRoot(M, j)
      BY <3>1 DEF Good, Linked
    <3>2. CASE ~IsRoot(M, j)
      <4>1. PICK p \in V : \E a \in DOMAIN M[p] : M[p][a] = j
        BY <3>2 DEF IsRoot, Good
      <4>2. PICK a \in 1 .. Len(M[p]) : M[p][a] = j
        BY <1>2, <4>1
      <4>3. a # Len(M[p]) => a + 1 \in 1 .. Len(M[p])
        BY <1>2
      <4> QED  BY <1>2, <1>3, <4>2, <4>3 DEF After
    <3> QED  BY <3>1, <3>2
  <2> QED  BY <2>1, <2>2
<1>5. to \in [V -> SUBSET V] /\ IsFiniteSet(V)
  BY <1>4 DEF Good, IsHeap
<1>6. \A j \in V : to[j] = {h[j].next, IF h[j].ref THEN NULL ELSE h[j].child} \ {NULL}
  OBVIOUS
<1> HIDE DEF to, V
<1>7. /\ R \in SUBSET V /\ i \in R
      /\ \A j \in R : to[j] \subseteq R
      /\ \A C : i \in C /\ (\A j \in C \cap V : to[j] \subseteq C) => R \subseteq C
  <2>1. {i} \in SUBSET V
    BY DEF V
  <2>2. /\ R \in SUBSET V /\ {i} \subseteq R
        /\ \A j \in R : to[j] \subseteq R
        /\ \A C : {i} \subseteq C /\ (\A j \in C \cap V : to[j] \subseteq C) => R \subseteq C
    <3> HIDE DEF R
    <3> QED  BY <1>5, <2>1, ReachableIs DEF R
  <2> HIDE DEF R
  <2> QED  BY <2>2
<1> HIDE DEF R
<1>8. T \subseteq R
  <2>1. ASSUME NEW q \in R, NEW a \in DOMAIN M[q]  PROVE M[q][a] \in R
    <3> DEFINE n == Len(M[q])
               P == {x \in 0 .. n : x # 0 => M[q][x] \in R}
    <3>1. q \in V /\ n \in Nat /\ DOMAIN M[q] = 1 .. n
      BY <1>2, <1>7
    <3> HIDE DEF n
    <3>2. 0 \in P
      BY <3>1
    <3>3. ASSUME NEW x \in 1 .. n, x - 1 \in P  PROVE x \in P
      <4>1. CASE x = 1
        <5>1. ~h[q].ref /\ h[q].child = M[q][1] /\ M[q][1] # NULL
          BY <1>2, <3>1, <3>3, <4>1 DEF n
        <5>2. M[q][1] \in to[q]
          BY <1>6, <3>1, <5>1
        <5> QED  BY <1>7, <3>1, <4>1, <5>2
      <4>2. CASE x # 1
        <5>1. x - 1 \in 1 .. n /\ x - 1 # 0 /\ x - 1 # n /\ (x - 1) + 1 = x /\ M[q][x - 1] \in R
          BY <3>1, <3>3, <4>2
        <5>2. h[M[q][x - 1]].next = After(M[q], x - 1) /\ M[q][x] # NULL
          BY <1>2, <1>3, <3>1, <5>1 DEF n
        <5>3. After(M[q], x - 1) = M[q][x]
          BY <5>1 DEF After, n
        <5>4. M[q][x] \in to[M[q][x - 1]]
          BY <1>6, <1>7, <5>1, <5>2, <5>3
        <5> QED  BY <1>7, <3>1, <5>1, <5>4
      <4> QED  BY <4>1, <4>2
    <3>4. 0 .. n \subseteq P
      <4> HIDE DEF P
      <4> QED  BY <3>1, <3>2, <3>3, Along
    <3> QED  BY <3>1, <3>4
  <2>2. Closed(M, R)
    BY <2>1 DEF Closed
  <2> QED  BY <1>7, <2>2 DEF IsTree
<1>9. R \subseteq T
  <2>1. ASSUME NEW j \in T  PROVE to[j] \subseteq T
    <3>1. j \in V /\ T \subseteq V
      BY DEF IsTree, Good, V
    <3>2. ~h[j].ref => h[j].child \in T \union {NULL}
      <4>1. \A a \in DOMAIN M[j] : M[j][a] \in T
        BY <3>1 DEF IsTree, Closed, Good, V
      <4>2. First(M[j]) \in T \union {NULL}
        BY <1>2, <3>1, <4>1
      <4> QED  BY <1>2, <3>1, <4>2
    <3>3. h[j].next \in T \union {NULL}
      <4>1. CASE j = i
        BY <4>1 DEF Good, Linked
      <4>2. CASE j # i
        <5>1. PICK q \in T : \E a \in DOMAIN M[q] : M[q][a] = j
          BY <4>2, ParentInTree
        <5>2. \A b \in DOMAIN M[q] : M[q][b] \in T
          BY <3>1 DEF IsTree, Closed, Good, V
        <5>3. q \in V /\ DOMAIN M[q] = 1 .. Len(M[q]) /\ Len(M[q]) \in Nat
          BY <1>2, <3>1
        <5>4. PICK a \in 1 .. Len(M[q]) : M[q][a] = j
          BY <5>1, <5>3
        <5>5. a # Len(M[q]) => a + 1 \in DOMAIN M[q]
          BY <5>3
        <5> QED  BY <1>3, <5>2, <5>3, <5>4, <5>5 DEF After
      <4> QED  BY <4>1, <4>2
    <3> QED  BY <1>6, <3>1, <3>2, <3>3
  <2> QED  BY <1>7, <2>1 DEF IsTree
<1> QED  BY <1>1, <1>8, <1>9
-----------------------------------------------------------------------------
(* Changing one list.                                                      *)

(* The members of an item are items that are no roots, each in one place.  *)
LEMMA ListOf ==
    ASSUME NEW M, Trees(M), NEW p \in DOMAIN M
    PROVE  /\ M[p] \in Seq(DOMAIN M) /\ Len(M[p]) \in Nat /\ DOMAIN M[p] = 1 .. Len(M[p])
           /\ \A a \in 1 .. Len(M[p]) : M[p][a] \in DOMAIN M /\ ~IsRoot(M, M[p][a])
           /\ \A a, b \in 1 .. Len(M[p]) : M[p][a] = M[p][b] => a = b
<1> DEFINE l == M[p]
<1>1. l \in Seq(DOMAIN M)
  BY DEF Trees, Forest
<1>2. Len(l) \in Nat /\ DOMAIN l = 1 .. Len(l) /\ \A a \in 1 .. Len(l) : l[a] \in DOMAIN M
  <2> HIDE DEF l
  <2> QED  BY <1>1, Elements
<1>3. \A a \in 1 .. Len(l) : ~IsRoot(M, l[a])
  BY <1>2 DEF IsRoot
<1>4. \A a, b \in DOMAIN l : l[a] = l[b] => a = b
  BY DEF Trees, Forest
<1> QED  BY <1>1, <1>2, <1>3, <1>4

(* A list may keep its items, in another order, and get roots.             *)
LEMMA NewList ==
    ASSUME NEW M, Trees(M), NEW rank, Ranked(M, rank), NEW p \in DOMAIN M,
           NEW l \in Seq(DOMAIN M),
           \A a, b \in DOMAIN l : l[a] = l[b] => a = b,
           \A a \in DOMAIN l : /\ IsRoot(M, l[a]) \/ \E b \in DOMAIN M[p] : l[a] = M[p][b]
                               /\ rank[l[a]] < rank[p]
    PROVE  Trees([M EXCEPT ![p] = l])
<1> DEFINE M2 == [M EXCEPT ![p] = l]
<1>1. /\ DOMAIN M2 = DOMAIN M /\ M2[p] = l /\ \A q \in DOMAIN M : q # p => M2[q] = M[q]
      /\ M2 = [q \in DOMAIN M2 |-> M2[q]]
  BY DEF Trees
<1> HIDE DEF M2
<1>2. \A q \in DOMAIN M2 : M2[q] \in Seq(DOMAIN M2)
  BY <1>1 DEF Trees, Forest
<1>3. ASSUME NEW q \in DOMAIN M2, NEW a \in DOMAIN M2[q], NEW b \in DOMAIN l,
             q # p, M2[q][a] = l[b]
      PROVE  FALSE
  <2>1. M[q][a] = l[b] /\ a \in DOMAIN M[q] /\ q \in DOMAIN M
    BY <1>1, <1>3
  <2>2. ~IsRoot(M, l[b])
    BY <2>1 DEF IsRoot
  <2>3. PICK c \in DOMAIN M[p] : l[b] = M[p][c]
    BY <2>2
  <2> QED  BY <1>3, <2>1, <2>3 DEF Trees, Forest
<1>4. ASSUME NEW q \in DOMAIN M2, NEW r \in DOMAIN M2, NEW a \in DOMAIN M2[q],
             NEW b \in DOMAIN M2[r], M2[q][a] = M2[r][b]
      PROVE  q = r /\ a = b
  <2>1. CASE q # p /\ r # p
    BY <1>1, <1>4, <2>1 DEF Trees, Forest
  <2>2. CASE q = p /\ r = p
    BY <1>1, <1>4, <2>2
  <2>3. CASE q # p /\ r = p
    BY <1>1, <1>3, <1>4, <2>3
  <2>4. CASE q = p /\ r # p
    BY <1>1, <1>3, <1>4, <2>4
  <2> QED  BY <2>1, <2>2, <2>3, <2>4
<1>5. Ranked(M2, rank)
  BY <1>1 DEF Ranked
<1> QED  BY <1>1, <1>2, <1>4, <1>5 DEF Trees, Forest, M2

(* The same items are allocated, with the same names, and the same ones    *)
(* are references.                                                         *)
Alike(h, g) ==
    /\ DOMAIN g = DOMAIN h
    /\ \A j \in DOMAIN h :
          g[j].string = h[j].string /\ g[j].const = h[j].const /\ g[j].ref = h[j].ref

(* A root becomes a member at a place.                                     *)
Joined(h, g, p, l, k, i) ==
    \A j \in DOMAIN h :
        /\ g[j].next = IF j = i THEN IF k = Len(l) + 1 THEN NULL ELSE l[k]
                       ELSE IF k > 1 /\ j = l[k - 1] THEN i ELSE h[j].next
        /\ g[j].prev = IF j = i THEN IF k = 1 THEN NULL ELSE l[k - 1]
                       ELSE IF k <= Len(l) /\ j = l[k] THEN i ELSE h[j].prev
        /\ g[j].child = IF j = p /\ k = 1 THEN i ELSE h[j].child

(* Then the heap holds the trees in which it is a member.                  *)
LEMMA JoinRight ==
    ASSUME NEW h, NEW M, Good(h, M), NEW p \in DOMAIN h, ~h[p].ref,
           NEW i \in DOMAIN h, IsRoot(M, i),
           NEW rank, Ranked(M, rank), rank[i] < rank[p],
           NEW k \in 1 .. Len(M[p]) + 1,
           NEW g, IsHeap(g), Alike(h, g), Joined(h, g, p, M[p], k, i)
    PROVE  Good(g, [M EXCEPT ![p] = InsertAt(M[p], k, i)])
<1> DEFINE V  == DOMAIN h
           l  == M[p]
           m  == Len(l)
           l2 == InsertAt(M[p], k, i)
           M2 == [M EXCEPT ![p] = l2]
<1>1. /\ DOMAIN M = V /\ Trees(M) /\ Linked(h, M) /\ DOMAIN g = V
      /\ \A j \in V : g[j].ref = h[j].ref
  BY DEF Good, Alike
<1>2. /\ l \in Seq(V) /\ m \in Nat /\ DOMAIN l = 1 .. m /\ k \in 1 .. m + 1
      /\ \A a \in 1 .. m : l[a] \in V /\ ~IsRoot(M, l[a]) /\ l[a] # i
      /\ \A a, b \in 1 .. m : l[a] = l[b] => a = b
  BY <1>1, ListOf
<1>3. /\ l2 \in Seq(V) /\ Len(l2) = m + 1 /\ l2[k] = i
      /\ \A n \in 1 .. k - 1 : l2[n] = l[n]
      /\ \A n \in k + 1 .. m + 1 : l2[n] = l[n - 1]
  <2>1. l2 = InsertAt(l, k, i)
    OBVIOUS
  <2>2. l \in Seq(V) /\ i \in V /\ k \in 1 .. Len(l) + 1
    BY <1>2
  <2> HIDE DEF l, l2, V
  <2>3. l2 \in Seq(V) /\ Longer(l, k, i, l2)
    BY <2>1, <2>2, Inserted
  <2> QED  BY <2>3 DEF m, Longer
<1>4. /\ DOMAIN M2 = V /\ M2[p] = l2 /\ \A q \in V : q # p => M2[q] = M[q]
  BY <1>1
<1>5. \A q \in V : \A a \in DOMAIN M[q] : M[q][a] \in V /\ M[q][a] # i
  BY <1>1, ListOf DEF IsRoot
<1>6. \A q \in V : \A a \in DOMAIN M[q], b \in 1 .. m : q # p => M[q][a] # l[b]
  BY <1>1, <1>2 DEF Trees, Forest
<1>7. Joined(h, g, p, l, k, i)
  OBVIOUS
<1> HIDE DEF l, m, l2, M2, V
<1>8. DOMAIN l2 = 1 .. m + 1 /\ \A n \in 1 .. m + 1 : n = k \/ n \in 1 .. k - 1 \/ n \in k + 1 .. m + 1
  BY <1>2, <1>3
<1>9. Trees(M2)
  <2>1. \A a, b \in DOMAIN l2 : l2[a] = l2[b] => a = b
    <3> SUFFICES ASSUME NEW a \in DOMAIN l2, NEW b \in DOMAIN l2, l2[a] = l2[b]  PROVE a = b
      OBVIOUS
    <3>1. /\ a = k \/ (a < k /\ a \in 1 .. m /\ l2[a] = l[a]) \/ (a > k /\ a - 1 \in 1 .. m /\ l2[a] = l[a - 1])
          /\ b = k \/ (b < k /\ b \in 1 .. m /\ l2[b] = l[b]) \/ (b > k /\ b - 1 \in 1 .. m /\ l2[b] = l[b - 1])
          /\ a \in Nat /\ b \in Nat
      BY <1>2, <1>3, <1>8
    <3>2. CASE a = k \/ b = k
      BY <1>2, <1>3, <3>1, <3>2
    <3>3. CASE a # k /\ b # k
      <4> DEFINE x == IF a < k THEN a ELSE a - 1
                 y == IF b < k THEN b ELSE b - 1
      <4>1. x \in 1 .. m /\ y \in 1 .. m /\ l[x] = l[y]
        BY <3>1, <3>3
      <4>2. x = y
        BY <1>2, <4>1
      <4> QED  BY <1>2, <3>1, <3>3, <4>2
    <3> QED  BY <3>2, <3>3
  <2>2. ASSUME NEW a \in DOMAIN l2
        PROVE  /\ IsRoot(M, l2[a]) \/ \E b \in DOMAIN M[p] : l2[a] = M[p][b]
               /\ rank[l2[a]] < rank[p]
    <3>1. CASE a = k
      BY <1>3, <3>1
    <3>2. CASE a # k
      <4>1. PICK b \in 1 .. m : l2[a] = l[b]
        <5>1. CASE a \in 1 .. k - 1
          BY <1>2, <1>3, <5>1
        <5>2. CASE a \in k + 1 .. m + 1
          <6>1. a - 1 \in 1 .. m
            BY <1>2, <5>2
          <6> QED  BY <1>3, <5>2, <6>1
        <5> QED  BY <1>8, <3>2, <5>1, <5>2
      <4> QED  BY <1>1, <1>2, <4>1 DEF Ranked, l, V
    <3> QED  BY <3>1, <3>2
  <2> QED  BY <1>1, <1>3, <2>1, <2>2, NewList DEF M2, V
<1>10. \A q \in V : IF g[q].ref THEN M2[q] = << >> ELSE g[q].child = First(M2[q])
  <2> TAKE q \in V
  <2>1. CASE q # p
    BY <1>1, <1>4, <1>7, <2>1 DEF Linked, Joined, V
  <2>2. CASE q = p
    <3>1. First(l2) = l2[1] /\ ~g[p].ref
      BY <1>1, <1>2, <1>3, <2>2 DEF First
    <3>2. CASE k = 1
      BY <1>3, <1>4, <1>7, <2>2, <3>1, <3>2 DEF Joined, V
    <3>3. CASE k # 1
      <4>1. l2[1] = l[1] /\ First(l) = l[1]
        BY <1>2, <1>3, <3>3 DEF First
      <4>2. g[p].child = h[p].child /\ h[p].child = First(l)
        BY <1>1, <1>7, <3>3 DEF Joined, V, Linked, l
      <4> QED  BY <1>4, <2>2, <3>1, <4>1, <4>2
    <3> QED  BY <3>2, <3>3
  <2> QED  BY <2>1, <2>2
<1>11. ASSUME NEW q \in V, NEW n \in DOMAIN M2[q]
       PROVE  g[M2[q][n]].next = After(M2[q], n) /\ g[M2[q][n]].prev = Before(M2[q], n)
  <2>1. CASE q # p
    <3>1. M2[q] = M[q] /\ M[q][n] \in V /\ M[q][n] # i /\ \A b \in 1 .. m : M[q][n] # l[b]
      BY <1>4, <1>5, <1>6, <1>11, <2>1
    <3>2. g[M[q][n]].next = h[M[q][n]].next /\ g[M[q][n]].prev = h[M[q][n]].prev
      BY <1>2, <1>7, <3>1 DEF Joined, V
    <3> QED  BY <1>1, <1>11, <3>1, <3>2 DEF Linked, V
  <2>2. CASE q = p
    <3> DEFINE j == l2[n]
    <3>1. n \in 1 .. m + 1 /\ M2[q] = l2
      BY <1>4, <1>8, <1>11, <2>2
    <3>2. \A a \in 1 .. m : h[l[a]].next = After(l, a) /\ h[l[a]].prev = Before(l, a)
      BY <1>1, <1>2 DEF Linked, V, l
    <3>3. CASE n = k
      <4>1. j = i /\ i \in V
        BY <1>3, <3>3 DEF V
      <4>2. g[j].next = IF k = m + 1 THEN NULL ELSE l[k]
        BY <1>7, <4>1 DEF Joined, V, m
      <4>3. g[j].prev = IF k = 1 THEN NULL ELSE l[k - 1]
        BY <1>7, <4>1 DEF Joined, V
      <4>4. After(l2, k) = IF k = m + 1 THEN NULL ELSE l[k]
        <5>1. CASE k = m + 1
          BY <1>3, <5>1 DEF After
        <5>2. CASE k # m + 1
          <6>1. k + 1 \in k + 1 .. m + 1 /\ (k + 1) - 1 = k
            BY <1>2, <5>2
          <6>2. l2[k + 1] = l[k]
            BY <1>3, <6>1
          <6> QED  BY <1>3, <5>2, <6>2 DEF After
        <5> QED  BY <5>1, <5>2
      <4>5. Before(l2, k) = IF k = 1 THEN NULL ELSE l[k - 1]
        BY <1>2, <1>3 DEF Before
      <4> QED  BY <3>1, <3>3, <4>2, <4>3, <4>4, <4>5
    <3>4. CASE n < k
      <4>1. n \in 1 .. k - 1 /\ n \in 1 .. m
        BY <1>2, <3>1, <3>4
      <4>2. j = l[n] /\ j \in V /\ j # i
        BY <1>2, <1>3, <4>1
      <4>3. After(l2, n) = IF n = k - 1 THEN i ELSE After(l, n)
        <5>1. After(l2, n) = l2[n + 1]
          BY <1>2, <1>3, <4>1 DEF After
        <5>2. CASE n = k - 1
          BY <1>2, <1>3, <5>1, <5>2
        <5>3. CASE n # k - 1
          <6>1. n + 1 \in 1 .. k - 1 /\ n # Len(l)
            BY <1>2, <4>1, <5>3 DEF m
          <6> QED  BY <1>3, <5>1, <5>3, <6>1 DEF After
        <5> QED  BY <5>2, <5>3
      <4>4. g[j].next = IF n = k - 1 THEN i ELSE h[j].next
        <5>1. (k > 1 /\ j = l[k - 1]) <=> n = k - 1
          BY <1>2, <4>1, <4>2
        <5> HIDE DEF j
        <5> QED  BY <1>7, <4>2, <5>1 DEF Joined, V
      <4>5. Before(l2, n) = Before(l, n)
        BY <1>2, <1>3, <4>1 DEF Before
      <4>6. g[j].prev = h[j].prev
        <5>1. ~(k <= m /\ j = l[k])
          BY <1>2, <4>1, <4>2
        <5> HIDE DEF j
        <5> QED  BY <1>7, <4>2, <5>1 DEF Joined, V, m
      <4> QED  BY <3>1, <3>2, <4>1, <4>2, <4>3, <4>4, <4>5, <4>6
    <3>5. CASE n > k
      <4>1. n \in k + 1 .. m + 1 /\ n - 1 \in 1 .. m /\ n - 1 >= k /\ n \in Nat
        BY <1>2, <3>1, <3>5
      <4>2. j = l[n - 1] /\ j \in V /\ j # i
        BY <1>2, <1>3, <4>1
      <4>3. After(l2, n) = After(l, n - 1)
        BY <1>2, <1>3, <4>1 DEF After
      <4>4. g[j].next = h[j].next
        <5>1. ~(k > 1 /\ j = l[k - 1])
          BY <1>2, <4>1, <4>2
        <5> HIDE DEF j
        <5> QED  BY <1>7, <4>2, <5>1 DEF Joined, V
      <4>5. Before(l2, n) = IF n - 1 = k THEN i ELSE Before(l, n - 1)
        BY <1>2, <1>3, <4>1 DEF Before
      <4>6. g[j].prev = IF n - 1 = k THEN i ELSE h[j].prev
        <5>1. (k <= m /\ j = l[k]) <=> n - 1 = k
          BY <1>2, <4>1, <4>2
        <5> HIDE DEF j
        <5> QED  BY <1>7, <4>2, <5>1 DEF Joined, V, m
      <4> QED  BY <3>1, <3>2, <4>1, <4>2, <4>3, <4>4, <4>5, <4>6
    <3> QED  BY <1>2, <3>1, <3>3, <3>4, <3>5
  <2> QED  BY <2>1, <2>2
<1>12. ASSUME NEW j \in V, IsRoot(M2, j)  PROVE g[j].next = NULL /\ g[j].prev = NULL
  <2>1. j # i
    BY <1>3, <1>4, <1>8, <1>12, <1>2 DEF IsRoot, V
  <2>2. \A b \in 1 .. m : j # l[b]
    <3> TAKE b \in 1 .. m
    <3>1. \E n \in 1 .. m + 1 : l2[n] = l[b]
      <4>1. CASE b < k
        <5>1. b \in 1 .. k - 1 /\ b \in 1 .. m + 1
          BY <1>2, <4>1
        <5> QED  BY <1>3, <5>1
      <4>2. CASE b >= k
        <5>1. b + 1 \in k + 1 .. m + 1 /\ b + 1 \in 1 .. m + 1 /\ (b + 1) - 1 = b
          BY <1>2, <4>2
        <5> QED  BY <1>3, <5>1
      <4> QED  BY <1>2, <4>1, <4>2
    <3> QED  BY <1>4, <1>8, <1>12, <3>1 DEF IsRoot, V
  <2>3. IsRoot(M, j)
    <3> SUFFICES ASSUME NEW q \in V, NEW a \in DOMAIN M[q]  PROVE M[q][a] # j
      BY <1>1 DEF IsRoot
    <3>1. CASE q = p
      BY <1>2, <2>2, <3>1 DEF l
    <3>2. CASE q # p
      BY <1>4, <1>12, <3>2 DEF IsRoot
    <3> QED  BY <3>1, <3>2
  <2>4. h[j].next = NULL /\ h[j].prev = NULL
    BY <1>1, <2>3 DEF Linked, V
  <2> QED  BY <1>2, <1>7, <2>1, <2>2, <2>4 DEF Joined, V, m
<1>13. Linked(g, M2)
  BY <1>1, <1>10, <1>11, <1>12 DEF Linked
<1> QED  BY <1>1, <1>4, <1>9, <1>13 DEF Good, M2, l2

(* The pointers of a heap where the list of an item becomes another: what  *)
(* leaves the list points to no other item.                                *)
Relinks(h, g, p, l, l2) ==
    /\ g[p].child = First(l2)
    /\ \A q \in DOMAIN h \ {p} : g[q].child = h[q].child
    /\ \A n \in DOMAIN l2 : g[l2[n]].next = After(l2, n) /\ g[l2[n]].prev = Before(l2, n)
    /\ \A j \in DOMAIN h : (\A n \in DOMAIN l2 : l2[n] # j) =>
          IF \E n \in DOMAIN l : l[n] = j THEN g[j].next = NULL /\ g[j].prev = NULL
          ELSE g[j].next = h[j].next /\ g[j].prev = h[j].prev

(* Then it has the lists of the trees with the other list.                 *)
LEMMA Relinked ==
    ASSUME NEW h, NEW M, Good(h, M), NEW p \in DOMAIN h, ~h[p].ref, NEW l2,
           NEW g, IsHeap(g), Alike(h, g), Trees([M EXCEPT ![p] = l2]),
           Relinks(h, g, p, M[p], l2)
    PROVE  Good(g, [M EXCEPT ![p] = l2])
<1> DEFINE V  == DOMAIN h
           M2 == [M EXCEPT ![p] = l2]
<1>1. /\ DOMAIN M = V /\ Trees(M) /\ Linked(h, M) /\ DOMAIN g = V
      /\ \A j \in V : g[j].ref = h[j].ref
  BY DEF Good, Alike
<1>2. DOMAIN M2 = V /\ M2[p] = l2 /\ Trees(M2) /\ \A q \in V : q # p => M2[q] = M[q]
  BY <1>1
<1>3. Relinks(h, g, p, M[p], l2)
  OBVIOUS
<1> HIDE DEF M2, V
<1>4. \A q \in V : IF g[q].ref THEN M2[q] = << >> ELSE g[q].child = First(M2[q])
  <2> TAKE q \in V
  <2>1. CASE q # p
    BY <1>1, <1>2, <1>3, <2>1 DEF Linked, Relinks, V
  <2>2. CASE q = p
    BY <1>1, <1>2, <1>3, <2>2 DEF Relinks, V
  <2> QED  BY <2>1, <2>2
<1>5. ASSUME NEW q \in V, NEW n \in DOMAIN M2[q]
      PROVE  g[M2[q][n]].next = After(M2[q], n) /\ g[M2[q][n]].prev = Before(M2[q], n)
  <2>1. CASE q # p
    <3>1. M2[q] = M[q] /\ n \in DOMAIN M[q] /\ M[q][n] \in V
      BY <1>1, <1>2, <1>5, <2>1, ListOf
    <3>2. \A b \in DOMAIN l2 : l2[b] # M[q][n]
      BY <1>2, <1>5, <2>1, <3>1 DEF Trees, Forest, V
    <3>3. ~ \E b \in DOMAIN M[p] : M[p][b] = M[q][n]
      BY <1>1, <2>1, <3>1 DEF Trees, Forest, V
    <3>4. g[M[q][n]].next = h[M[q][n]].next /\ g[M[q][n]].prev = h[M[q][n]].prev
      BY <1>3, <3>1, <3>2, <3>3 DEF Relinks, V
    <3> QED  BY <1>1, <3>1, <3>4 DEF Linked, V
  <2>2. CASE q = p
    BY <1>2, <1>3, <1>5, <2>2 DEF Relinks
  <2> QED  BY <2>1, <2>2
<1>6. ASSUME NEW j \in V, IsRoot(M2, j)  PROVE g[j].next = NULL /\ g[j].prev = NULL
  <2>1. \A n \in DOMAIN l2 : l2[n] # j
    BY <1>2, <1>6 DEF IsRoot, V
  <2>2. CASE \E n \in DOMAIN M[p] : M[p][n] = j
    BY <1>3, <2>1, <2>2 DEF Relinks, V
  <2>3. CASE ~ \E n \in DOMAIN M[p] : M[p][n] = j
    <3>1. IsRoot(M, j)
      BY <1>1, <1>2, <1>6, <2>3 DEF IsRoot
    <3> QED  BY <1>1, <1>3, <2>1, <2>3, <3>1 DEF Relinks, Linked, V
  <2> QED  BY <2>2, <2>3
<1>7. Linked(g, M2)
  BY <1>1, <1>4, <1>5, <1>6 DEF Linked
<1> QED  BY <1>1, <1>2, <1>7 DEF Good, M2

(* The member at a place leaves the list.                                  *)
Left(h, g, p, l, k) ==
    \A j \in DOMAIN h :
        /\ g[j].next = IF j = l[k] THEN NULL
                       ELSE IF k > 1 /\ j = l[k - 1] THEN After(l, k) ELSE h[j].next
        /\ g[j].prev = IF j = l[k] THEN NULL
                       ELSE IF k < Len(l) /\ j = l[k + 1] THEN Before(l, k) ELSE h[j].prev
        /\ g[j].child = IF j = p /\ k = 1 THEN After(l, k) ELSE h[j].child

(* Then the heap holds the trees in which it is a root.                    *)
LEMMA LeaveRight ==
    ASSUME NEW h, NEW M, Good(h, M), NEW p \in DOMAIN h, ~h[p].ref,
           NEW k \in 1 .. Len(M[p]),
           NEW g, IsHeap(g), Alike(h, g), Left(h, g, p, M[p], k)
    PROVE  Good(g, [M EXCEPT ![p] = RemoveAt(M[p], k)])
<1> DEFINE V  == DOMAIN h
           l  == M[p]
           m  == Len(l)
           l2 == RemoveAt(M[p], k)
<1>1. /\ DOMAIN M = V /\ Trees(M) /\ Linked(h, M)
      /\ h[p].child = First(l)
      /\ \A a \in DOMAIN l : h[l[a]].next = After(l, a) /\ h[l[a]].prev = Before(l, a)
  BY DEF Good, Linked
<1>2. /\ l \in Seq(V) /\ m \in Nat /\ DOMAIN l = 1 .. m /\ k \in 1 .. m
      /\ \A a \in 1 .. m : l[a] \in V /\ ~IsRoot(M, l[a])
      /\ \A a, b \in 1 .. m : l[a] = l[b] => a = b
  BY <1>1, ListOf
<1>3. l2 \in Seq(V) /\ Shorter(l, k, l2)
  <2>1. l2 = RemoveAt(l, k) /\ l \in Seq(V) /\ k \in 1 .. Len(l)
    BY <1>2
  <2> HIDE DEF l, l2, V
  <2> QED  BY <2>1, Removed
<1>4. Left(h, g, p, l, k)
  OBVIOUS
<1> HIDE DEF l, l2, V
<1>5. /\ Len(l2) = m - 1 /\ DOMAIN l2 = 1 .. m - 1
      /\ \A n \in 1 .. k - 1 : l2[n] = l[n] /\ n \in 1 .. m
      /\ \A n \in k .. m - 1 : l2[n] = l[n + 1] /\ n + 1 \in 1 .. m
      /\ \A n \in 1 .. m - 1 : n \in 1 .. k - 1 \/ n \in k .. m - 1
  BY <1>2, <1>3 DEF Shorter
<1> HIDE DEF m
<1>6. Trees([M EXCEPT ![p] = l2])
  <2>1. ASSUME NEW a \in DOMAIN l2, NEW b \in DOMAIN l2, l2[a] = l2[b]  PROVE a = b
    <3> DEFINE x == IF a < k THEN a ELSE a + 1
               y == IF b < k THEN b ELSE b + 1
    <3>1. x \in 1 .. m /\ y \in 1 .. m /\ l2[a] = l[x] /\ l2[b] = l[y] /\ a \in Nat /\ b \in Nat
      BY <1>2, <1>5
    <3>2. x = y
      BY <1>2, <2>1, <3>1
    <3> QED  BY <1>2, <3>1, <3>2
  <2>2. PICK rank : Ranked(M, rank)
    BY <1>1 DEF Trees
  <2>3. ASSUME NEW a \in DOMAIN l2
        PROVE  /\ IsRoot(M, l2[a]) \/ \E b \in DOMAIN M[p] : l2[a] = M[p][b]
               /\ rank[l2[a]] < rank[p]
    <3>1. \E b \in 1 .. m : l2[a] = l[b]
      BY <1>5
    <3> QED  BY <1>1, <1>2, <2>2, <3>1 DEF Ranked, l, V
  <2> QED  BY <1>1, <1>3, <2>1, <2>2, <2>3, NewList DEF V
<1>7. ASSUME NEW n \in 1 .. m - 1
      PROVE  g[l2[n]].next = After(l2, n) /\ g[l2[n]].prev = Before(l2, n)
  <2>1. CASE n \in 1 .. k - 1
    <3>1. l2[n] = l[n] /\ n \in 1 .. m /\ l[n] \in V /\ l[n] # l[k]
      BY <1>2, <1>5, <2>1
    <3>2. /\ h[l[n]].next = After(l, n) /\ h[l[n]].prev = Before(l, n)
          /\ Before(l2, n) = Before(l, n)
      <4>1. n # 1 => n - 1 \in 1 .. k - 1
        BY <1>2, <2>1
      <4> QED  BY <1>1, <1>2, <1>5, <3>1, <4>1 DEF Before
    <3>3. g[l[n]].prev = h[l[n]].prev
      <4>1. ~(k < Len(l) /\ l[n] = l[k + 1])
        BY <1>2, <2>1, <3>1 DEF m
      <4> QED  BY <1>4, <3>1, <4>1 DEF Left, V
    <3>4. CASE n = k - 1
      <4>1. g[l[n]].next = After(l, k)
        BY <1>2, <1>4, <2>1, <3>1, <3>4 DEF Left, V
      <4>2. After(l2, n) = After(l, k)
        <5>1. CASE k = m
          BY <1>2, <1>5, <3>4, <5>1 DEF After, m
        <5>2. CASE k # m
          <6>1. k \in k .. m - 1 /\ n + 1 = k /\ n # m - 1
            BY <1>2, <3>4, <5>2
          <6> QED  BY <1>5, <5>2, <6>1 DEF After, m
        <5> QED  BY <5>1, <5>2
      <4> QED  BY <3>1, <3>2, <3>3, <4>1, <4>2
    <3>5. CASE n # k - 1
      <4>1. n + 1 \in 1 .. k - 1 /\ n # m - 1 /\ n # m
        BY <1>2, <2>1, <3>5
      <4>2. After(l2, n) = After(l, n)
        <5>1. l2[n + 1] = l[n + 1] /\ n # Len(l2) /\ n # Len(l)
          BY <1>5, <4>1 DEF m
        <5> QED  BY <5>1 DEF After
      <4>3. ~(k > 1 /\ l[n] = l[k - 1])
        <5>1. k > 1 => k - 1 \in 1 .. m
          BY <1>2
        <5> QED  BY <1>2, <3>1, <3>5, <5>1
      <4>4. g[l[n]].next = h[l[n]].next
        BY <1>4, <3>1, <4>3 DEF Left, V
      <4> QED  BY <3>1, <3>2, <3>3, <4>2, <4>4
    <3> QED  BY <3>4, <3>5
  <2>2. CASE n \in k .. m - 1
    <3>1. l2[n] = l[n + 1] /\ n + 1 \in 1 .. m /\ l[n + 1] \in V /\ l[n + 1] # l[k]
      BY <1>2, <1>5, <2>2
    <3>2. /\ h[l[n + 1]].next = After(l, n + 1) /\ h[l[n + 1]].prev = Before(l, n + 1)
          /\ After(l2, n) = After(l, n + 1)
      <4>1. n # m - 1 => n + 1 \in k .. m - 1
        BY <1>2, <2>2
      <4>2. n = m - 1 <=> n + 1 = m
        BY <1>2, <2>2
      <4>3. After(l2, n) = After(l, n + 1)
        <5>1. CASE n = m - 1
          BY <1>5, <4>2, <5>1 DEF After, m
        <5>2. CASE n # m - 1
          <6>1. l2[n + 1] = l[(n + 1) + 1]
            BY <1>5, <4>1, <5>2
          <6> QED  BY <1>5, <4>2, <5>2, <6>1 DEF After, m
        <5> QED  BY <5>1, <5>2
      <4> QED  BY <1>1, <1>2, <3>1, <4>3
    <3>3. g[l[n + 1]].next = h[l[n + 1]].next
      <4>1. ~(k > 1 /\ l[n + 1] = l[k - 1])
        BY <1>2, <2>2, <3>1
      <4> QED  BY <1>4, <3>1, <4>1 DEF Left, V
    <3>4. CASE n = k
      <4>1. g[l[n + 1]].prev = Before(l, k)
        BY <1>2, <1>4, <2>2, <3>1, <3>4 DEF Left, V, m
      <4>2. Before(l2, n) = Before(l, k)
        <5>1. k # 1 => k - 1 \in 1 .. k - 1
          BY <1>2
        <5> QED  BY <1>5, <3>4, <5>1 DEF Before
      <4> QED  BY <3>1, <3>2, <3>3, <4>1, <4>2
    <3>5. CASE n # k
      <4>1. n - 1 \in k .. m - 1 /\ n # 1 /\ n + 1 # 1 /\ (n - 1) + 1 = n /\ (n + 1) - 1 = n
        BY <1>2, <2>2, <3>5
      <4>2. Before(l2, n) = Before(l, n + 1)
        BY <1>5, <4>1 DEF Before
      <4>3. ~(k < Len(l) /\ l[n + 1] = l[k + 1])
        <5>1. k < m => k + 1 \in 1 .. m /\ n + 1 # k + 1
          BY <1>2, <2>2, <3>5
        <5> QED  BY <1>2, <3>1, <5>1 DEF m
      <4>4. g[l[n + 1]].prev = h[l[n + 1]].prev
        BY <1>4, <3>1, <4>3 DEF Left, V
      <4> QED  BY <3>1, <3>2, <3>3, <4>2, <4>4
    <3> QED  BY <3>4, <3>5
  <2> QED  BY <1>5, <2>1, <2>2
<1>8. g[p].child = First(l2)
  <2>1. CASE k = 1
    <3>1. g[p].child = After(l, 1)
      BY <1>4, <2>1 DEF Left
    <3>2. CASE m = 1
      <4>1. l2 = << >>
        BY <1>3, <1>5, <3>2
      <4> QED  BY <3>1, <3>2, <4>1 DEF After, First, m
    <3>3. CASE m # 1
      <4>1. 1 \in k .. m - 1 /\ l2 # << >>
        BY <1>2, <1>5, <2>1, <3>3
      <4> QED  BY <1>5, <3>1, <3>3, <4>1 DEF After, First, m
    <3> QED  BY <3>2, <3>3
  <2>2. CASE k # 1
    <3>1. 1 \in 1 .. k - 1 /\ l2 # << >> /\ l # << >>
      BY <1>2, <1>5, <2>2
    <3> QED  BY <1>1, <1>4, <1>5, <2>2, <3>1 DEF First, Left
  <2> QED  BY <2>1, <2>2
<1>9. \A q \in DOMAIN h \ {p} : g[q].child = h[q].child
  BY <1>4 DEF Left
<1>10. ASSUME NEW j \in DOMAIN h, \A n \in DOMAIN l2 : l2[n] # j
       PROVE  IF \E n \in DOMAIN l : l[n] = j THEN g[j].next = NULL /\ g[j].prev = NULL
              ELSE g[j].next = h[j].next /\ g[j].prev = h[j].prev
  <2>1. CASE j = l[k]
    BY <1>2, <1>4, <2>1 DEF Left
  <2>2. CASE j # l[k]
    <3>1. \A n \in DOMAIN l : l[n] # j
      <4> SUFFICES ASSUME NEW n \in 1 .. m, l[n] = j  PROVE FALSE
        BY <1>2
      <4>1. n \in 1 .. k - 1 \/ n - 1 \in k .. m - 1
        BY <1>2, <2>2
      <4>2. n \in 1 .. k - 1 \/ (n - 1 \in k .. m - 1 /\ (n - 1) + 1 = n)
        BY <4>1
      <4>3. \A x \in 1 .. k - 1 : x \in 1 .. m - 1
        BY <1>2
      <4>4. \A x \in k .. m - 1 : x \in 1 .. m - 1
        BY <1>2
      <4> QED  BY <1>5, <1>10, <4>2, <4>3, <4>4
    <3>2. (k > 1 => j # l[k - 1]) /\ (k < Len(l) => j # l[k + 1])
      BY <1>2, <3>1 DEF m
    <3> QED  BY <1>4, <2>2, <3>1, <3>2 DEF Left
  <2> QED  BY <2>1, <2>2
<1>11. Relinks(h, g, p, M[p], l2)
  BY <1>5, <1>7, <1>8, <1>9, <1>10 DEF Relinks, l
<1> QED  BY <1>6, <1>11, Relinked DEF l2

(* A root takes the place of a member.                                     *)
Swapped(h, g, p, l, k, r) ==
    \A j \in DOMAIN h :
        /\ g[j].next = IF j = r THEN After(l, k) ELSE IF j = l[k] THEN NULL
                       ELSE IF k > 1 /\ j = l[k - 1] THEN r ELSE h[j].next
        /\ g[j].prev = IF j = r THEN Before(l, k) ELSE IF j = l[k] THEN NULL
                       ELSE IF k < Len(l) /\ j = l[k + 1] THEN r ELSE h[j].prev
        /\ g[j].child = IF j = p /\ k = 1 THEN r ELSE h[j].child

(* Then the heap holds the trees in which the root has that place and the  *)
(* member is a root.                                                       *)
LEMMA SwapRight ==
    ASSUME NEW h, NEW M, Good(h, M), NEW p \in DOMAIN h, ~h[p].ref,
           NEW r \in DOMAIN h, IsRoot(M, r),
           NEW rank, Ranked(M, rank), rank[r] < rank[p],
           NEW k \in 1 .. Len(M[p]),
           NEW g, IsHeap(g), Alike(h, g), Swapped(h, g, p, M[p], k, r)
    PROVE  Good(g, [M EXCEPT ![p] = ReplaceAt(M[p], k, r)])
<1> DEFINE V  == DOMAIN h
           l  == M[p]
           m  == Len(l)
           l2 == ReplaceAt(M[p], k, r)
<1>1. /\ DOMAIN M = V /\ Trees(M) /\ Linked(h, M)
      /\ h[p].child = First(l)
      /\ \A a \in DOMAIN l : h[l[a]].next = After(l, a) /\ h[l[a]].prev = Before(l, a)
  BY DEF Good, Linked
<1>2. /\ l \in Seq(V) /\ m \in Nat /\ DOMAIN l = 1 .. m /\ k \in 1 .. m /\ k \in Nat
      /\ \A a \in 1 .. m : l[a] \in V /\ ~IsRoot(M, l[a]) /\ l[a] # r
      /\ \A a, b \in 1 .. m : l[a] = l[b] => a = b
  <2>1. /\ l \in Seq(V) /\ m \in Nat /\ DOMAIN l = 1 .. m /\ k \in 1 .. m /\ k \in Nat
        /\ \A a \in 1 .. m : l[a] \in V /\ ~IsRoot(M, l[a])
        /\ \A a, b \in 1 .. m : l[a] = l[b] => a = b
    BY <1>1, ListOf
  <2>2. \A a \in 1 .. m : l[a] # r
    <3> HIDE DEF l, m, V
    <3> QED  BY <2>1
  <2> QED  BY <2>1, <2>2
<1>3. l2 \in Seq(V) /\ Len(l2) = m /\ DOMAIN l2 = 1 .. m
      /\ l2[k] = r /\ \A n \in 1 .. m : n # k => l2[n] = l[n]
  <2>1. l2 = [l EXCEPT ![k] = r] /\ r \in V
    BY DEF ReplaceAt
  <2> HIDE DEF l, l2, V
  <2> QED  BY <1>2, <2>1 DEF m
<1>4. Swapped(h, g, p, l, k, r)
  OBVIOUS
<1> HIDE DEF l, l2, V, m
<1>5. m = Len(l)
  BY DEF m
<1>6. Trees([M EXCEPT ![p] = l2])
  <2>1. \A a, b \in DOMAIN l2 : l2[a] = l2[b] => a = b
    BY <1>2, <1>3
  <2>2. ASSUME NEW a \in DOMAIN l2
        PROVE  /\ IsRoot(M, l2[a]) \/ \E b \in DOMAIN M[p] : l2[a] = M[p][b]
               /\ rank[l2[a]] < rank[p]
    BY <1>1, <1>2, <1>3 DEF Ranked, l, V
  <2> QED  BY <1>1, <1>3, <2>1, <2>2, NewList DEF V
<1>7. ASSUME NEW n \in 1 .. m
      PROVE  g[l2[n]].next = After(l2, n) /\ g[l2[n]].prev = Before(l2, n)
  <2>1. CASE n = k
    <3>1. After(l2, k) = After(l, k) /\ Before(l2, k) = Before(l, k)
      <4>1. k # m => k + 1 \in 1 .. m /\ k + 1 # k
        BY <1>2
      <4>2. k # 1 => k - 1 \in 1 .. m /\ k - 1 # k
        BY <1>2
      <4> QED  BY <1>3, <1>5, <4>1, <4>2 DEF After, Before
    <3> QED  BY <1>3, <1>4, <2>1, <3>1 DEF Swapped
  <2>2. CASE n # k
    <3>1. l2[n] = l[n] /\ l[n] \in V /\ l[n] # l[k] /\ l[n] # r /\ n \in Nat
          /\ h[l[n]].next = After(l, n) /\ h[l[n]].prev = Before(l, n)
      BY <1>1, <1>2, <1>3, <2>2
    <3>2. g[l[n]].next = After(l2, n)
      <4>1. CASE n = k - 1
        <5>1. g[l[n]].next = r
          BY <1>2, <1>4, <3>1, <4>1 DEF Swapped, V
        <5>2. After(l2, n) = r
          BY <1>2, <1>3, <4>1 DEF After
        <5> QED  BY <5>1, <5>2
      <4>2. CASE n # k - 1
        <5>1. ~(k > 1 /\ l[n] = l[k - 1])
          BY <1>2, <4>2
        <5>2. g[l[n]].next = h[l[n]].next
          BY <1>4, <3>1, <5>1 DEF Swapped, V
        <5>3. n # m => n + 1 \in 1 .. m /\ n + 1 # k
          BY <1>2, <4>2
        <5> QED  BY <1>3, <1>5, <3>1, <5>2, <5>3 DEF After
      <4> QED  BY <4>1, <4>2
    <3>3. g[l[n]].prev = Before(l2, n)
      <4>1. CASE n = k + 1
        <5>1. g[l[n]].prev = r
          BY <1>2, <1>4, <1>5, <3>1, <4>1 DEF Swapped, V
        <5>2. Before(l2, n) = r
          BY <1>2, <1>3, <4>1 DEF Before
        <5> QED  BY <5>1, <5>2
      <4>2. CASE n # k + 1
        <5>1. ~(k < Len(l) /\ l[n] = l[k + 1])
          BY <1>2, <1>5, <4>2
        <5>2. g[l[n]].prev = h[l[n]].prev
          BY <1>4, <3>1, <5>1 DEF Swapped, V
        <5>3. n # 1 => n - 1 \in 1 .. m /\ n - 1 # k
          BY <1>2, <4>2
        <5> QED  BY <1>3, <1>5, <3>1, <5>2, <5>3 DEF Before
      <4> QED  BY <4>1, <4>2
    <3> QED  BY <3>1, <3>2, <3>3
  <2> QED  BY <2>1, <2>2
<1>8. g[p].child = First(l2)
  <2>1. l2 # << >> /\ l # << >> /\ First(l2) = l2[1] /\ First(l) = l[1] /\ 1 \in 1 .. m
    BY <1>2, <1>3, <1>5 DEF First
  <2>2. CASE k = 1
    BY <1>3, <1>4, <2>1, <2>2 DEF Swapped
  <2>3. CASE k # 1
    BY <1>1, <1>3, <1>4, <2>1, <2>3 DEF Swapped
  <2> QED  BY <2>2, <2>3
<1>9. \A q \in DOMAIN h \ {p} : g[q].child = h[q].child
  BY <1>4 DEF Swapped
<1>10. ASSUME NEW j \in DOMAIN h, \A n \in DOMAIN l2 : l2[n] # j
       PROVE  IF \E n \in DOMAIN l : l[n] = j THEN g[j].next = NULL /\ g[j].prev = NULL
              ELSE g[j].next = h[j].next /\ g[j].prev = h[j].prev
  <2>1. j # r
    BY <1>2, <1>3, <1>10
  <2>2. CASE j = l[k]
    BY <1>2, <1>4, <2>1, <2>2 DEF Swapped
  <2>3. CASE j # l[k]
    <3>1. \A n \in DOMAIN l : l[n] # j
      BY <1>2, <1>3, <1>10, <2>3
    <3>2. (k > 1 => j # l[k - 1]) /\ (k < Len(l) => j # l[k + 1])
      BY <1>2, <1>5, <3>1
    <3> QED  BY <1>4, <2>1, <2>3, <3>1, <3>2 DEF Swapped
  <2> QED  BY <2>2, <2>3
<1>11. Relinks(h, g, p, M[p], l2)
  BY <1>3, <1>7, <1>8, <1>9, <1>10 DEF Relinks, l
<1> QED  BY <1>6, <1>11, Relinked DEF l2

(* Where an item is, once.                                                 *)
LEMMA Places ==
    ASSUME NEW V, NEW l \in Seq(V), NEW k \in 1 .. Len(l), NEW r,
           \A a, b \in 1 .. Len(l) : l[a] = l[b] => a = b
    PROVE  /\ RemoveFirst(l, l[k]) = RemoveAt(l, k)
           /\ ReplaceAll(l, l[k], r) = ReplaceAt(l, k, r)
<1>1. {n \in 1 .. Len(l) : l[n] = l[k]} = {k}
  OBVIOUS
<1>2. Min({k}) = k
  BY DEF Min
<1>3. SelectInSeq(l, LAMBDA v : v = l[k]) = k
  BY <1>1, <1>2 DEF SelectInSeq
<1>4. RemoveFirst(l, l[k]) = RemoveAt(l, k)
  BY <1>3 DEF RemoveFirst
<1>5. ReplaceAll(l, l[k], r) = ReplaceAt(l, k, r)
  BY DEF ReplaceAll, ReplaceAt
<1> QED  BY <1>4, <1>5

(* What is not in a list cannot be removed from it.                        *)
LEMMA NowhereRemoved ==
    ASSUME NEW l, NEW i, \A n \in DOMAIN l : l[n] # i, DOMAIN l = 1 .. Len(l)
    PROVE  RemoveFirst(l, i) = l
BY DEF RemoveFirst
-----------------------------------------------------------------------------
(* Items that are deleted, new or have a new name.                         *)

(* A root goes with what is below it.                                      *)
LEMMA DeleteRight ==
    ASSUME NEW h, NEW M, Good(h, M), NEW i \in DOMAIN h, IsRoot(M, i), NEW T, IsTree(M, i, T)
    PROVE  Good(Tree!Keep(h, T), Tree!Keep(M, T))
<1> DEFINE V  == DOMAIN h
           W  == V \ T
           g  == Tree!Keep(h, T)
           M2 == Tree!Keep(M, T)
<1>1. DOMAIN M = V /\ Trees(M) /\ Linked(h, M) /\ IsHeap(h) /\ T \subseteq V
  BY DEF Good, IsTree
<1>2. /\ DOMAIN g = W /\ DOMAIN M2 = W /\ M2 = [q \in W |-> M2[q]]
      /\ \A q \in W : g[q] = h[q] /\ M2[q] = M[q]
  BY <1>1 DEF Tree!Keep
<1>3. IsHeap(g)
  <2>1. IsFiniteSet(W) /\ W \subseteq Item
    BY <1>1, FS_Difference DEF IsHeap
  <2>2. g \in [W -> ItemRecord]
    BY <1>1 DEF IsHeap, Tree!Keep
  <2> QED  BY <1>2, <2>1, <2>2 DEF IsHeap
<1> HIDE DEF V, W, g, M2
<1>4. ASSUME NEW q \in W, NEW a \in DOMAIN M[q]  PROVE M[q][a] \in W
  <2>1. q \in V /\ q \notin T /\ M[q][a] \in V
    BY <1>1, ListOf DEF W
  <2>2. ASSUME M[q][a] \in T  PROVE FALSE
    <3>1. M[q][a] # i
      BY <1>1, <2>1 DEF IsRoot
    <3>2. PICK x \in T : \E b \in DOMAIN M[x] : M[x][b] = M[q][a]
      BY <2>2, <3>1, ParentInTree
    <3>3. x = q
      BY <1>1, <2>1, <3>2 DEF Trees, Forest
    <3> QED  BY <2>1, <3>3
  <2> QED  BY <2>1, <2>2 DEF W
<1>5. \A q \in W : M[q] \in Seq(W)
  <2> TAKE q \in W
  <2>1. M[q] \in Seq(V)
    BY <1>1 DEF W, Trees, Forest
  <2> QED  BY <1>4, <2>1
<1>6. Trees(M2)
  <2>1. PICK rank : Ranked(M, rank)
    BY <1>1 DEF Trees
  <2>2. \A q \in W : q \in V
    BY DEF W
  <2>3. Ranked(M2, [q \in W |-> rank[q]])
    BY <1>1, <1>2, <1>4, <2>1, <2>2 DEF Ranked
  <2>4. Forest(M2)
    BY <1>1, <1>2, <1>5, <2>2 DEF Trees, Forest
  <2> QED  BY <1>2, <2>3, <2>4 DEF Trees
<1>7. ASSUME NEW j \in W, IsRoot(M2, j)  PROVE IsRoot(M, j)
  <2> SUFFICES ASSUME NEW q \in V, NEW a \in DOMAIN M[q], M[q][a] = j  PROVE FALSE
    BY <1>1 DEF IsRoot
  <2>1. CASE q \in T
    BY <1>1, <2>1 DEF IsTree, Closed, W
  <2>2. CASE q \notin T
    BY <1>2, <1>7, <2>2 DEF IsRoot, W
  <2> QED  BY <2>1, <2>2
<1>8. Linked(g, M2)
  <2>1. \A q \in W : q \in V
    BY DEF W
  <2>2. \A p \in W : IF g[p].ref THEN M2[p] = << >> ELSE g[p].child = First(M2[p])
    BY <1>1, <1>2, <2>1 DEF Linked, V
  <2>3. \A p \in W : \A n \in DOMAIN M2[p] :
           g[M2[p][n]].next = After(M2[p], n) /\ g[M2[p][n]].prev = Before(M2[p], n)
    BY <1>1, <1>2, <1>4, <2>1 DEF Linked, V
  <2>4. \A j \in W : IsRoot(M2, j) => g[j].next = NULL /\ g[j].prev = NULL
    BY <1>1, <1>2, <1>7, <2>1 DEF Linked, V
  <2> QED  BY <1>2, <2>2, <2>3, <2>4 DEF Linked
<1> QED  BY <1>2, <1>3, <1>6, <1>8 DEF Good, g, M2

(* The copies of their names are freed, each once.                         *)
LEMMA NamesDeleted ==
    ASSUME NEW h, IsHeap(h), NEW c, NEW N, NamesRight(h, c, N), NEW T \in SUBSET DOMAIN h
    PROVE  NamesRight(Tree!Keep(h, T), c - Cardinality({i \in T : OwnsName(h[i])}), Tree!Keep(N, T))
<1> DEFINE g == Tree!Keep(h, T)
           O == Owners(h)
           D == {i \in T : OwnsName(h[i])}
<1>1. DOMAIN g = DOMAIN h \ T /\ \A j \in DOMAIN g : g[j] = h[j]
  BY DEF Tree!Keep
<1>2. Tree!Keep(N, T) = [j \in DOMAIN g |-> g[j].string]
  BY <1>1 DEF NamesRight, Tree!Keep
<1>3. Owners(g) = O \ D /\ O \cap D = D
  BY <1>1 DEF Owners
<1>4. IsFiniteSet(O) /\ c = Cardinality(O)
  BY FS_Subset DEF IsHeap, Owners, NamesRight
<1> HIDE DEF g, O, D
<1>5. Cardinality(O \ D) = Cardinality(O) - Cardinality(D)
  BY <1>3, <1>4, FS_Difference
<1> QED  BY <1>2, <1>3, <1>4, <1>5 DEF NamesRight, g, D

(* Owning is a matter of the name.                                         *)
LEMMA SameNames ==
    ASSUME NEW h, NEW g, Alike(h, g), NEW c, NEW N, NamesRight(h, c, N)
    PROVE  NamesRight(g, c, N)
BY DEF Alike, NamesRight, Owners, OwnsName

(* The lists are a matter of the other fields.                             *)
SamePlaces(h, g) ==
    /\ DOMAIN g = DOMAIN h
    /\ \A j \in DOMAIN h : /\ g[j].next = h[j].next /\ g[j].prev = h[j].prev
                           /\ g[j].child = h[j].child /\ g[j].ref = h[j].ref

(* A heap with the same pointers holds the same trees.                     *)
LEMMA SameLists ==
    ASSUME NEW h, NEW M, Good(h, M), NEW g, IsHeap(g), SamePlaces(h, g)
    PROVE  Good(g, M)
<1>1. /\ DOMAIN g = DOMAIN h /\ DOMAIN M = DOMAIN h /\ Trees(M)
      /\ \A j \in DOMAIN h : /\ g[j].next = h[j].next /\ g[j].prev = h[j].prev
                             /\ g[j].child = h[j].child /\ g[j].ref = h[j].ref
  BY DEF Good, SamePlaces
<1>2. \A p \in DOMAIN h : \A n \in DOMAIN M[p] : M[p][n] \in DOMAIN h
  BY <1>1, ListOf
<1>3. Linked(g, M)
  BY <1>1, <1>2 DEF Linked, Good
<1> QED  BY <1>1, <1>3 DEF Good

(* An item that is in no list and has no members is a tree.                *)
LEMMA NewRight ==
    ASSUME NEW h, NEW M, Good(h, M), NEW i \in Item \ DOMAIN h, NEW item \in ItemRecord,
           item.next = NULL, item.prev = NULL, item.ref \/ item.child = NULL
    PROVE  /\ Good(WithItem(h, i, item), Tree!With(M, i, << >>))
           /\ IsRoot(Tree!With(M, i, << >>), i)
<1> DEFINE V  == DOMAIN h
           W  == DOMAIN h \union {i}
           g  == WithItem(h, i, item)
           M2 == Tree!With(M, i, << >>)
<1>1. DOMAIN M = V /\ Trees(M) /\ Linked(h, M) /\ IsHeap(h)
  BY DEF Good
<1>2. /\ DOMAIN g = W /\ DOMAIN M2 = W /\ M2 = [q \in W |-> M2[q]]
      /\ g[i] = item /\ M2[i] = << >>
      /\ \A q \in V : q # i /\ q \in W /\ g[q] = h[q] /\ M2[q] = M[q]
  BY <1>1 DEF WithItem, Tree!With
<1>3. IsHeap(g)
  <2>1. IsFiniteSet(W) /\ W \subseteq Item
    BY <1>1, FS_AddElement DEF IsHeap
  <2>2. \A q \in W : g[q] \in ItemRecord
    BY <1>1 DEF IsHeap, WithItem
  <2>3. g \in [W -> ItemRecord]
    BY <2>2 DEF WithItem
  <2> QED  BY <1>2, <2>1, <2>3 DEF IsHeap
<1>4. \A q \in W : q = i \/ q \in V
  OBVIOUS
<1> HIDE DEF V, W, g, M2
<1>5. \A q \in V : M[q] \in Seq(V) /\ \A a \in DOMAIN M[q] : M[q][a] \in V /\ M[q][a] # i
  BY <1>1, <1>2, ListOf
<1>a. ASSUME NEW q \in W, NEW a \in DOMAIN M2[q]
      PROVE  q \in V /\ q # i /\ a \in DOMAIN M[q] /\ M2[q] = M[q] /\ M[q][a] \in V /\ M[q][a] # i
  <2>1. q # i
    <3>1. DOMAIN << >> = {}
      OBVIOUS
    <3> QED  BY <1>2, <1>a, <3>1
  <2> QED  BY <1>2, <1>4, <1>5, <1>a, <2>1
<1>6. Trees(M2)
  <2>1. PICK rank : Ranked(M, rank)
    BY <1>1 DEF Trees
  <2> DEFINE r == [q \in W |-> IF q = i THEN 0 ELSE rank[q]]
  <2>2. r \in [W -> Nat]
    BY <1>1, <1>4, <2>1 DEF Ranked
  <2>3. Ranked(M2, r)
    <3> SUFFICES ASSUME NEW q \in W, NEW a \in DOMAIN M2[q]  PROVE r[M2[q][a]] < r[q]
      BY <1>2, <2>2 DEF Ranked
    <3>1. q \in V /\ M2[q] = M[q] /\ M[q][a] \in V /\ M[q][a] # i /\ q # i
      BY <1>a
    <3>2. rank[M[q][a]] < rank[q] /\ M[q][a] \in W
      BY <1>1, <1>2, <2>1, <3>1 DEF Ranked
    <3> QED  BY <1>2, <3>1, <3>2
  <2>4. \A q \in W : M2[q] \in Seq(W)
    <3>1. \A q \in V : M[q] \in Seq(W)
      BY <1>5 DEF W, V
    <3>2. << >> \in Seq(W)
      OBVIOUS
    <3> TAKE q \in W
    <3>3. CASE q = i
      BY <1>2, <3>2, <3>3
    <3>4. CASE q # i
      BY <1>2, <1>4, <3>1, <3>4
    <3> QED  BY <3>3, <3>4
  <2>5. Forest(M2)
    <3>1. ASSUME NEW q \in W, NEW r2 \in W, NEW a \in DOMAIN M2[q], NEW b \in DOMAIN M2[r2],
                 M2[q][a] = M2[r2][b]
          PROVE  q = r2 /\ a = b
      <4>1. q \in V /\ r2 \in V /\ M[q][a] = M[r2][b] /\ a \in DOMAIN M[q] /\ b \in DOMAIN M[r2]
        BY <1>a, <3>1
      <4> QED  BY <1>1, <4>1 DEF Trees, Forest
    <3> QED  BY <1>2, <2>4, <3>1 DEF Forest
  <2> HIDE DEF r
  <2> QED  BY <1>2, <2>3, <2>5 DEF Trees
<1>7. IsRoot(M2, i)
  BY <1>2, <1>a DEF IsRoot
<1>8. ASSUME NEW j \in V, IsRoot(M2, j)  PROVE IsRoot(M, j)
  <2> SUFFICES ASSUME NEW q \in V, NEW a \in DOMAIN M[q]  PROVE M[q][a] # j
    BY <1>1 DEF IsRoot
  <2>1. q \in W /\ M2[q] = M[q] /\ W = DOMAIN M2
    BY <1>2
  <2> QED  BY <1>8, <2>1 DEF IsRoot
<1>9. Linked(g, M2)
  <2>1. \A p \in W : IF g[p].ref THEN M2[p] = << >> ELSE g[p].child = First(M2[p])
    BY <1>1, <1>2, <1>4 DEF Linked, V, First
  <2>2. \A p \in W : \A n \in DOMAIN M2[p] :
           g[M2[p][n]].next = After(M2[p], n) /\ g[M2[p][n]].prev = Before(M2[p], n)
    <3> TAKE p \in W
    <3> TAKE n \in DOMAIN M2[p]
    <3>1. p \in V /\ n \in DOMAIN M[p] /\ M2[p] = M[p] /\ M[p][n] \in V
      BY <1>a
    <3>2. g[M[p][n]] = h[M[p][n]]
      BY <1>2, <3>1
    <3> QED  BY <1>1, <3>1, <3>2 DEF Linked, V
  <2>3. \A j \in W : IsRoot(M2, j) => g[j].next = NULL /\ g[j].prev = NULL
    BY <1>1, <1>2, <1>4, <1>8 DEF Linked, V
  <2> QED  BY <1>2, <2>1, <2>2, <2>3 DEF Linked
<1> QED  BY <1>2, <1>3, <1>6, <1>7, <1>9 DEF Good, g, M2

(* A new item has no name, and owns none.                                  *)
LEMMA NamesNew ==
    ASSUME NEW h, NEW c, NEW N, NamesRight(h, c, N), NEW i, i \notin DOMAIN h,
           NEW item, item.string = NoName
    PROVE  NamesRight(WithItem(h, i, item), c, Tree!With(N, i, NoName))
<1> DEFINE g == WithItem(h, i, item)
<1>1. DOMAIN g = DOMAIN h \union {i} /\ g[i] = item /\ \A j \in DOMAIN h : g[j] = h[j]
  BY DEF WithItem
<1>2. Owners(g) = Owners(h)
  BY <1>1 DEF Owners, OwnsName
<1>3. Tree!With(N, i, NoName) = [j \in DOMAIN g |-> g[j].string]
  BY <1>1 DEF NamesRight, Tree!With
<1> QED  BY <1>2, <1>3 DEF NamesRight
-----------------------------------------------------------------------------
(* Assignments to pointers.                                                *)

(* g is h with another value in one field of one item.                     *)
Assigned(h, g, i, f, v) ==
    /\ IsHeap(g) /\ Alike(h, g)
    /\ \A j \in DOMAIN h :
          /\ g[j].next  = IF j = i /\ f = "next"  THEN v ELSE h[j].next
          /\ g[j].prev  = IF j = i /\ f = "prev"  THEN v ELSE h[j].prev
          /\ g[j].child = IF j = i /\ f = "child" THEN v ELSE h[j].child

(* An assignment changes one field of one item, and the heap stays a heap. *)
LEMMA Assign ==
    ASSUME NEW h, IsHeap(h), NEW i \in DOMAIN h, NEW v \in Pointer
    PROVE  /\ Assigned(h, [h EXCEPT ![i].next = v], i, "next", v)
           /\ Assigned(h, [h EXCEPT ![i].prev = v], i, "prev", v)
           /\ Assigned(h, [h EXCEPT ![i].child = v], i, "child", v)
<1>1. h[i] \in ItemRecord /\ h \in [DOMAIN h -> ItemRecord]
  BY DEF IsHeap
<1>2. ASSUME NEW x \in ItemRecord
      PROVE  [h EXCEPT ![i] = x] \in [DOMAIN h -> ItemRecord]
  BY <1>1, <1>2
<1>3. Assigned(h, [h EXCEPT ![i].next = v], i, "next", v)
  <2>1. [h[i] EXCEPT !.next = v] \in ItemRecord
    BY <1>1 DEF ItemRecord
  <2>2. [h EXCEPT ![i].next = v] \in [DOMAIN h -> ItemRecord]
    BY <1>2, <2>1
  <2>3. IsHeap([h EXCEPT ![i].next = v])
    BY <2>2 DEF IsHeap
  <2> QED  BY <1>1, <2>3 DEF Assigned, Alike, ItemRecord
<1>4. Assigned(h, [h EXCEPT ![i].prev = v], i, "prev", v)
  <2>1. [h[i] EXCEPT !.prev = v] \in ItemRecord
    BY <1>1 DEF ItemRecord
  <2>2. [h EXCEPT ![i].prev = v] \in [DOMAIN h -> ItemRecord]
    BY <1>2, <2>1
  <2>3. IsHeap([h EXCEPT ![i].prev = v])
    BY <2>2 DEF IsHeap
  <2> QED  BY <1>1, <2>3 DEF Assigned, Alike, ItemRecord
<1>5. Assigned(h, [h EXCEPT ![i].child = v], i, "child", v)
  <2>1. [h[i] EXCEPT !.child = v] \in ItemRecord
    BY <1>1 DEF ItemRecord
  <2>2. [h EXCEPT ![i].child = v] \in [DOMAIN h -> ItemRecord]
    BY <1>2, <2>1
  <2>3. IsHeap([h EXCEPT ![i].child = v])
    BY <2>2 DEF IsHeap
  <2> QED  BY <1>1, <2>3 DEF Assigned, Alike, ItemRecord
<1> QED  BY <1>3, <1>4, <1>5

(* Set assigns, unless there is no item.                                   *)
LEMMA SetIs ==
    ASSUME NEW h, IsHeap(h), NEW i \in Pointer, i # NULL => i \in DOMAIN h, NEW v \in Pointer
    PROVE  /\ Assigned(h, Set(h, i, "next", v), i, "next", v)
           /\ Assigned(h, Set(h, i, "prev", v), i, "prev", v)
<1>1. CASE i = NULL
  <2>1. i \notin DOMAIN h
    BY <1>1, NamesOK DEF IsHeap
  <2> QED  BY <1>1, <2>1 DEF Set, Assigned, Alike
<1>2. CASE i # NULL
  <2>1. /\ Set(h, i, "next", v) = [h EXCEPT ![i].next = v]
        /\ Set(h, i, "prev", v) = [h EXCEPT ![i].prev = v]
    BY <1>2 DEF Set
  <2>2. /\ Assigned(h, [h EXCEPT ![i].next = v], i, "next", v)
        /\ Assigned(h, [h EXCEPT ![i].prev = v], i, "prev", v)
    BY <1>2, Assign
  <2> QED  BY <2>1, <2>2
<1> QED  BY <1>1, <1>2

-----------------------------------------------------------------------------
(* The operations on items.                                                *)

(* The memory m holds the trees M with the names N.                        *)
Right(m, M, N) ==
    /\ m = [heap |-> m.heap, copies |-> m.copies]
    /\ Good(m.heap, M) /\ NamesRight(m.heap, m.copies, N)

(* The root i may become a member of p: p is not below it.                 *)
CanJoin(M, i, p) ==
    /\ i \in DOMAIN M /\ p \in DOMAIN M /\ IsRoot(M, i)
    /\ \E rank : Ranked(M, rank) /\ rank[i] < rank[p]

(* A root becomes the last member: the child, or the one after the last.   *)
LinkLast(h, p, l, i) ==
    IF l = << >> THEN [h EXCEPT ![p].child = i] ELSE SuffixObject(h, l[Len(l)], i)

(* The heap then holds the trees in which it is the last member.           *)
LEMMA LinkedLast ==
    ASSUME NEW m, NEW M, NEW N, Right(m, M, N), NEW p, NEW i, CanJoin(M, i, p), ~m.heap[p].ref,
           NEW g, g = LinkLast(m.heap, p, M[p], i)
    PROVE  /\ Right([heap |-> g, copies |-> m.copies],
                    [M EXCEPT ![p] = InsertAt(M[p], Len(M[p]) + 1, i)], N)
           /\ Alike(m.heap, g)
<1> DEFINE h == m.heap
           l == M[p]
           n == Len(l)
           k == n + 1
<1>1. /\ m = [heap |-> h, copies |-> m.copies] /\ Good(h, M) /\ NamesRight(h, m.copies, N)
      /\ i \in DOMAIN h /\ p \in DOMAIN h /\ IsRoot(M, i) /\ ~h[p].ref
  BY DEF Right, CanJoin, Good
<1>2. PICK rank : Ranked(M, rank) /\ rank[i] < rank[p]
  BY DEF CanJoin
<1>3. /\ h[p].child = First(l) /\ h[i].next = NULL /\ h[i].prev = NULL
      /\ IsHeap(h) /\ Trees(M) /\ DOMAIN M = DOMAIN h
      /\ \A a \in DOMAIN l : h[l[a]].next = After(l, a)
  BY <1>1 DEF Good, Linked
<1>4. /\ n \in Nat /\ DOMAIN l = 1 .. n /\ l \in Seq(DOMAIN h)
      /\ \A a \in 1 .. n : l[a] \in DOMAIN h /\ l[a] # i
  <2>1. /\ n \in Nat /\ DOMAIN l = 1 .. n /\ l \in Seq(DOMAIN h)
        /\ \A a \in 1 .. n : l[a] \in DOMAIN h /\ ~IsRoot(M, l[a])
    BY <1>1, <1>3, ListOf
  <2> HIDE DEF l, n, h
  <2> QED  BY <1>1, <2>1
<1>5. NULL \notin DOMAIN h /\ i \in Pointer /\ \A a \in 1 .. n : l[a] \in Pointer
  BY <1>1, <1>3, <1>4, NamesOK DEF IsHeap, Pointer
<1>7. g = IF l = << >> THEN [h EXCEPT ![p].child = i]
          ELSE [[h EXCEPT ![l[n]].next = i] EXCEPT ![i].prev = l[n]]
  <2>1. SuffixObject(h, l[n], i) = [[h EXCEPT ![l[n]].next = i] EXCEPT ![i].prev = l[n]]
    BY DEF SuffixObject
  <2> QED  BY <2>1 DEF LinkLast
<1> HIDE DEF h, l, n
<1>8. IsHeap(g) /\ Alike(h, g) /\ Joined(h, g, p, l, k, i)
  <2>0. n = Len(l)
    BY DEF n
  <2>1. CASE l = << >>
    <3>1. n = 0 /\ g = [h EXCEPT ![p].child = i]
      BY <1>3, <1>7, <2>0, <2>1 DEF First
    <3>2. Assigned(h, g, p, "child", i)
      <4>1. Assigned(h, [h EXCEPT ![p].child = i], p, "child", i)
        BY <1>1, <1>3, <1>5, Assign
      <4> QED  BY <3>1, <4>1
    <3> QED  BY <1>3, <2>0, <3>1, <3>2 DEF Assigned, Joined
  <2>2. CASE l # << >>
    <3> DEFINE f == [h EXCEPT ![l[n]].next = i]
    <3>1. n \in 1 .. n /\ n # 0 /\ g = [f EXCEPT ![i].prev = l[n]]
      BY <1>3, <1>4, <1>5, <1>7, <2>0, <2>2 DEF First
    <3> HIDE DEF f
    <3>2. Assigned(h, f, l[n], "next", i)
      BY <1>3, <1>4, <1>5, <3>1, Assign DEF f
    <3>3. Assigned(f, g, i, "prev", l[n])
      <4>1. IsHeap(f) /\ i \in DOMAIN f /\ l[n] \in Pointer
        BY <1>1, <1>5, <3>1, <3>2 DEF Assigned, Alike
      <4>2. Assigned(f, [f EXCEPT ![i].prev = l[n]], i, "prev", l[n])
        BY <4>1, Assign
      <4> QED  BY <3>1, <4>2
    <3>4. IsHeap(g) /\ Alike(h, g)
      BY <3>2, <3>3 DEF Assigned, Alike
    <3>5. k - 1 = n /\ k > 1 /\ k # 1 /\ ~(k <= Len(l))
      BY <1>4, <2>0, <3>1
    <3>6. Joined(h, g, p, l, k, i)
      <4> SUFFICES ASSUME NEW j \in DOMAIN h
                   PROVE  /\ g[j].next = IF j = i THEN NULL
                                         ELSE IF j = l[n] THEN i ELSE h[j].next
                          /\ g[j].prev = IF j = i THEN l[n] ELSE h[j].prev
                          /\ g[j].child = h[j].child
        BY <2>0, <3>5 DEF Joined
      <4>1. j \in DOMAIN f /\ l[n] # i
        BY <1>4, <3>1, <3>2 DEF Assigned, Alike
      <4> QED  BY <1>3, <3>2, <3>3, <4>1 DEF Assigned
    <3> QED  BY <3>4, <3>6
  <2> QED  BY <2>1, <2>2
<1>9. Good(g, [M EXCEPT ![p] = InsertAt(M[p], Len(M[p]) + 1, i)])
  <2>1. k \in 1 .. Len(M[p]) + 1 /\ k = Len(M[p]) + 1
    BY <1>4 DEF l, n
  <2> QED  BY <1>1, <1>2, <1>8, <2>1, JoinRight DEF l
<1>10. NamesRight(g, m.copies, N)
  BY <1>1, <1>8, SameNames
<1> QED  BY <1>8, <1>9, <1>10 DEF Right, h

(* AddItemToArray makes a root the last member.                            *)
LEMMA AddRight ==
    ASSUME NEW m, NEW M, NEW N, Right(m, M, N), NEW p, NEW i, CanJoin(M, i, p), ~m.heap[p].ref
    PROVE  Right(AddItemToArray(m, p, i), [M EXCEPT ![p] = InsertAt(M[p], Len(M[p]) + 1, i)], N)
<1> DEFINE h == m.heap
           l == M[p]
           g == LinkLast(h, p, l, i)
<1>1. /\ m = [heap |-> h, copies |-> m.copies] /\ Good(h, M) /\ p \in DOMAIN h /\ ~h[p].ref
  BY DEF Right, CanJoin, Good
<1>2. List(h, p) = l /\ h[p].child = First(l)
  BY <1>1, ListIs DEF Good, Linked
<1>3. h[p].child = NULL <=> l = << >>
  <2>1. ASSUME l # << >>  PROVE l[1] \in Item
    <3>1. l \in Seq(DOMAIN h) /\ DOMAIN h \subseteq Item
      BY <1>1 DEF Good, IsHeap, Trees, Forest
    <3> HIDE DEF l, h
    <3> QED  BY <2>1, <3>1
  <2> QED  BY <1>2, <2>1, NamesOK DEF First
<1>4. AddItemToArray(m, p, i) = [heap |-> g, copies |-> m.copies]
  <2>1. Last(List(h, p)) = l[Len(l)]
    BY <1>2 DEF Last
  <2> HIDE DEF l
  <2>2. AddItemToArray(m, p, i) = [m EXCEPT !.heap = g]
    BY <1>1, <1>3, <2>1 DEF AddItemToArray, LinkLast
  <2> HIDE DEF g, h
  <2> QED  BY <1>1, <2>2
<1>5. Right([heap |-> g, copies |-> m.copies], [M EXCEPT ![p] = InsertAt(M[p], Len(M[p]) + 1, i)], N)
  <2> HIDE DEF g
  <2> QED  BY LinkedLast DEF g
<1> QED  BY <1>4, <1>5

(* Delete frees a root with what is below it, and the copies of their      *)
(* names.                                                                  *)
LEMMA DeleteKeeps ==
    ASSUME NEW m, NEW M, NEW N, Right(m, M, N), NEW i, i \in DOMAIN M, IsRoot(M, i),
           NEW T, IsTree(M, i, T)
    PROVE  Right(Delete(m, i), Tree!Keep(M, T), Tree!Keep(N, T))
<1> DEFINE h == m.heap
<1>1. Good(h, M) /\ NamesRight(h, m.copies, N) /\ i \in DOMAIN h /\ IsHeap(h) /\ T \in SUBSET DOMAIN h
  BY DEF Right, Good, IsTree
<1>2. Freed(h, i) = T
  BY <1>1, FreedIsTree
<1>3. Delete(m, i) = [heap |-> Tree!Keep(h, T), copies |-> m.copies - Cardinality({j \in T : OwnsName(h[j])})]
  BY <1>2 DEF Delete, Tree!Keep
<1> HIDE DEF h
<1>4. Good(Tree!Keep(h, T), Tree!Keep(M, T))
  BY <1>1, DeleteRight
<1>5. NamesRight(Tree!Keep(h, T), m.copies - Cardinality({j \in T : OwnsName(h[j])}), Tree!Keep(N, T))
  BY <1>1, NamesDeleted
<1> QED  BY <1>3, <1>4, <1>5 DEF Right

(* What is known of the list of an item.                                   *)
LEMMA Around ==
    ASSUME NEW h, NEW M, Good(h, M), NEW p \in DOMAIN h, ~h[p].ref, NEW k \in 1 .. Len(M[p])
    PROVE  LET l == M[p] IN
           /\ l[k] \in DOMAIN h /\ l[k] \in Pointer /\ ~IsRoot(M, l[k])
           /\ Len(l) \in Nat /\ k \in Nat
           /\ h[l[k]].next = After(l, k) /\ h[l[k]].prev = Before(l, k)
           /\ After(l, k) \in Pointer /\ (After(l, k) # NULL => After(l, k) \in DOMAIN h)
           /\ Before(l, k) \in Pointer /\ (Before(l, k) # NULL => Before(l, k) \in DOMAIN h)
           /\ h[p].child = l[1] /\ (l[1] = l[k] <=> k = 1)
           /\ \A j \in DOMAIN h : /\ j = After(l, k) <=> k < Len(l) /\ j = l[k + 1]
                                  /\ j = Before(l, k) <=> k > 1 /\ j = l[k - 1]
<1> DEFINE l == M[p]
<1>1. /\ IsHeap(h) /\ Trees(M) /\ DOMAIN M = DOMAIN h /\ h[p].child = First(l)
      /\ \A a \in DOMAIN l : h[l[a]].next = After(l, a) /\ h[l[a]].prev = Before(l, a)
  BY DEF Good, Linked
<1>2. /\ l \in Seq(DOMAIN h) /\ Len(l) \in Nat /\ DOMAIN l = 1 .. Len(l)
      /\ \A a \in 1 .. Len(l) : l[a] \in DOMAIN h /\ ~IsRoot(M, l[a])
      /\ \A a, b \in 1 .. Len(l) : l[a] = l[b] => a = b
  BY <1>1, ListOf
<1>3. k \in 1 .. Len(l)
  OBVIOUS
<1> HIDE DEF l
<1>4. \A j \in DOMAIN h : j \in Pointer /\ j # NULL
  BY <1>1, NamesOK DEF IsHeap, Pointer
<1> DEFINE n == Len(l)
<1>5. n \in Nat /\ k \in Nat /\ k >= 1 /\ k <= n
  BY <1>2, <1>3
<1>6. /\ After(l, k) \in Pointer /\ (After(l, k) # NULL => After(l, k) \in DOMAIN h)
      /\ \A j \in DOMAIN h : j = After(l, k) <=> k < Len(l) /\ j = l[k + 1]
  <2> HIDE DEF n
  <2>1. CASE k = n
    <3>1. After(l, k) = NULL /\ ~(k < n)
      BY <1>5, <2>1 DEF After, n
    <3> QED  BY <1>4, <3>1 DEF Pointer, n
  <2>2. CASE k # n
    <3>1. k < n /\ k + 1 \in Nat /\ k + 1 >= 1 /\ k + 1 <= n
      BY <1>5, <2>2
    <3>2. k + 1 \in 1 .. n
      BY <1>5, <3>1
    <3>3. After(l, k) = l[k + 1]
      BY <2>2 DEF After, n
    <3>4. l[k + 1] \in DOMAIN h
      BY <1>2, <3>2 DEF n
    <3> QED  BY <1>4, <3>1, <3>3, <3>4 DEF n
  <2> QED  BY <2>1, <2>2
<1>7. /\ Before(l, k) \in Pointer /\ (Before(l, k) # NULL => Before(l, k) \in DOMAIN h)
      /\ \A j \in DOMAIN h : j = Before(l, k) <=> k > 1 /\ j = l[k - 1]
  <2> HIDE DEF n
  <2>1. CASE k = 1
    <3>1. Before(l, k) = NULL /\ ~(k > 1)
      BY <1>5, <2>1 DEF Before
    <3> QED  BY <1>4, <3>1 DEF Pointer
  <2>2. CASE k # 1
    <3>1. k - 1 \in 1 .. n /\ k > 1
      BY <1>5, <2>2
    <3>2. Before(l, k) = l[k - 1] /\ l[k - 1] \in DOMAIN h
      BY <1>2, <2>2, <3>1 DEF Before, n
    <3> QED  BY <1>4, <3>1, <3>2
  <2> QED  BY <2>1, <2>2
<1>8. h[p].child = l[1] /\ (l[1] = l[k] <=> k = 1)
  BY <1>1, <1>2, <1>3 DEF First
<1> QED  BY <1>1, <1>2, <1>3, <1>4, <1>5, <1>6, <1>7, <1>8 DEF l

(* DetachItemViaPointer makes a member a root.                             *)
LEMMA DetachRight ==
    ASSUME NEW m, NEW M, NEW N, Right(m, M, N), NEW p \in DOMAIN M, ~m.heap[p].ref,
           NEW k \in 1 .. Len(M[p])
    PROVE  Right(DetachItemViaPointer(m, p, M[p][k]), [M EXCEPT ![p] = RemoveAt(M[p], k)], N)
<1> DEFINE h  == m.heap
           l  == M[p]
           i  == l[k]
           f1 == Set(h, Before(l, k), "next", After(l, k))
           f2 == Set(f1, After(l, k), "prev", Before(l, k))
           c  == IF f2[p].child = i THEN After(l, k) ELSE f2[p].child
           f3 == [f2 EXCEPT ![p].child = c]
           f4 == [f3 EXCEPT ![i].prev = NULL]
           g  == [f4 EXCEPT ![i].next = NULL]
<1>1. /\ m = [heap |-> h, copies |-> m.copies] /\ Good(h, M) /\ NamesRight(h, m.copies, N)
      /\ DOMAIN M = DOMAIN h /\ IsHeap(h)
  BY DEF Right, Good
<1>2. /\ i \in DOMAIN h /\ i \in Pointer
      /\ Len(l) \in Nat /\ k \in Nat
      /\ h[i].next = After(l, k) /\ h[i].prev = Before(l, k)
      /\ After(l, k) \in Pointer /\ (After(l, k) # NULL => After(l, k) \in DOMAIN h)
      /\ Before(l, k) \in Pointer /\ (Before(l, k) # NULL => Before(l, k) \in DOMAIN h)
      /\ h[p].child = l[1] /\ (l[1] = l[k] <=> k = 1)
      /\ \A j \in DOMAIN h : /\ j = After(l, k) <=> k < Len(l) /\ j = l[k + 1]
                             /\ j = Before(l, k) <=> k > 1 /\ j = l[k - 1]
  <2> HIDE DEF h
  <2> QED  BY <1>1, Around
<1>3. NULL \notin DOMAIN h /\ NULL \in Pointer /\ p \in DOMAIN h
  BY <1>1, NamesOK DEF IsHeap, Pointer
<1>4. DetachItemViaPointer(m, p, i) = [heap |-> g, copies |-> m.copies]
  <2>1. i # NULL /\ m.heap[i] = h[i]
    BY <1>2, <1>3
  <2> HIDE DEF i, l
  <2>2. DetachItemViaPointer(m, p, i) =
           [m EXCEPT !.heap = [f2 EXCEPT ![p].child = IF @ = i THEN After(l, k) ELSE @,
                                         ![i].prev = NULL, ![i].next = NULL]]
    BY <1>2, <2>1 DEF DetachItemViaPointer
  <2> HIDE DEF f2, h
  <2>3. [f2 EXCEPT ![p].child = IF @ = i THEN After(l, k) ELSE @, ![i].prev = NULL, ![i].next = NULL] = g
    OBVIOUS
  <2> HIDE DEF g
  <2> QED  BY <1>1, <2>2, <2>3
<1> HIDE DEF h, f1, f2, f3, f4, g
<1>5. Assigned(h, f1, Before(l, k), "next", After(l, k))
  BY <1>1, <1>2, SetIs DEF f1
<1>6. IsHeap(f1) /\ DOMAIN f1 = DOMAIN h
  BY <1>5 DEF Assigned, Alike
<1>7. Assigned(f1, f2, After(l, k), "prev", Before(l, k))
  BY <1>2, <1>6, SetIs DEF f2
<1>8. IsHeap(f2) /\ DOMAIN f2 = DOMAIN h /\ f2[p].child = l[1]
  BY <1>2, <1>3, <1>5, <1>6, <1>7 DEF Assigned, Alike
<1>9. c \in Pointer /\ c = IF k = 1 THEN After(l, k) ELSE l[1]
  <2>1. h[p] \in ItemRecord
    BY <1>1, <1>3 DEF IsHeap
  <2> QED  BY <1>2, <1>8, <2>1 DEF ItemRecord
<1> HIDE DEF c
<1>10. Assigned(f2, f3, p, "child", c)
  BY <1>3, <1>8, <1>9, Assign DEF f3
<1>11. IsHeap(f3) /\ DOMAIN f3 = DOMAIN h
  BY <1>8, <1>10 DEF Assigned, Alike
<1>12. Assigned(f3, f4, i, "prev", NULL)
  BY <1>2, <1>3, <1>11, Assign DEF f4
<1>13. IsHeap(f4) /\ DOMAIN f4 = DOMAIN h
  BY <1>11, <1>12 DEF Assigned, Alike
<1>14. Assigned(f4, g, i, "next", NULL)
  BY <1>2, <1>3, <1>13, Assign DEF g
<1>15. IsHeap(g) /\ Alike(h, g)
  BY <1>5, <1>6, <1>7, <1>8, <1>10, <1>11, <1>12, <1>13, <1>14 DEF Assigned, Alike
<1>16. Left(h, g, p, l, k)
  <2> SUFFICES ASSUME NEW j \in DOMAIN h
               PROVE  /\ g[j].next = IF j = l[k] THEN NULL
                            ELSE IF k > 1 /\ j = l[k - 1] THEN After(l, k) ELSE h[j].next
                      /\ g[j].prev = IF j = l[k] THEN NULL
                            ELSE IF k < Len(l) /\ j = l[k + 1] THEN Before(l, k) ELSE h[j].prev
                      /\ g[j].child = IF j = p /\ k = 1 THEN After(l, k) ELSE h[j].child
    BY DEF Left
  <2> HIDE DEF l
  <2>1. /\ f1[j].next = IF j = Before(l, k) THEN After(l, k) ELSE h[j].next
        /\ f1[j].prev = h[j].prev /\ f1[j].child = h[j].child
    BY <1>5 DEF Assigned
  <2>2. /\ f2[j].prev = IF j = After(l, k) THEN Before(l, k) ELSE f1[j].prev
        /\ f2[j].next = f1[j].next /\ f2[j].child = f1[j].child
    BY <1>6, <1>7 DEF Assigned
  <2>3. /\ f3[j].child = IF j = p THEN c ELSE f2[j].child
        /\ f3[j].next = f2[j].next /\ f3[j].prev = f2[j].prev
    BY <1>8, <1>10 DEF Assigned
  <2>4. /\ f4[j].prev = IF j = i THEN NULL ELSE f3[j].prev
        /\ f4[j].next = f3[j].next /\ f4[j].child = f3[j].child
    BY <1>11, <1>12 DEF Assigned
  <2>5. /\ g[j].next = IF j = i THEN NULL ELSE f4[j].next
        /\ g[j].prev = f4[j].prev /\ g[j].child = f4[j].child
    BY <1>13, <1>14 DEF Assigned
  <2>6. /\ j = After(l, k) <=> k < Len(l) /\ j = l[k + 1]
        /\ j = Before(l, k) <=> k > 1 /\ j = l[k - 1]
    BY <1>2
  <2>7. g[j].child = IF j = p /\ k = 1 THEN After(l, k) ELSE h[j].child
    BY <1>2, <1>9, <2>1, <2>2, <2>3, <2>4, <2>5
  <2> QED  BY <2>1, <2>2, <2>3, <2>4, <2>5, <2>6, <2>7
<1>17. Good(g, [M EXCEPT ![p] = RemoveAt(M[p], k)])
  BY <1>1, <1>3, <1>15, <1>16, LeaveRight DEF h
<1>18. NamesRight(g, m.copies, N)
  BY <1>1, <1>15, SameNames
<1> QED  BY <1>4, <1>17, <1>18 DEF Right

(* ReplaceItemViaPointer puts a root in the place of a member, which goes  *)
(* with what is below it.                                                  *)
LEMMA ReplaceRight ==
    ASSUME NEW m, NEW M, NEW N, Right(m, M, N), NEW p, ~m.heap[p].ref, NEW k \in 1 .. Len(M[p]),
           NEW r, CanJoin(M, r, p), NEW T, IsTree(M, M[p][k], T)
    PROVE  Right(ReplaceItemViaPointer(m, p, M[p][k], r),
                 Tree!Keep([M EXCEPT ![p] = ReplaceAt(M[p], k, r)], T), Tree!Keep(N, T))
<1> DEFINE h  == m.heap
           l  == M[p]
           i  == l[k]
           A  == After(l, k)
           B  == Before(l, k)
           f1 == [h EXCEPT ![r].next = A]
           f2 == [f1 EXCEPT ![r].prev = B]
           f3 == Set(f2, A, "prev", r)
           f4 == Set(f3, B, "next", r)
           c  == IF f4[p].child = i THEN r ELSE f4[p].child
           f5 == [f4 EXCEPT ![p].child = c]
           f6 == [f5 EXCEPT ![i].next = NULL]
           g  == [f6 EXCEPT ![i].prev = NULL]
           M2 == [M EXCEPT ![p] = ReplaceAt(M[p], k, r)]
<1>1. /\ m = [heap |-> h, copies |-> m.copies] /\ Good(h, M) /\ NamesRight(h, m.copies, N)
      /\ DOMAIN M = DOMAIN h /\ IsHeap(h) /\ Trees(M)
      /\ p \in DOMAIN h /\ r \in DOMAIN h /\ IsRoot(M, r) /\ ~h[p].ref
  BY DEF Right, Good, CanJoin
<1>2. /\ i \in DOMAIN h /\ i \in Pointer /\ ~IsRoot(M, i)
      /\ Len(l) \in Nat /\ k \in Nat
      /\ h[i].next = A /\ h[i].prev = B
      /\ A \in Pointer /\ (A # NULL => A \in DOMAIN h)
      /\ B \in Pointer /\ (B # NULL => B \in DOMAIN h)
      /\ h[p].child = l[1] /\ (l[1] = l[k] <=> k = 1)
      /\ \A j \in DOMAIN h : /\ j = A <=> k < Len(l) /\ j = l[k + 1]
                             /\ j = B <=> k > 1 /\ j = l[k - 1]
  <2> HIDE DEF h
  <2> QED  BY <1>1, Around
<1>3. NULL \notin DOMAIN h /\ NULL \in Pointer /\ r \in Pointer
  BY <1>1, NamesOK DEF IsHeap, Pointer
<1>4. r # i /\ r # A /\ r # B
  <2>1. \A a \in 1 .. Len(l) : l[a] # r
    <3>1. \A a \in 1 .. Len(l) : ~IsRoot(M, l[a])
      BY <1>1, ListOf
    <3> HIDE DEF l
    <3> QED  BY <1>1, <3>1
  <2>2. ~(k < Len(l) /\ r = l[k + 1]) /\ ~(k > 1 /\ r = l[k - 1])
    <3>1. (k < Len(l) => k + 1 \in 1 .. Len(l)) /\ (k > 1 => k - 1 \in 1 .. Len(l))
      BY <1>2
    <3> HIDE DEF l
    <3> QED  BY <2>1, <3>1
  <2> QED  BY <1>1, <1>2, <2>2
<1>5. ReplaceItemViaPointer(m, p, i, r) = Delete([heap |-> g, copies |-> m.copies], i)
  <2>1. i # NULL /\ m.heap[i] = h[i]
    BY <1>2, <1>3
  <2> HIDE DEF i, l
  <2>2. ReplaceItemViaPointer(m, p, i, r) =
           Delete([m EXCEPT !.heap = [f4 EXCEPT ![p].child = IF @ = i THEN r ELSE @,
                                                ![i].next = NULL, ![i].prev = NULL]], i)
    <3>1. f2 = [m.heap EXCEPT ![r].next = A, ![r].prev = B]
      <4> HIDE DEF A, B, f3, f4
      <4> QED  OBVIOUS
    <3>2. m.heap[i].next = A /\ m.heap[i].prev = B /\ i # NULL /\ r # i
      BY <1>2, <1>4, <2>1
    <3>3. f4 = Set(Set(f2, A, "prev", r), B, "next", r)
      <4> HIDE DEF A, B, f2
      <4> QED  OBVIOUS
    <3> HIDE DEF f1, f2, f3, f4, A, B, h
    <3> DEFINE x == [m.heap EXCEPT ![r].next = m.heap[i].next, ![r].prev = m.heap[i].prev]
               y == Set(Set(x, m.heap[i].next, "prev", r), m.heap[i].prev, "next", r)
    <3>4. ReplaceItemViaPointer(m, p, i, r) =
             Delete([m EXCEPT !.heap = [y EXCEPT ![p].child = IF @ = i THEN r ELSE @,
                                                 ![i].next = NULL, ![i].prev = NULL]], i)
      <4>1. ~(i = NULL \/ r = i)
        BY <3>2
      <4> QED  BY Zenon, <4>1 DEF ReplaceItemViaPointer
    <3>5. f2 = x
      BY <3>1, <3>2
    <3>6. f4 = Set(Set(x, m.heap[i].next, "prev", r), m.heap[i].prev, "next", r)
      <4> HIDE DEF x
      <4> QED  BY <3>2, <3>3, <3>5
    <3>7. f4 = y
      BY <3>6
    <3> HIDE DEF y
    <3> QED  BY <3>4, <3>7
  <2> HIDE DEF f4, h
  <2>3. [f4 EXCEPT ![p].child = IF @ = i THEN r ELSE @, ![i].next = NULL, ![i].prev = NULL] = g
    OBVIOUS
  <2> HIDE DEF g
  <2>4. [m EXCEPT !.heap = g] = [heap |-> g, copies |-> m.copies]
    BY <1>1
  <2> QED  BY <2>2, <2>3, <2>4
<1> HIDE DEF h, f1, f2, f3, f4, f5, f6, g, A, B
<1>6. Assigned(h, f1, r, "next", A)
  BY <1>1, <1>2, Assign DEF f1
<1>7. IsHeap(f1) /\ DOMAIN f1 = DOMAIN h
  BY <1>6 DEF Assigned, Alike
<1>8. Assigned(f1, f2, r, "prev", B)
  BY <1>1, <1>2, <1>7, Assign DEF f2
<1>9. IsHeap(f2) /\ DOMAIN f2 = DOMAIN h
  BY <1>7, <1>8 DEF Assigned, Alike
<1>10. Assigned(f2, f3, A, "prev", r)
  BY <1>2, <1>3, <1>9, SetIs DEF f3
<1>11. IsHeap(f3) /\ DOMAIN f3 = DOMAIN h
  BY <1>9, <1>10 DEF Assigned, Alike
<1>12. Assigned(f3, f4, B, "next", r)
  BY <1>2, <1>3, <1>11, SetIs DEF f4
<1>13. IsHeap(f4) /\ DOMAIN f4 = DOMAIN h /\ f4[p].child = l[1]
  BY <1>1, <1>2, <1>6, <1>7, <1>8, <1>9, <1>10, <1>11, <1>12 DEF Assigned, Alike
<1>14. c \in Pointer /\ c = IF k = 1 THEN r ELSE l[1]
  <2>1. h[p] \in ItemRecord
    BY <1>1 DEF IsHeap
  <2> QED  BY <1>2, <1>3, <1>13, <2>1 DEF ItemRecord
<1> HIDE DEF c
<1>15. Assigned(f4, f5, p, "child", c)
  BY <1>1, <1>13, <1>14, Assign DEF f5
<1>16. IsHeap(f5) /\ DOMAIN f5 = DOMAIN h
  BY <1>13, <1>15 DEF Assigned, Alike
<1>17. Assigned(f5, f6, i, "next", NULL)
  BY <1>2, <1>3, <1>16, Assign DEF f6
<1>18. IsHeap(f6) /\ DOMAIN f6 = DOMAIN h
  BY <1>16, <1>17 DEF Assigned, Alike
<1>19. Assigned(f6, g, i, "prev", NULL)
  BY <1>2, <1>3, <1>18, Assign DEF g
<1>20. IsHeap(g) /\ Alike(h, g)
  <2>1. Alike(h, f3)
    BY <1>6, <1>7, <1>8, <1>9, <1>10 DEF Assigned, Alike
  <2>2. Alike(f3, g)
    BY <1>11, <1>12, <1>13, <1>15, <1>16, <1>17, <1>18, <1>19 DEF Assigned, Alike
  <2> QED  BY <1>11, <1>19, <2>1, <2>2 DEF Assigned, Alike
<1>21. Swapped(h, g, p, l, k, r)
  <2> SUFFICES ASSUME NEW j \in DOMAIN h
               PROVE  /\ g[j].next = IF j = r THEN A ELSE IF j = i THEN NULL
                            ELSE IF k > 1 /\ j = l[k - 1] THEN r ELSE h[j].next
                      /\ g[j].prev = IF j = r THEN B ELSE IF j = i THEN NULL
                            ELSE IF k < Len(l) /\ j = l[k + 1] THEN r ELSE h[j].prev
                      /\ g[j].child = IF j = p /\ k = 1 THEN r ELSE h[j].child
    BY DEF Swapped, A, B
  <2> HIDE DEF l
  <2>1. /\ f2[j].next = IF j = r THEN A ELSE h[j].next
        /\ f2[j].prev = IF j = r THEN B ELSE h[j].prev
        /\ f2[j].child = h[j].child
    BY <1>6, <1>7, <1>8 DEF Assigned
  <2>2. /\ f4[j].next = IF j = B THEN r ELSE f2[j].next
        /\ f4[j].prev = IF j = A THEN r ELSE f2[j].prev
        /\ f4[j].child = f2[j].child
    BY <1>9, <1>10, <1>11, <1>12 DEF Assigned
  <2>3. /\ g[j].next = IF j = i THEN NULL ELSE f4[j].next
        /\ g[j].prev = IF j = i THEN NULL ELSE f4[j].prev
        /\ g[j].child = IF j = p THEN c ELSE f4[j].child
    BY <1>13, <1>15, <1>16, <1>17, <1>18, <1>19 DEF Assigned
  <2>4. /\ j = A <=> k < Len(l) /\ j = l[k + 1]
        /\ j = B <=> k > 1 /\ j = l[k - 1]
    BY <1>2
  <2>5. g[j].child = IF j = p /\ k = 1 THEN r ELSE h[j].child
    BY <1>2, <1>14, <2>1, <2>2, <2>3
  <2> QED  BY <1>4, <2>1, <2>2, <2>3, <2>4, <2>5
<1>22. Good(g, M2)
  <2>1. PICK rank : Ranked(M, rank) /\ rank[r] < rank[p]
    BY DEF CanJoin
  <2> QED  BY <1>1, <1>20, <1>21, <2>1, SwapRight
<1>23. NamesRight(g, m.copies, N)
  BY <1>1, <1>20, SameNames
<1>24. Right([heap |-> g, copies |-> m.copies], M2, N)
  BY <1>22, <1>23 DEF Right
<1>25. DOMAIN M2 = DOMAIN M /\ M2[p] = ReplaceAt(l, k, r) /\ \A q \in DOMAIN M : q # p => M2[q] = M[q]
  BY <1>1
<1>26. IsTree(M2, i, T)
  <2>1. p \notin T
    <3>1. p \in DOMAIN M /\ k \in DOMAIN M[p]
      BY <1>1, ListOf
    <3> QED  BY <1>1, <3>1, NotBelowItself
  <2> HIDE DEF M2, i, l
  <2>2. T \subseteq DOMAIN M2 /\ \A q \in T : M2[q] = M[q]
    BY <1>25, <2>1 DEF IsTree, i, l
  <2> QED  BY <2>2, TreeElsewhere DEF i, l
<1>27. IsRoot(M2, i)
  <2> SUFFICES ASSUME NEW q \in DOMAIN M, NEW a \in DOMAIN M2[q]  PROVE M2[q][a] # i
    BY <1>25 DEF IsRoot
  <2>1. l \in Seq(DOMAIN h) /\ DOMAIN l = 1 .. Len(l) /\ k \in DOMAIN l
    BY <1>1, ListOf
  <2>2. CASE q = p
    <3>1. ReplaceAt(l, k, r) = [l EXCEPT ![k] = r]
      BY DEF ReplaceAt
    <3>2. \A x \in DOMAIN l : l[x] = l[k] => x = k
      <4>1. \A x, y \in 1 .. Len(l) : l[x] = l[y] => x = y
        BY <1>1, ListOf
      <4> HIDE DEF l
      <4> QED  BY <2>1, <4>1
    <3> HIDE DEF l, M2
    <3>3. a \in DOMAIN l /\ M2[q][a] = IF a = k THEN r ELSE l[a]
      BY <1>25, <2>1, <2>2, <3>1
    <3> QED  BY <1>4, <2>1, <3>2, <3>3
  <2>3. CASE q # p
    BY <1>1, <1>25, <2>1, <2>3 DEF Trees, Forest
  <2> QED  BY <2>2, <2>3
<1>28. Right(Delete([heap |-> g, copies |-> m.copies], i), Tree!Keep(M2, T), Tree!Keep(N, T))
  <2>1. i \in DOMAIN M2
    BY <1>1, <1>2, <1>25
  <2> HIDE DEF M2, i
  <2> QED  BY <1>24, <1>26, <1>27, <2>1, DeleteKeeps
<1> QED  BY <1>5, <1>28 DEF h

(* InsertItemInArray makes a root the member at a place, or the last one.  *)
LEMMA InsertRight ==
    ASSUME NEW m, NEW M, NEW N, Right(m, M, N), NEW p, NEW i, CanJoin(M, i, p), ~m.heap[p].ref,
           NEW n \in 0 .. Len(M[p])
    PROVE  Right(InsertItemInArray(m, p, n, i), [M EXCEPT ![p] = InsertAt(M[p], n + 1, i)], N)
<1> DEFINE h  == m.heap
           l  == M[p]
           k  == n + 1
           f1 == [h EXCEPT ![i].next = l[k]]
           f2 == [f1 EXCEPT ![i].prev = Before(l, k)]
           f3 == [f2 EXCEPT ![l[k]].prev = i]
           g  == IF l[k] = f3[p].child THEN [f3 EXCEPT ![p].child = i]
                 ELSE [f3 EXCEPT ![Before(l, k)].next = i]
<1>1. /\ m = [heap |-> h, copies |-> m.copies] /\ Good(h, M) /\ NamesRight(h, m.copies, N)
      /\ DOMAIN M = DOMAIN h /\ IsHeap(h) /\ Trees(M)
      /\ p \in DOMAIN h /\ i \in DOMAIN h /\ IsRoot(M, i) /\ ~h[p].ref
  BY DEF Right, Good, CanJoin
<1>2. List(h, p) = l /\ Len(l) \in Nat /\ n \in Nat /\ n <= Len(l)
  <2>1. Len(l) \in Nat
    BY <1>1, ListOf
  <2> QED  BY <1>1, <2>1, ListIs
<1>3. CASE n = Len(l)
  <2>1. InsertItemInArray(m, p, n, i) = AddItemToArray(m, p, i)
    <3>1. GetArrayItem(m.heap, p, n) = NULL
      BY <1>2, <1>3 DEF GetArrayItem
    <3> QED  BY <3>1 DEF InsertItemInArray
  <2> QED  BY <1>3, <2>1, AddRight
<1>4. CASE n # Len(l)
  <2>1. k \in 1 .. Len(l) /\ n < Len(l)
    BY <1>2, <1>4
  <2>2. /\ l[k] \in DOMAIN h /\ l[k] \in Pointer /\ ~IsRoot(M, l[k])
        /\ k \in Nat
        /\ h[l[k]].next = After(l, k) /\ h[l[k]].prev = Before(l, k)
        /\ Before(l, k) \in Pointer /\ (Before(l, k) # NULL => Before(l, k) \in DOMAIN h)
        /\ h[p].child = l[1] /\ (l[1] = l[k] <=> k = 1)
        /\ \A j \in DOMAIN h : j = Before(l, k) <=> k > 1 /\ j = l[k - 1]
    <3> HIDE DEF h, k
    <3> QED  BY <1>1, <2>1, Around
  <2>3. NULL \notin DOMAIN h /\ i \in Pointer
    BY <1>1, NamesOK DEF IsHeap, Pointer
  <2>4. i # l[k] /\ i # Before(l, k)
    <3>1. \A a \in 1 .. Len(l) : ~IsRoot(M, l[a])
      BY <1>1, ListOf
    <3>2. k > 1 => k - 1 \in 1 .. Len(l)
      BY <1>2, <2>1
    <3> HIDE DEF k, l, h
    <3> QED  BY <1>1, <2>1, <2>2, <3>1, <3>2
  <2>5. InsertItemInArray(m, p, n, i) = [heap |-> g, copies |-> m.copies]
    <3>1. GetArrayItem(m.heap, p, n) = l[k]
      BY <1>2, <2>1 DEF GetArrayItem
    <3>2. f3 = [m.heap EXCEPT ![i].next = l[k], ![i].prev = Before(l, k), ![l[k]].prev = i]
      OBVIOUS
    <3>3. l[k] # NULL /\ m.heap[l[k]].prev = Before(l, k)
      BY <2>2, <2>3
    <3>4. InsertItemInArray(m, p, n, i) =
             [m EXCEPT !.heap = IF l[k] = f3[p].child THEN [f3 EXCEPT ![p].child = i]
                                ELSE [f3 EXCEPT ![Before(l, k)].next = i]]
      <4> HIDE DEF f3, k, l, h
      <4> QED  BY <3>1, <3>2, <3>3 DEF InsertItemInArray
    <3>5. [m EXCEPT !.heap = g] = [heap |-> g, copies |-> m.copies]
      <4> HIDE DEF g
      <4> QED  BY <1>1
    <3> HIDE DEF f3, k, l, h
    <3> QED  BY <3>4, <3>5
  <2> HIDE DEF h, l, k, f1, f2, f3
  <2>6. Assigned(h, f1, i, "next", l[k])
    BY <1>1, <2>2, Assign DEF f1
  <2>7. IsHeap(f1) /\ DOMAIN f1 = DOMAIN h
    BY <2>6 DEF Assigned, Alike
  <2>8. Assigned(f1, f2, i, "prev", Before(l, k))
    BY <1>1, <2>2, <2>7, Assign DEF f2
  <2>9. IsHeap(f2) /\ DOMAIN f2 = DOMAIN h
    BY <2>7, <2>8 DEF Assigned, Alike
  <2>10. Assigned(f2, f3, l[k], "prev", i)
    BY <2>2, <2>3, <2>9, Assign DEF f3
  <2>11. IsHeap(f3) /\ DOMAIN f3 = DOMAIN h /\ f3[p].child = l[1] /\ Alike(h, f3)
    BY <1>1, <2>2, <2>6, <2>7, <2>8, <2>9, <2>10 DEF Assigned, Alike
  <2>12. ASSUME NEW j \in DOMAIN h
         PROVE  /\ f3[j].next = IF j = i THEN l[k] ELSE h[j].next
                /\ f3[j].prev = IF j = i THEN Before(l, k) ELSE IF j = l[k] THEN i ELSE h[j].prev
                /\ f3[j].child = h[j].child
    BY <2>4, <2>6, <2>7, <2>8, <2>9, <2>10 DEF Assigned
  <2>13. /\ k # Len(l) + 1 /\ k <= Len(l) /\ (k = 1 <=> ~(k > 1))
         /\ Before(l, k) = IF k = 1 THEN NULL ELSE l[k - 1]
    BY <1>2, <2>1 DEF Before
  <2>14. IsHeap(g) /\ Alike(h, g) /\ Joined(h, g, p, l, k, i)
    <3>1. CASE k = 1
      <4>1. g = [f3 EXCEPT ![p].child = i]
        BY <2>2, <2>11, <3>1
      <4> HIDE DEF g
      <4>2. Assigned(f3, g, p, "child", i)
        BY <1>1, <2>3, <2>11, <4>1, Assign
      <4>3. IsHeap(g) /\ Alike(h, g)
        BY <2>11, <4>2 DEF Assigned, Alike
      <4>4. Joined(h, g, p, l, k, i)
        BY <2>11, <2>12, <2>13, <3>1, <4>2 DEF Assigned, Joined
      <4> QED  BY <4>3, <4>4
    <3>2. CASE k # 1
      <4>1. g = [f3 EXCEPT ![Before(l, k)].next = i]
        BY <2>2, <2>11, <3>2
      <4>2. Before(l, k) \in DOMAIN f3
        <5>1. l[k - 1] \in DOMAIN h
          <6>1. k - 1 \in 1 .. Len(l)
            BY <1>2, <2>1, <2>2, <3>2
          <6> QED  BY <1>1, <6>1, ListOf DEF l
        <5> QED  BY <2>11, <2>13, <3>2, <5>1
      <4> HIDE DEF g
      <4>3. Assigned(f3, g, Before(l, k), "next", i)
        BY <2>3, <2>11, <4>1, <4>2, Assign
      <4>4. IsHeap(g) /\ Alike(h, g)
        BY <2>11, <4>3 DEF Assigned, Alike
      <4>5. Joined(h, g, p, l, k, i)
        <5> SUFFICES ASSUME NEW j \in DOMAIN h
                     PROVE  /\ g[j].next = IF j = i THEN l[k]
                                           ELSE IF k > 1 /\ j = l[k - 1] THEN i ELSE h[j].next
                            /\ g[j].prev = IF j = i THEN Before(l, k)
                                           ELSE IF j = l[k] THEN i ELSE h[j].prev
                            /\ g[j].child = h[j].child
          BY <2>13, <3>2 DEF Joined
        <5>1. /\ g[j].next = IF j = Before(l, k) THEN i ELSE f3[j].next
              /\ g[j].prev = f3[j].prev /\ g[j].child = f3[j].child
          BY <2>11, <4>3 DEF Assigned
        <5> QED  BY <2>2, <2>4, <2>12, <5>1
      <4> QED  BY <4>4, <4>5
    <3> QED  BY <3>1, <3>2
  <2>15. Good(g, [M EXCEPT ![p] = InsertAt(M[p], n + 1, i)])
    <3>1. PICK rank : Ranked(M, rank) /\ rank[i] < rank[p]
      BY DEF CanJoin
    <3>2. k \in 1 .. Len(M[p]) + 1 /\ k = n + 1
      BY <1>2, <2>1 DEF k, l
    <3> HIDE DEF g
    <3> QED  BY <1>1, <2>14, <3>1, <3>2, JoinRight DEF l
  <2>16. NamesRight(g, m.copies, N)
    BY <1>1, <2>14, SameNames
  <2> QED  BY <2>5, <2>15, <2>16 DEF Right
<1> QED  BY <1>3, <1>4

(* What is allocated is a root without a name and without members.         *)
LEMMA AllocateRight ==
    ASSUME NEW m, NEW M, NEW N, Right(m, M, N), NEW i \in Item, i \notin DOMAIN M,
           NEW item \in ItemRecord, item.string = NoName,
           item.next = NULL, item.prev = NULL, item.ref \/ item.child = NULL
    PROVE  /\ Right(Allocate(m, i, item), Tree!With(M, i, << >>), Tree!With(N, i, NoName))
           /\ IsRoot(Tree!With(M, i, << >>), i)
           /\ Allocate(m, i, item).heap = WithItem(m.heap, i, item)
<1>1. /\ m = [heap |-> m.heap, copies |-> m.copies] /\ Good(m.heap, M)
      /\ NamesRight(m.heap, m.copies, N) /\ i \in Item \ DOMAIN m.heap
  BY DEF Right, Good
<1>2. Allocate(m, i, item) = [heap |-> WithItem(m.heap, i, item), copies |-> m.copies]
  BY <1>1 DEF Allocate
<1>3. /\ Good(WithItem(m.heap, i, item), Tree!With(M, i, << >>))
      /\ IsRoot(Tree!With(M, i, << >>), i)
  BY <1>1, NewRight
<1>4. NamesRight(WithItem(m.heap, i, item), m.copies, Tree!With(N, i, NoName))
  BY <1>1, NamesNew
<1> QED  BY <1>2, <1>3, <1>4 DEF Right

(* A new item has no name and no pointers, and is no reference.            *)
LEMMA NewItemIs ==
    NewItem \in ItemRecord /\ NewItem.string = NoName /\ NewItem.next = NULL
    /\ NewItem.prev = NULL /\ NewItem.child = NULL /\ ~NewItem.ref
BY DEF NewItem, ItemRecord, Pointer

(* SetName gives an item a name; no copy of a name is lost; no pointer     *)
(* changes.                                                                *)
LEMMA SetNameRight ==
    ASSUME NEW m, NEW M, NEW N, Right(m, M, N), NEW i, i \in DOMAIN M,
           NEW k \in Name \union {NoName}, NEW const \in BOOLEAN
    PROVE  /\ Right(SetName(m, i, k, const), M, [N EXCEPT ![i] = k])
           /\ SamePlaces(m.heap, SetName(m, i, k, const).heap)
<1> DEFINE h == m.heap
           c == m.copies
           g == [h EXCEPT ![i].string = k, ![i].const = const]
           d == SetName(m, i, k, const).copies
           x == IF const \/ k = NoName THEN 0 ELSE 1
           y == IF OwnsName(h[i]) THEN 1 ELSE 0
           K == Owners(h) \ {i}
<1>1. Good(h, M) /\ NamesRight(h, c, N) /\ i \in DOMAIN h /\ IsHeap(h) /\ DOMAIN M = DOMAIN h
  BY DEF Right, Good
<1>2. SetName(m, i, k, const) = [heap |-> g, copies |-> c + x - y]
  BY DEF SetName
<1> HIDE DEF h
<1>3. h \in [DOMAIN h -> ItemRecord] /\ h[i] \in ItemRecord
  BY <1>1 DEF IsHeap
<1>4. g = [h EXCEPT ![i] = [[h[i] EXCEPT !.string = k] EXCEPT !.const = const]]
  OBVIOUS
<1>5. [[h[i] EXCEPT !.string = k] EXCEPT !.const = const] \in ItemRecord
  BY <1>3 DEF ItemRecord
<1>6. /\ DOMAIN g = DOMAIN h /\ g \in [DOMAIN h -> ItemRecord]
      /\ \A j \in DOMAIN h : j # i => g[j] = h[j]
      /\ g[i] = [[h[i] EXCEPT !.string = k] EXCEPT !.const = const]
  BY <1>1, <1>3, <1>4, <1>5
<1>7. /\ g[i].string = k /\ g[i].const = const /\ g[i].next = h[i].next /\ g[i].prev = h[i].prev
      /\ g[i].child = h[i].child /\ g[i].ref = h[i].ref
  <2> DEFINE r == h[i]
             s == [r EXCEPT !.string = k]
             t == [s EXCEPT !.const = const]
  <2>1. r \in ItemRecord /\ g[i] = t
    BY <1>3, <1>6
  <2> HIDE DEF r, g
  <2>2. /\ s \in ItemRecord /\ s.string = k /\ s.next = r.next /\ s.prev = r.prev
        /\ s.child = r.child /\ s.ref = r.ref
    BY <2>1 DEF ItemRecord
  <2> HIDE DEF s
  <2>3. /\ t.string = s.string /\ t.const = const /\ t.next = s.next /\ t.prev = s.prev
        /\ t.child = s.child /\ t.ref = s.ref
    BY <2>2 DEF ItemRecord
  <2> HIDE DEF t
  <2> QED  BY <2>1, <2>2, <2>3 DEF r
<1> HIDE DEF g
<1>8. SamePlaces(h, g)
  BY <1>6, <1>7 DEF SamePlaces
<1>9. IsHeap(g)
  BY <1>1, <1>6 DEF IsHeap
<1>10. Good(g, M)
  BY <1>1, <1>8, <1>9, SameLists
<1>11. [N EXCEPT ![i] = k] = [j \in DOMAIN g |-> g[j].string]
  BY <1>1, <1>6, <1>7 DEF NamesRight
<1>12. /\ OwnsName(g[i]) <=> x = 1
       /\ Owners(g) = IF x = 1 THEN K \union {i} ELSE K
       /\ Owners(h) = IF y = 1 THEN K \union {i} ELSE K
  <2>1. OwnsName(g[i]) <=> x = 1
    BY <1>7 DEF OwnsName
  <2>2. \A j \in DOMAIN h : j # i => (OwnsName(g[j]) <=> OwnsName(h[j]))
    BY <1>6
  <2>3. OwnsName(h[i]) <=> y = 1
    OBVIOUS
  <2> HIDE DEF x, y
  <2> QED  BY <1>1, <1>6, <2>1, <2>2, <2>3 DEF Owners
<1>13. /\ IsFiniteSet(K) /\ Cardinality(K) \in Nat /\ i \notin K
       /\ Cardinality(K \union {i}) = Cardinality(K) + 1
  <2>1. IsFiniteSet(K)
    BY <1>1, FS_Subset DEF IsHeap, Owners
  <2> HIDE DEF K
  <2>2. i \notin K
    BY DEF K
  <2> QED  BY <2>1, <2>2, FS_AddElement, FS_CardinalityType
<1>14. c + x - y = Cardinality(Owners(g))
  <2>1. c = Cardinality(Owners(h))
    BY <1>1 DEF NamesRight
  <2>2. x \in {0, 1} /\ y \in {0, 1}
    OBVIOUS
  <2> HIDE DEF x, y, K
  <2> QED  BY <1>12, <1>13, <2>1, <2>2
<1>15. NamesRight(g, c + x - y, [N EXCEPT ![i] = k])
  BY <1>11, <1>14 DEF NamesRight
<1> HIDE DEF x, y
<1> QED  BY <1>2, <1>8, <1>10, <1>15 DEF Right, h
-----------------------------------------------------------------------------
(* Looking up.                                                             *)

(* Adding at the end is appending.                                         *)
LEMMA InsertLast ==
    ASSUME NEW V, NEW l \in Seq(V), NEW i \in V
    PROVE  InsertAt(l, Len(l) + 1, i) = Append(l, i)
<1> DEFINE r == InsertAt(l, Len(l) + 1, i)
           s == Append(l, i)
<1>1. r \in Seq(V) /\ Longer(l, Len(l) + 1, i, r)
  BY Inserted
<1>2. s \in Seq(V) /\ Len(s) = Len(l) + 1 /\ s[Len(l) + 1] = i /\ \A n \in 1 .. Len(l) : s[n] = l[n]
  BY AppendProperties
<1>3. Len(r) = Len(l) + 1 /\ r[Len(l) + 1] = i /\ \A n \in 1 .. Len(l) : r[n] = l[n]
  BY <1>1 DEF Longer
<1> HIDE DEF r, s
<1>4. \A n \in 1 .. Len(l) + 1 : r[n] = s[n]
  BY <1>2, <1>3
<1> QED  BY <1>1, <1>2, <1>3, <1>4, SeqEqual DEF r, s

(* The abstract operations on lists are the ones of this module.           *)
LEMMA SameLibrary ==
    /\ \A l, n, i : Tree!InsertAt(l, n, i) = InsertAt(l, n, i)
    /\ \A l, i : Tree!RemoveFirst(l, i) = RemoveFirst(l, i)
    /\ \A l, i, r : Tree!ReplaceAll(l, i, r) = ReplaceAll(l, i, r)
    /\ \A l : Tree!ToSet(l) = ToSet(l)
BY DEF Tree!InsertAt, InsertAt, Tree!RemoveFirst, RemoveFirst, Tree!ReplaceAll, ReplaceAll,
       Tree!ToSet, ToSet, Tree!RemoveAt, RemoveAt, Tree!SelectInSeq, SelectInSeq, Tree!Min, Min

(* The walk along the members finds the one at a place.                    *)
LEMMA GetArrayItemIs ==
    ASSUME NEW h, Good(h, members), NEW p \in DOMAIN h, ~h[p].ref, NEW n \in Nat
    PROVE  GetArrayItem(h, p, n) = Tree!At(p, n)
BY ListIs DEF GetArrayItem, Tree!At

(* Min is the least of some numbers.                                       *)
LEMMA LeastIs ==
    ASSUME NEW S, S \subseteq Nat, S # {}
    PROVE  Min(S) \in S /\ \A x \in S : Min(S) <= x
<1>1. \E x \in S : \A y \in S : x <= y
  BY LeastNatural
<1> QED  BY <1>1 DEF Min

(* The walk over the members finds the first with the name, whatever case. *)
LEMMA GetObjectItemIs ==
    ASSUME NEW g, NEW p \in DOMAIN members, List(g, p) = members[p], members[p] \in Seq(DOMAIN members),
           \A n \in DOMAIN members[p] : g[members[p][n]].string = name[members[p][n]],
           NEW k \in Name, NEW case \in BOOLEAN
    PROVE  GetObjectItem(g, p, k, case) = Tree!Named(p, k, case)
<1> DEFINE l     == members[p]
           Is(i) == name[i] # NoName /\ IF case THEN name[i] = k ELSE Lower[name[i]] = Lower[k]
           stops == {n \in 1 .. Len(l) :
                        IF case THEN g[l[n]].string \in {k, NoName}
                        ELSE g[l[n]].string # NoName /\ Lower[g[l[n]].string] = Lower[k]}
           found == {n \in DOMAIN l :
                        /\ Is(l[n])
                        /\ \A o \in 1 .. n - 1 : ~Is(l[o]) /\ (case => name[l[o]] # NoName)}
           stop  == IF stops # {} THEN Min(stops) ELSE 0
<1>1. Len(l) \in Nat /\ DOMAIN l = 1 .. Len(l)
  <2> HIDE DEF l
  <2> QED  BY Elements DEF l
<1>2. GetObjectItem(g, p, k, case) = IF stop = 0 \/ g[l[stop]].string = NoName THEN NULL ELSE l[stop]
  BY DEF GetObjectItem, SelectInSeq
<1>3. Tree!Named(p, k, case) = IF found = {} THEN NULL ELSE l[CHOOSE n \in found : TRUE]
  BY DEF Tree!Named
<1>4. \A n \in 1 .. Len(l) : g[l[n]].string = name[l[n]]
  BY <1>1
<1>5. k # NoName
  BY NamesOK
<1> HIDE DEF l
<1>6. stops = {n \in 1 .. Len(l) : Is(l[n]) \/ (case /\ name[l[n]] = NoName)}
  BY <1>4, <1>5
<1> HIDE DEF Is, stops, stop
<1>7. CASE stops = {}
  <2>1. found = {}
    BY <1>1, <1>6, <1>7
  <2> QED  BY <1>2, <1>3, <1>7, <2>1 DEF stop
<1>8. CASE stops # {}
  <2>1. stops \subseteq Nat
    BY <1>1, <1>6
  <2>2. stop \in stops /\ \A x \in stops : stop <= x
    BY <1>8, <2>1, LeastIs DEF stop
  <2>3. stop \in 1 .. Len(l) /\ stop # 0 /\ stop \in Nat
    BY <1>1, <1>6, <2>2
  <2>4. \A n \in found : n = stop
    <3> TAKE n \in found
    <3>1. n \in stops /\ n \in Nat
      BY <1>1, <1>6
    <3>2. ~(stop \in 1 .. n - 1)
      <4> SUFFICES ASSUME stop \in 1 .. n - 1  PROVE FALSE
        OBVIOUS
      <4>1. ~Is(l[stop]) /\ (case => name[l[stop]] # NoName)
        OBVIOUS
      <4> QED  BY <1>6, <2>2, <4>1
    <3> QED  BY <2>2, <2>3, <3>1, <3>2
  <2>5. CASE g[l[stop]].string = NoName
    <3>1. ~Is(l[stop])
      BY <1>4, <2>3, <2>5 DEF Is
    <3>2. found = {}
      BY <2>4, <3>1
    <3> QED  BY <1>2, <1>3, <2>5, <3>2
  <2>6. CASE g[l[stop]].string # NoName
    <3>1. Is(l[stop])
      BY <1>4, <1>6, <2>2, <2>3, <2>6
    <3>2. \A o \in 1 .. stop - 1 : ~Is(l[o]) /\ (case => name[l[o]] # NoName)
      <4> TAKE o \in 1 .. stop - 1
      <4>1. o \in 1 .. Len(l) /\ o \notin stops
        BY <1>1, <2>2, <2>3
      <4> QED  BY <1>6, <4>1
    <3>3. found = {stop}
      BY <1>1, <2>3, <2>4, <3>1, <3>2
    <3>4. (CHOOSE n \in found : TRUE) = stop
      BY <3>3
    <3> HIDE DEF found
    <3> QED  BY <1>2, <1>3, <2>3, <2>6, <3>3, <3>4
  <2> QED  BY <2>5, <2>6
<1> QED  BY <1>7, <1>8

(* It finds a member or none.                                              *)
LEMMA NamedIs ==
    ASSUME NEW p \in DOMAIN members, members[p] \in Seq(DOMAIN members), NEW k, NEW case
    PROVE  Tree!Named(p, k, case) = NULL \/ \E n \in 1 .. Len(members[p]) : Tree!Named(p, k, case) = members[p][n]
<1>1. DOMAIN members[p] = 1 .. Len(members[p])
  BY Elements
<1> QED  BY <1>1 DEF Tree!Named
-----------------------------------------------------------------------------
(* The copy of a tree.                                                     *)

(* The items of `of' and their copies, in a heap and in trees.             *)
Copied(h, M, N, i, of, copy, g, M2, N2) ==
    LET new == {copy[j] : j \in of}
    IN  /\ DOMAIN g = DOMAIN h \union new /\ DOMAIN M2 = DOMAIN h \union new
        /\ M2 = [q \in DOMAIN M2 |-> M2[q]] /\ g = [q \in DOMAIN g |-> g[q]]
        /\ \A q \in DOMAIN h : g[q] = h[q] /\ M2[q] = M[q]
        /\ \A j \in of :
              /\ g[copy[j]] = CopyOf(h, i, copy, j)
              /\ M2[copy[j]] = IF ToSet(M[j]) \subseteq of
                               THEN [n \in DOMAIN M[j] |-> copy[M[j][n]]] ELSE << >>
        /\ N2 = [q \in DOMAIN g |-> IF q \in DOMAIN h THEN N[q] ELSE g[q].string]

(* The copy is of one item, or of all that is below it too; there are no   *)
(* references in it, and each item has an address of its own.              *)
Copying(h, M, i, of, copy) ==
    /\ of = {i} \/ IsTree(M, i, of)
    /\ \A j \in of : ~h[j].ref
    /\ copy \in [of -> Item \ DOMAIN h]
    /\ \A j, k \in of : copy[j] = copy[k] => j = k

(* Then the heap holds the trees with the copy.                            *)
LEMMA CopyGood ==
    ASSUME NEW h, NEW M, Good(h, M), NEW i \in DOMAIN h, NEW of, NEW copy, Copying(h, M, i, of, copy),
           NEW N, NEW g, NEW M2, NEW N2, Copied(h, M, N, i, of, copy, g, M2, N2)
    PROVE  Good(g, M2)
<1> DEFINE V   == DOMAIN h
           new == {copy[j] : j \in of}
           W   == V \union new
           at(x) == IF x \in of THEN copy[x] ELSE NULL
<1>1. /\ DOMAIN M = V /\ Trees(M) /\ Linked(h, M) /\ IsHeap(h)
      /\ of \subseteq V /\ i \in of
      /\ \A j \in of : ~h[j].ref
      /\ \A j \in of : copy[j] \in Item /\ copy[j] \notin V
      /\ \A j, k \in of : copy[j] = copy[k] => j = k
      /\ DOMAIN copy = of /\ copy = [j \in of |-> copy[j]]
  BY DEF Good, Copying, IsTree
<1>2. /\ DOMAIN g = W /\ DOMAIN M2 = W /\ M2 = [q \in W |-> M2[q]] /\ g = [q \in W |-> g[q]]
      /\ \A q \in V : g[q] = h[q] /\ M2[q] = M[q]
      /\ \A j \in of : g[copy[j]] = CopyOf(h, i, copy, j)
      /\ \A j \in of : M2[copy[j]] = IF ToSet(M[j]) \subseteq of
                                     THEN [n \in DOMAIN M[j] |-> copy[M[j][n]]] ELSE << >>
  BY DEF Copied
<1>3. /\ \A q \in W : q \in V \/ \E j \in of : q = copy[j]
      /\ \A q \in V : q \in W
      /\ \A j \in of : copy[j] \in W /\ copy[j] \in new
  OBVIOUS
<1>4. PICK rank : Ranked(M, rank)
  BY <1>1 DEF Trees
<1> HIDE DEF V, W, new
<1>5. \A q \in V : /\ M[q] \in Seq(V) /\ Len(M[q]) \in Nat /\ DOMAIN M[q] = 1 .. Len(M[q])
                   /\ \A a \in 1 .. Len(M[q]) : M[q][a] \in V /\ rank[M[q][a]] < rank[q]
                   /\ rank[q] \in Nat
  BY <1>1, <1>4, ListOf DEF Ranked
<1>6. NULL \notin of
  BY <1>1, NamesOK DEF IsHeap, V
(* The first of those copied is in no list that is copied.                 *)
<1>7. ASSUME NEW j \in of, NEW a \in 1 .. Len(M[j])  PROVE M[j][a] # i
  <2>1. j \in V /\ a \in DOMAIN M[j]
    BY <1>1, <1>5
  <2>2. CASE of = {i}
    BY <1>5, <2>1, <2>2
  <2>3. CASE IsTree(M, i, of)
    <3> SUFFICES ASSUME M[j][a] = i  PROVE FALSE
      OBVIOUS
    <3>1. IsTree(M, M[j][a], of)
      BY <2>3
    <3> QED  BY <1>1, <2>1, <3>1, NotBelowItself
  <2> QED  BY <2>2, <2>3 DEF Copying
<1>8. ASSUME NEW j \in of
      PROVE  LET c == M2[copy[j]]
             IN  /\ c \in Seq(new)
                 /\ \/ c = << >> /\ (M[j] # << >> => M[j][1] \notin of)
                    \/ /\ Len(c) = Len(M[j]) /\ DOMAIN c = 1 .. Len(M[j])
                       /\ \A a \in 1 .. Len(M[j]) : M[j][a] \in of /\ c[a] = copy[M[j][a]]
  <2>1. j \in V /\ ToSet(M[j]) = {M[j][a] : a \in 1 .. Len(M[j])}
    BY <1>1, <1>5 DEF ToSet
  <2>2. CASE ToSet(M[j]) \subseteq of
    <3>1. M2[copy[j]] = [n \in 1 .. Len(M[j]) |-> copy[M[j][n]]]
      BY <1>2, <1>5, <2>1, <2>2
    <3>2. \A a \in 1 .. Len(M[j]) : M[j][a] \in of /\ copy[M[j][a]] \in new
      BY <1>3, <2>1, <2>2
    <3> DEFINE c == [n \in 1 .. Len(M[j]) |-> copy[M[j][n]]]
    <3>3. c \in Seq(new) /\ Len(c) = Len(M[j])
      BY <1>5, <2>1, <3>2
    <3> QED  BY <3>1, <3>2, <3>3
  <2>3. CASE ~(ToSet(M[j]) \subseteq of)
    <3>1. M2[copy[j]] = << >>
      BY <1>2, <2>3
    <3>2. ~IsTree(M, i, of)
      BY <1>1, <1>5, <2>1, <2>3 DEF IsTree, Closed
    <3>3. of = {i}
      BY <3>2 DEF Copying
    <3>4. ASSUME M[j] # << >>  PROVE M[j][1] \notin of
      <4>1. 1 \in 1 .. Len(M[j])
        BY <1>5, <2>1, <3>4
      <4> QED  BY <1>7, <3>3, <4>1
    <3>5. << >> \in Seq(new)
      OBVIOUS
    <3> QED  BY <3>1, <3>4, <3>5
  <2> QED  BY <2>2, <2>3
<1>9. ASSUME NEW j \in of, NEW a \in DOMAIN M2[copy[j]]
      PROVE  /\ a \in 1 .. Len(M[j]) /\ DOMAIN M2[copy[j]] = 1 .. Len(M[j])
             /\ Len(M2[copy[j]]) = Len(M[j])
             /\ \A b \in 1 .. Len(M[j]) : M[j][b] \in of /\ M2[copy[j]][b] = copy[M[j][b]]
  <2>1. DOMAIN << >> = {}
    OBVIOUS
  <2> QED  BY <1>8, <1>9, <2>1
<1>10. ASSUME NEW j \in of
       PROVE  /\ CopyOf(h, i, copy, j) \in ItemRecord
              /\ g[copy[j]].next = IF j = i THEN NULL ELSE at(h[j].next)
              /\ g[copy[j]].prev = IF j = i THEN NULL ELSE at(h[j].prev)
              /\ g[copy[j]].child = at(h[j].child)
              /\ g[copy[j]].ref = h[j].ref
  <2> DEFINE r  == h[j]
             nx == IF j = i THEN NULL ELSE at(r.next)
             pv == IF j = i THEN NULL ELSE at(r.prev)
             ch == at(r.child)
             r1 == [r EXCEPT !.next = nx]
             r2 == [r1 EXCEPT !.prev = pv]
             r3 == [r2 EXCEPT !.child = ch]
  <2>1. r \in ItemRecord
    BY <1>1 DEF IsHeap, V
  <2>2. CopyOf(h, i, copy, j) = r3
    BY <1>1, <2>1 DEF CopyOf, ItemRecord
  <2>3. nx \in Pointer /\ pv \in Pointer /\ ch \in Pointer
    BY <1>1 DEF Pointer
  <2>4. g[copy[j]] = r3
    BY <1>2, <2>2
  <2> HIDE DEF nx, pv, ch, r
  <2>5. r1 \in ItemRecord /\ r1.next = nx /\ r1.ref = r.ref
    BY <2>1, <2>3 DEF ItemRecord
  <2> HIDE DEF r1
  <2>6. r2 \in ItemRecord /\ r2.next = nx /\ r2.prev = pv /\ r2.ref = r.ref
    BY <2>3, <2>5 DEF ItemRecord
  <2> HIDE DEF r2
  <2>7. r3 \in ItemRecord /\ r3.next = nx /\ r3.prev = pv /\ r3.child = ch /\ r3.ref = r.ref
    BY <2>3, <2>6 DEF ItemRecord
  <2> HIDE DEF r3
  <2> QED  BY <2>2, <2>4, <2>7 DEF nx, pv, ch, r
<1>a. IsHeap(g)
  <2>1. IsFiniteSet(W) /\ W \subseteq Item
    <3>1. IsFiniteSet(of) /\ IsFiniteSet(V)
      BY <1>1, FS_Subset DEF IsHeap, V
    <3>2. copy \in Surjection(of, new)
      <4>1. copy \in [of -> new]
        BY <1>1, <1>3
      <4> QED  BY <4>1 DEF Surjection, new
    <3>3. IsFiniteSet(new)
      BY <3>1, <3>2, FS_Surjection
    <3>4. IsFiniteSet(V \union new)
      BY <3>1, <3>3, FS_Union
    <3> QED  BY <1>1, <3>4 DEF W, V, new, IsHeap
  <2>2. \A q \in V : h[q] \in ItemRecord
    BY <1>1 DEF IsHeap, V
  <2>3. \A q \in W : g[q] \in ItemRecord
    <3> TAKE q \in W
    <3>1. CASE q \in V
      BY <1>2, <2>2, <3>1
    <3>2. CASE q \notin V
      <4>1. PICK j \in of : q = copy[j]
        BY <1>3, <3>2
      <4> QED  BY <1>2, <1>10, <4>1
    <3> QED  BY <3>1, <3>2
  <2>4. g \in [W -> ItemRecord]
    BY <1>2, <2>3
  <2> QED  BY <1>2, <2>1, <2>4 DEF IsHeap
<1>11. \A j \in of : /\ g[copy[j]].next = IF j = i THEN NULL ELSE at(h[j].next)
                     /\ g[copy[j]].prev = IF j = i THEN NULL ELSE at(h[j].prev)
                     /\ g[copy[j]].child = at(h[j].child)
                     /\ g[copy[j]].ref = h[j].ref
  BY <1>10
<1> HIDE DEF at
<1>12. Trees(M2)
  <2> DEFINE orig(q) == CHOOSE j \in of : copy[j] = q
             r == [q \in W |-> IF q \in V THEN rank[q] ELSE rank[orig(q)]]
  <2>1. \A j \in of : orig(copy[j]) = j
    BY <1>1
  <2> HIDE DEF orig
  <2>2. /\ \A q \in V : r[q] = rank[q]
        /\ \A j \in of : r[copy[j]] = rank[j]
        /\ r \in [W -> Nat]
    BY <1>1, <1>3, <1>5, <2>1
  <2> HIDE DEF r
  <2>3. Ranked(M2, r)
    <3> SUFFICES ASSUME NEW q \in W, NEW a \in DOMAIN M2[q]  PROVE r[M2[q][a]] < r[q]
      BY <1>2, <2>2 DEF Ranked
    <3>1. CASE q \in V
      <4>1. M2[q] = M[q] /\ a \in 1 .. Len(M[q])
        BY <1>2, <1>5, <3>1
      <4>2. M[q][a] \in V /\ rank[M[q][a]] < rank[q]
        BY <1>5, <3>1, <4>1
      <4> QED  BY <2>2, <3>1, <4>1, <4>2
    <3>2. CASE q \notin V
      <4>1. PICK j \in of : q = copy[j]
        BY <1>3, <3>2
      <4>2. a \in 1 .. Len(M[j]) /\ M[j][a] \in of /\ M2[q][a] = copy[M[j][a]] /\ j \in V
        BY <1>1, <1>9, <4>1
      <4> QED  BY <1>5, <2>2, <4>1, <4>2
    <3> QED  BY <3>1, <3>2
  <2>4. \A q \in W : M2[q] \in Seq(W)
    <3> TAKE q \in W
    <3>1. CASE q \in V
      <4>1. M[q] \in Seq(V) /\ V \subseteq W /\ M2[q] = M[q]
        BY <1>2, <1>3, <1>5, <3>1
      <4>2. M[q] \in Seq(W)
        BY <4>1
      <4> QED  BY <4>1, <4>2
    <3>2. CASE q \notin V
      <4>1. PICK j \in of : q = copy[j]
        BY <1>3, <3>2
      <4>2. M2[q] \in Seq(new) /\ new \subseteq W
        BY <1>8, <4>1 DEF W
      <4> QED  BY <4>2
    <3> QED  BY <3>1, <3>2
  <2>5. ASSUME NEW q \in W, NEW s \in W, NEW a \in DOMAIN M2[q], NEW b \in DOMAIN M2[s],
               M2[q][a] = M2[s][b]
        PROVE  q = s /\ a = b
    <3>1. q \in V => M2[q] = M[q] /\ M2[q][a] \in V
      BY <1>2, <1>5
    <3>2. s \in V => M2[s] = M[s] /\ M2[s][b] \in V
      BY <1>2, <1>5
    <3>3. q \notin V => \E j \in of : q = copy[j] /\ a \in DOMAIN M[j] /\ M[j][a] \in of /\ M2[q][a] = copy[M[j][a]]
      BY <1>1, <1>3, <1>5, <1>9
    <3>4. s \notin V => \E j \in of : s = copy[j] /\ b \in DOMAIN M[j] /\ M[j][b] \in of /\ M2[s][b] = copy[M[j][b]]
      BY <1>1, <1>3, <1>5, <1>9
    <3>5. CASE q \in V /\ s \in V
      BY <1>1, <2>5, <3>1, <3>2, <3>5 DEF Trees, Forest
    <3>6. CASE q \notin V /\ s \notin V
      <4>1. PICK j \in of : q = copy[j] /\ a \in DOMAIN M[j] /\ M[j][a] \in of /\ M2[q][a] = copy[M[j][a]]
        BY <3>3, <3>6
      <4>2. PICK k \in of : s = copy[k] /\ b \in DOMAIN M[k] /\ M[k][b] \in of /\ M2[s][b] = copy[M[k][b]]
        BY <3>4, <3>6
      <4>3. M[j][a] = M[k][b]
        BY <1>1, <2>5, <4>1, <4>2
      <4>4. j = k /\ a = b
        BY <1>1, <4>1, <4>2, <4>3 DEF Trees, Forest
      <4> QED  BY <4>1, <4>2, <4>4
    <3>7. CASE q \in V /\ s \notin V
      BY <1>1, <2>5, <3>1, <3>4, <3>7
    <3>8. CASE q \notin V /\ s \in V
      BY <1>1, <2>5, <3>2, <3>3, <3>8
    <3> QED  BY <3>5, <3>6, <3>7, <3>8
  <2>6. Forest(M2)
    BY <1>2, <2>4, <2>5 DEF Forest
  <2> QED  BY <1>2, <2>3, <2>6 DEF Trees
<1>13. \A q \in W : IF g[q].ref THEN M2[q] = << >> ELSE g[q].child = First(M2[q])
  <2> TAKE q \in W
  <2>0. \A t \in V : IF h[t].ref THEN M[t] = << >> ELSE h[t].child = First(M[t])
    BY <1>1 DEF Linked, V
  <2>1. CASE q \in V
    <3>1. g[q] = h[q] /\ M2[q] = M[q]
      BY <1>2, <2>1
    <3> QED  BY <2>0, <2>1, <3>1
  <2>2. CASE q \notin V
    <3>1. PICK j \in of : q = copy[j]
      BY <1>3, <2>2
    <3>2. ~g[q].ref /\ g[q].child = at(First(M[j])) /\ j \in V
      BY <1>1, <1>11, <2>0, <3>1
    <3>3. CASE M2[q] = << >> /\ (M[j] # << >> => M[j][1] \notin of)
      BY <1>6, <3>2, <3>3 DEF First, at
    <3>4. CASE /\ Len(M2[q]) = Len(M[j]) /\ DOMAIN M2[q] = 1 .. Len(M[j])
               /\ \A a \in 1 .. Len(M[j]) : M[j][a] \in of /\ M2[q][a] = copy[M[j][a]]
      <4>1. CASE M[j] = << >>
        <5>1. M2[q] \in Seq(new) /\ Len(M2[q]) = 0
          BY <1>8, <3>1, <3>4, <4>1
        <5>2. M2[q] = << >>
          BY <5>1
        <5> QED  BY <1>6, <3>2, <4>1, <5>2 DEF First, at
      <4>2. CASE M[j] # << >>
        <5>1. 1 \in 1 .. Len(M[j]) /\ M2[q] # << >>
          BY <1>5, <3>2, <3>4, <4>2
        <5> QED  BY <3>2, <3>4, <4>2, <5>1 DEF First, at
      <4> QED  BY <4>1, <4>2
    <3> QED  BY <1>8, <3>1, <3>3, <3>4
  <2> QED  BY <2>1, <2>2
<1>14. ASSUME NEW q \in W, NEW n \in DOMAIN M2[q]
       PROVE  g[M2[q][n]].next = After(M2[q], n) /\ g[M2[q][n]].prev = Before(M2[q], n)
  <2>1. CASE q \in V
    <3>1. M2[q] = M[q] /\ n \in DOMAIN M[q] /\ M[q][n] \in V
      BY <1>2, <1>5, <1>14, <2>1
    <3>2. h[M[q][n]].next = After(M[q], n) /\ h[M[q][n]].prev = Before(M[q], n)
      BY <1>1, <2>1, <3>1 DEF Linked, V
    <3>3. g[M[q][n]] = h[M[q][n]]
      BY <1>2, <3>1
    <3> QED  BY <3>1, <3>2, <3>3
  <2>2. CASE q \notin V
    <3>1. PICK j \in of : q = copy[j]
      BY <1>3, <2>2
    <3> DEFINE c == M2[q]
               l == M[j]
               x == l[n]
    <3>2. /\ n \in 1 .. Len(l) /\ Len(c) = Len(l) /\ j \in V /\ Len(l) \in Nat /\ DOMAIN l = 1 .. Len(l)
          /\ \A b \in 1 .. Len(l) : l[b] \in of /\ c[b] = copy[l[b]]
      BY <1>1, <1>5, <1>9, <1>14, <3>1
    <3>3. x \in of /\ x # i /\ h[x].next = After(l, n) /\ h[x].prev = Before(l, n) /\ c[n] = copy[x]
      <4>1. x \in of /\ c[n] = copy[x] /\ x # i
        BY <1>7, <3>2
      <4>2. \A a \in DOMAIN M[j] : h[M[j][a]].next = After(M[j], a) /\ h[M[j][a]].prev = Before(M[j], a)
        BY <1>1, <3>2 DEF Linked, V
      <4> QED  BY <3>2, <4>1, <4>2
    <3>4. g[c[n]].next = at(After(l, n)) /\ g[c[n]].prev = at(Before(l, n))
      BY <1>11, <3>3
    <3> HIDE DEF c, l, x
    <3>5. at(After(l, n)) = After(c, n)
      <4>1. CASE n = Len(l)
        BY <1>6, <3>2, <4>1 DEF After, at
      <4>2. CASE n # Len(l)
        <5>1. n + 1 \in 1 .. Len(l)
          BY <3>2, <4>2
        <5> QED  BY <3>2, <4>2, <5>1 DEF After, at
      <4> QED  BY <4>1, <4>2
    <3>6. at(Before(l, n)) = Before(c, n)
      <4>1. CASE n = 1
        BY <1>6, <4>1 DEF Before, at
      <4>2. CASE n # 1
        <5>1. n - 1 \in 1 .. Len(l)
          BY <3>2, <4>2
        <5> QED  BY <3>2, <4>2, <5>1 DEF Before, at
      <4> QED  BY <4>1, <4>2
    <3> QED  BY <3>4, <3>5, <3>6 DEF c
  <2> QED  BY <2>1, <2>2
<1>15. ASSUME NEW q \in W, IsRoot(M2, q)  PROVE g[q].next = NULL /\ g[q].prev = NULL
  <2>1. CASE q \in V
    <3>1. IsRoot(M, q)
      <4> SUFFICES ASSUME NEW s \in V, NEW a \in DOMAIN M[s]  PROVE M[s][a] # q
        BY <1>1 DEF IsRoot
      <4>1. s \in DOMAIN M2 /\ M2[s] = M[s]
        BY <1>2, <1>3
      <4> QED  BY <1>15, <4>1 DEF IsRoot
    <3> QED  BY <1>1, <1>2, <2>1, <3>1 DEF Linked, V
  <2>2. CASE q \notin V
    <3>1. PICK j \in of : q = copy[j]
      BY <1>3, <2>2
    <3>2. CASE j = i
      BY <1>11, <3>1, <3>2
    <3>3. CASE j # i
      <4>1. IsTree(M, i, of)
        BY <3>3 DEF Copying
      <4>2. PICK k \in of : \E a \in DOMAIN M[k] : M[k][a] = j
        BY <3>3, <4>1, ParentInTree
      <4>3. PICK a \in DOMAIN M[k] : M[k][a] = j
        BY <4>2
      <4>4. k \in V /\ ToSet(M[k]) \subseteq of
        BY <1>1, <4>1 DEF IsTree, Closed, ToSet
      <4>5. M2[copy[k]] = [n \in DOMAIN M[k] |-> copy[M[k][n]]]
        BY <1>2, <4>4
      <4>6. a \in DOMAIN M2[copy[k]] /\ M2[copy[k]][a] = q
        BY <3>1, <4>3, <4>5
      <4> QED  BY <1>2, <1>3, <1>15, <4>6 DEF IsRoot
    <3> QED  BY <3>2, <3>3
  <2> QED  BY <2>1, <2>2
<1>16. Linked(g, M2)
  BY <1>2, <1>13, <1>14, <1>15 DEF Linked
<1> QED  BY <1>2, <1>a, <1>12, <1>16 DEF Good

(* A name that is copied with an item is a copy of its own.                *)
LEMMA CopyNames ==
    ASSUME NEW h, IsHeap(h), NEW M, NEW c, NEW N, NamesRight(h, c, N), NEW i \in DOMAIN h,
           NEW of \in SUBSET DOMAIN h, NEW copy, Copying(h, M, i, of, copy),
           NEW g, NEW M2, NEW N2, Copied(h, M, N, i, of, copy, g, M2, N2)
    PROVE  NamesRight(g, c + Cardinality({j \in of : OwnsName(h[j])}), N2)
<1> DEFINE V   == DOMAIN h
           new == {copy[j] : j \in of}
           O   == Owners(h)
           D   == {j \in of : OwnsName(h[j])}
           E   == {copy[j] : j \in D}
<1>1. /\ \A j \in of : copy[j] \in Item /\ copy[j] \notin V
      /\ \A j, k \in of : copy[j] = copy[k] => j = k
      /\ DOMAIN copy = of
  BY DEF Copying
<1>2. /\ DOMAIN g = V \union new
      /\ \A q \in V : g[q] = h[q]
      /\ \A j \in of : g[copy[j]] = CopyOf(h, i, copy, j)
      /\ N2 = [q \in DOMAIN g |-> IF q \in V THEN N[q] ELSE g[q].string]
  BY DEF Copied
<1>3. N2 = [q \in DOMAIN g |-> g[q].string]
  BY <1>2 DEF NamesRight
<1>4. ASSUME NEW j \in of  PROVE OwnsName(g[copy[j]]) <=> OwnsName(h[j])
  <2>1. h[j] \in ItemRecord
    BY DEF IsHeap
  <2>2. g[copy[j]].string = h[j].string /\ g[copy[j]].const = h[j].const
    <3> DEFINE r == h[j]
               x == g[copy[j]].next
               y == g[copy[j]].prev
               z == g[copy[j]].child
               s == CopyOf(h, i, copy, j)
    <3>1. s.string = r.string /\ s.const = r.const
      BY <2>1 DEF CopyOf, ItemRecord
    <3> QED  BY <1>2, <3>1
  <2> QED  BY <2>2 DEF OwnsName
<1>5. Owners(g) = O \union E /\ O \cap E = {}
  BY <1>1, <1>2, <1>4 DEF Owners
<1>6. IsFiniteSet(O) /\ IsFiniteSet(D)
  <2>1. IsFiniteSet(V)
    BY DEF IsHeap
  <2> QED  BY <2>1, FS_Subset DEF Owners
<1>7. IsFiniteSet(E) /\ Cardinality(E) = Cardinality(D)
  <2> DEFINE f == [j \in D |-> copy[j]]
  <2>1. f \in Bijection(D, E)
    BY <1>1 DEF Bijection, Injection, Surjection, IsInjective
  <2> HIDE DEF D, E
  <2> QED  BY <1>6, <2>1, FS_Bijection DEF ExistsBijection
<1> HIDE DEF O, D, E
<1>8. Cardinality(O \union E) = Cardinality(O) + Cardinality(E)
  BY <1>5, <1>6, <1>7, FS_Union, FS_EmptySet, FS_CardinalityType
<1> QED  BY <1>3, <1>5, <1>7, <1>8 DEF NamesRight, O, D

(* Duplicate makes the copy, with copies of the names.                     *)
LEMMA DuplicateRight ==
    ASSUME NEW m, NEW M, NEW N, Right(m, M, N), NEW i, i \in DOMAIN M,
           NEW of, NEW copy, Copying(m.heap, M, i, of, copy),
           NEW M2, NEW N2, Copied(m.heap, M, N, i, of, copy, Duplicate(m, i, copy).heap, M2, N2)
    PROVE  Right(Duplicate(m, i, copy), M2, N2)
<1> DEFINE h == m.heap
           g == Duplicate(m, i, copy).heap
           c == m.copies + Cardinality({j \in of : OwnsName(h[j])})
<1>1. /\ Good(h, M) /\ NamesRight(h, m.copies, N) /\ i \in DOMAIN h /\ IsHeap(h)
      /\ of \in SUBSET DOMAIN h /\ DOMAIN copy = of
  BY DEF Right, Good, Copying, IsTree
<1>2. Duplicate(m, i, copy) = [heap |-> g, copies |-> c]
  BY <1>1 DEF Duplicate
<1> HIDE DEF g, h
<1>3. Copying(h, M, i, of, copy) /\ Copied(h, M, N, i, of, copy, g, M2, N2)
  BY DEF g, h
<1>4. Good(g, M2)
  BY <1>1, <1>3, CopyGood
<1>5. NamesRight(g, c, N2)
  BY <1>1, <1>3, CopyNames
<1> HIDE DEF c
<1> QED  BY <1>2, <1>4, <1>5 DEF Right
-----------------------------------------------------------------------------
(* The new array with its members.                                         *)

(* One turn of the loop: a new item, linked to the one before it.          *)
ArrayStep(a, list, m, n) ==
    LET mem == Allocate(m, list[n], NewItem)
    IN  IF n = 1 THEN [mem EXCEPT !.heap[a].child = list[1]]
        ELSE [mem EXCEPT !.heap = SuffixObject(@, list[n - 1], list[n])]

(* The contents that memory may have.                                      *)
Memory(c) == [heap : UNION {[D -> ItemRecord] : D \in SUBSET Item}, copies : {c}]

(* A turn of the loop leaves the memory a memory.                          *)
LEMMA StepInMemory ==
    ASSUME NEW c, NEW m \in Memory(c), NEW a \in Item, NEW k \in Nat, NEW list \in [1 .. k -> Item],
           NEW n \in 1 .. k
    PROVE  /\ Allocate(m, a, NewItem) \in Memory(c)
           /\ ArrayStep(a, list, m, n) \in Memory(c)
<1>1. ASSUME NEW x \in Memory(c), NEW i \in Item  PROVE Allocate(x, i, NewItem) \in Memory(c)
  <2>1. PICK D \in SUBSET Item : x.heap \in [D -> ItemRecord]
    BY DEF Memory
  <2>2. WithItem(x.heap, i, NewItem) \in [D \union {i} -> ItemRecord]
    <3>1. WithItem(x.heap, i, NewItem) = [j \in D \union {i} |-> IF j = i THEN NewItem ELSE x.heap[j]]
      BY <2>1 DEF WithItem
    <3> QED  BY <2>1, <3>1, NewItemIs
  <2>3. D \union {i} \in SUBSET Item
    OBVIOUS
  <2>4. Allocate(x, i, NewItem) = [heap |-> WithItem(x.heap, i, NewItem), copies |-> c]
    BY DEF Allocate, Memory
  <2> QED  BY <2>2, <2>3, <2>4 DEF Memory
<1>2. ASSUME NEW x \in Memory(c), NEW g, NEW D \in SUBSET Item, g \in [D -> ItemRecord]
      PROVE  [x EXCEPT !.heap = g] \in Memory(c)
  BY <1>2 DEF Memory
<1> DEFINE mem == Allocate(m, list[n], NewItem)
<1>3. mem \in Memory(c) /\ list[n] \in Item /\ 1 \in 1 .. k /\ list[1] \in Item
      /\ (n # 1 => n - 1 \in 1 .. k /\ list[n - 1] \in Item)
  BY <1>1
<1>4. PICK D \in SUBSET Item : mem.heap \in [D -> ItemRecord]
  <2> HIDE DEF mem
  <2> QED  BY <1>3 DEF Memory
<1> HIDE DEF mem
<1> DEFINE h == mem.heap
<1>5. ASSUME NEW x \in [D -> ItemRecord], NEW i \in Item, NEW v \in Item
      PROVE  /\ [x EXCEPT ![i].child = v] \in [D -> ItemRecord]
             /\ [x EXCEPT ![i].next = v] \in [D -> ItemRecord]
             /\ [x EXCEPT ![i].prev = v] \in [D -> ItemRecord]
  <2>1. CASE i \notin D
    BY <2>1
  <2>2. CASE i \in D
    <3>1. x[i] \in ItemRecord
      BY <2>2
    <3>2. /\ [x[i] EXCEPT !.child = v] \in ItemRecord
          /\ [x[i] EXCEPT !.next = v] \in ItemRecord
          /\ [x[i] EXCEPT !.prev = v] \in ItemRecord
      BY <3>1 DEF ItemRecord, Pointer
    <3> QED  BY <3>2
  <2> QED  BY <2>1, <2>2
<1>6. [h EXCEPT ![a].child = list[1]] \in [D -> ItemRecord]
  BY <1>3, <1>4, <1>5
<1>7. n # 1 => SuffixObject(h, list[n - 1], list[n]) \in [D -> ItemRecord]
  <2> SUFFICES ASSUME n # 1  PROVE SuffixObject(h, list[n - 1], list[n]) \in [D -> ItemRecord]
    OBVIOUS
  <2> DEFINE f == [h EXCEPT ![list[n - 1]].next = list[n]]
  <2>1. f \in [D -> ItemRecord]
    BY <1>3, <1>4, <1>5
  <2>2. SuffixObject(h, list[n - 1], list[n]) = [f EXCEPT ![list[n]].prev = list[n - 1]]
    BY DEF SuffixObject
  <2> HIDE DEF f
  <2>3. [f EXCEPT ![list[n]].prev = list[n - 1]] \in [D -> ItemRecord]
    BY <1>3, <1>5, <2>1
  <2> QED  BY <2>2, <2>3
<1>8. ArrayStep(a, list, m, n) =
         IF n = 1 THEN [mem EXCEPT !.heap = [h EXCEPT ![a].child = list[1]]]
         ELSE [mem EXCEPT !.heap = SuffixObject(h, list[n - 1], list[n])]
  <2>1. [mem EXCEPT !.heap[a].child = list[1]] = [mem EXCEPT !.heap = [h EXCEPT ![a].child = list[1]]]
    BY <1>3 DEF Memory
  <2>2. [mem EXCEPT !.heap = SuffixObject(@, list[n - 1], list[n])]
           = [mem EXCEPT !.heap = SuffixObject(h, list[n - 1], list[n])]
    BY <1>3 DEF Memory
  <2> QED  BY <2>1, <2>2 DEF ArrayStep, mem
<1> HIDE DEF h
<1>9. ArrayStep(a, list, m, n) \in Memory(c)
  <2>1. CASE n = 1
    <3>1. [mem EXCEPT !.heap = [h EXCEPT ![a].child = list[1]]] \in Memory(c)
      BY <1>2, <1>3, <1>6
    <3> QED  BY <1>8, <2>1, <3>1
  <2>2. CASE n # 1
    <3>1. [mem EXCEPT !.heap = SuffixObject(h, list[n - 1], list[n])] \in Memory(c)
      BY <1>2, <1>3, <1>7, <2>2
    <3> QED  BY <1>8, <2>2, <3>1
  <2> QED  BY <2>1, <2>2
<1> QED  BY <1>1, <1>9

(* The memory after each member.                                           *)
ArraySteps(h, m, a, list, n) ==
    /\ h[0] = Allocate(m, a, NewItem)
    /\ \A x \in 1 .. n : h[x] = ArrayStep(a, list, h[x - 1], x)
    /\ h[n] = CreateArrayOf(m, a, list)

(* The loop has such a memory after each turn.                             *)
LEMMA ArrayStepsExist ==
    ASSUME NEW c, NEW m \in Memory(c), NEW a \in Item, NEW n \in Nat \ {0}, NEW list \in [1 .. n -> Item]
    PROVE  \E h : ArraySteps(h, m, a, list, n)
<1> DEFINE V         == Memory(c)
           base      == Allocate(m, a, NewItem)
           Op(v, x)  == ArrayStep(a, list, v, x)
           seq       == [x \in DOMAIN list |-> x]
           Solves(g) == g = [t \in SUBSET DOMAIN seq |->
                                IF t = {} THEN base
                                ELSE Op(g[t \ {Max(t)}], seq[Max(t)])]
           G         == CHOOSE g : Solves(g)
<1>0. DOMAIN seq = 1 .. n /\ base \in V /\ \A x \in 1 .. n : seq[x] = x
  <2>1. base \in V
    <3>1. 1 \in 1 .. n
      OBVIOUS
    <3> QED  BY <3>1, StepInMemory
  <2> QED  BY <2>1
<1>1. CreateArrayOf(m, a, list) = G[DOMAIN seq]
  BY DEF CreateArrayOf, FoldLeft, MapThenFoldSet, ArrayStep
<1> HIDE DEF seq, base, V
<1>a. \A v \in V, x \in 1 .. n : Op(v, x) \in V
  BY StepInMemory DEF V
<1>2. \E g : Solves(g)
  <2> DEFINE Step == [y \in V \X (1 .. n) |-> Op(y[1], y[2])]
  <2>1. Step \in [V \X (1 .. n) -> V]
    BY <1>a
  <2> HIDE DEF Step
  <2>2. PICK g \in [SUBSET (1 .. n) -> V] : Folds(g, n, base, Step)
    BY <1>0, <2>1, FoldExists
  <2>3. ASSUME NEW t \in SUBSET (1 .. n), t # {}
        PROVE  Step[<<g[t \ {Max(t)}], Max(t)>>] = Op(g[t \ {Max(t)}], seq[Max(t)])
    <3>1. g[t \ {Max(t)}] \in V /\ Max(t) \in 1 .. n
      BY <2>3, MaxOfInterval
    <3> QED  BY <1>0, <3>1 DEF Step
  <2>4. \A t \in SUBSET (1 .. n) :
            g[t] = IF t = {} THEN base ELSE Op(g[t \ {Max(t)}], seq[Max(t)])
    BY <2>2, <2>3 DEF Folds
  <2>5. Solves(g)
    BY Zenon, <1>0, <2>4
  <2> HIDE DEF Solves
  <2> QED  BY <2>5
<1>3. Solves(G)
  BY Zenon, <1>2
<1> HIDE DEF G
<1> DEFINE h == [i \in 0 .. n |-> G[1 .. i]]
<1>4. h[0] = base /\ h[n] = CreateArrayOf(m, a, list)
  BY <1>0, <1>1, <1>3
<1>5. ASSUME NEW i \in 1 .. n  PROVE h[i] = Op(h[i - 1], i)
  <2>1. i \in Nat \ {0} /\ 1 .. i \in SUBSET (1 .. n) /\ i - 1 \in 0 .. n
    OBVIOUS
  <2>2. 1 .. i # {} /\ Max(1 .. i) = i /\ (1 .. i) \ {Max(1 .. i)} = 1 .. i - 1
    BY <2>1, MaxOfPrefix
  <2>3. G[1 .. i] = Op(G[(1 .. i) \ {Max(1 .. i)}], seq[Max(1 .. i)])
    BY <1>0, <1>3, <2>1, <2>2
  <2>4. G[1 .. i] = Op(G[1 .. i - 1], i)
    BY <1>0, <2>2, <2>3
  <2>5. h[i] = G[1 .. i] /\ h[i - 1] = G[1 .. i - 1]
    BY <2>1
  <2> HIDE DEF h
  <2> QED  BY Zenon, <2>4, <2>5
<1>6. ArraySteps(h, m, a, list, n)
  <2> HIDE DEF h
  <2> QED  BY <1>4, <1>5 DEF ArraySteps, base
<1> QED  BY <1>6

(* A new array has its members in their order.                             *)
LEMMA CreateArrayRight ==
    ASSUME NEW m, NEW M, NEW N, Right(m, M, N), NEW a \in Item \ DOMAIN M, NEW n \in Nat \ {0},
           NEW list \in [1 .. n -> Item \ (DOMAIN M \union {a})],
           \A x, y \in 1 .. n : list[x] = list[y] => x = y,
           NEW M2, M2 = [j \in DOMAIN M \union {a} \union ToSet(list) |->
                            IF j \in DOMAIN M THEN M[j] ELSE IF j = a THEN list ELSE << >>],
           NEW N2, N2 = [j \in DOMAIN M2 |-> IF j \in DOMAIN M THEN N[j] ELSE NoName]
    PROVE  Right(CreateArrayOf(m, a, list), M2, N2)
<1> DEFINE V      == DOMAIN M
           D(x)   == V \union {a} \union {list[y] : y \in 1 .. x}
           pre(x) == [y \in 1 .. x |-> list[y]]
           MM(x)  == [j \in D(x) |-> IF j \in V THEN M[j] ELSE IF j = a THEN pre(x) ELSE << >>]
           NN(x)  == [j \in D(x) |-> IF j \in V THEN N[j] ELSE NoName]
<1>1. /\ Good(m.heap, M) /\ IsHeap(m.heap) /\ DOMAIN m.heap = V
      /\ M = [j \in V |-> M[j]] /\ N = [j \in V |-> N[j]] /\ DOMAIN N = V
      /\ m = [heap |-> m.heap, copies |-> m.copies]
  BY DEF Right, Good, Trees, NamesRight
<1>2. m \in Memory(m.copies)
  BY <1>1 DEF Memory, IsHeap
<1>3. list \in [1 .. n -> Item] /\ \A y \in 1 .. n : list[y] \in Item /\ list[y] \notin V /\ list[y] # a
  OBVIOUS
<1>4. PICK h : ArraySteps(h, m, a, list, n)
  BY <1>2, <1>3, ArrayStepsExist
<1> HIDE DEF V
<1> DEFINE P == {x \in 0 .. n : Right(h[x], MM(x), NN(x)) /\ ~h[x].heap[a].ref}
<1>5. 0 \in P
  <2>1. /\ Right(Allocate(m, a, NewItem), Tree!With(M, a, << >>), Tree!With(N, a, NoName))
        /\ Allocate(m, a, NewItem).heap = WithItem(m.heap, a, NewItem)
    BY AllocateRight, NewItemIs
  <2>2. D(0) = V \union {a} /\ pre(0) = << >> /\ a \notin V
    BY DEF V
  <2>3. MM(0) = Tree!With(M, a, << >>) /\ NN(0) = Tree!With(N, a, NoName)
    BY <1>1, <2>2 DEF Tree!With, V
  <2>4. ~WithItem(m.heap, a, NewItem)[a].ref
    BY NewItemIs DEF WithItem
  <2>5. h[0] = Allocate(m, a, NewItem)
    BY <1>4 DEF ArraySteps
  <2> HIDE DEF MM, NN
  <2> QED  BY <2>1, <2>3, <2>4, <2>5
<1>6. ASSUME NEW x \in 1 .. n, x - 1 \in P  PROVE x \in P
  <2> DEFINE w   == x - 1
             i   == list[x]
             mem == Allocate(h[w], i, NewItem)
             M3  == Tree!With(MM(w), i, << >>)
             N3  == Tree!With(NN(w), i, NoName)
             l   == pre(w)
  <2>0. /\ w \in Nat /\ w \in 0 .. n /\ x \in Nat /\ x = w + 1 /\ x \in 0 .. n
        /\ Right(h[w], MM(w), NN(w)) /\ ~h[w].heap[a].ref
    BY <1>6
  <2>1. h[x] = ArrayStep(a, list, h[w], x)
    BY <1>4 DEF ArraySteps
  <2>2. /\ \A y \in 1 .. w : y \in 1 .. n /\ y # x
        /\ i \in Item /\ i \notin V /\ i # a /\ i \notin D(w)
        /\ D(x) = D(w) \union {i} /\ a \in D(w) /\ a \notin V
    <3>1. \A y \in 1 .. w : y \in 1 .. n /\ y # x
      BY <2>0
    <3>2. 1 .. x = (1 .. w) \union {x}
      BY <2>0
    <3> QED  BY <1>3, <3>1, <3>2 DEF V
  <2>3. /\ Right(mem, M3, N3) /\ IsRoot(M3, i)
        /\ mem.heap = WithItem(h[w].heap, i, NewItem)
    <3>1. i \notin DOMAIN MM(w)
      BY <2>2
    <3> HIDE DEF MM, NN, i, w
    <3> QED  BY <2>0, <2>2, <3>1, AllocateRight, NewItemIs
  <2>4. DOMAIN MM(w) = D(w) /\ MM(w)[a] = l
    BY <2>2
  <2>5. /\ DOMAIN M3 = D(x) /\ M3[a] = l /\ M3[i] = << >> /\ \A q \in D(w) : M3[q] = MM(w)[q]
        /\ M3 = [q \in D(x) |-> M3[q]]
    BY <2>2, <2>4 DEF Tree!With
  <2>6. l \in Seq(D(x)) /\ Len(l) = w /\ \A y \in 1 .. w : l[y] = list[y]
    <3>1. \A y \in 1 .. w : list[y] \in D(x)
      BY <2>2
    <3>2. w \in Nat /\ l = [y \in 1 .. w |-> list[y]]
      BY <2>0
    <3> DEFINE E == D(x)
    <3>3. \A y \in 1 .. w : list[y] \in E
      BY <3>1
    <3> HIDE DEF E, l, w
    <3>4. l \in [1 .. w -> E]
      BY <3>2, <3>3
    <3>5. l \in Seq(E) /\ Len(l) = w
      BY <3>2, <3>4
    <3> QED  BY <3>2, <3>5 DEF E
  <2>7. ~mem.heap[a].ref
    <3>1. DOMAIN h[w].heap = D(w)
      BY <2>0, <2>4 DEF Right, Good
    <3> QED  BY <2>0, <2>2, <2>3, <3>1 DEF WithItem
  <2>8. CanJoin(M3, i, a)
    <3>1. IsTree(M3, i, {i})
      <4>1. DOMAIN << >> = {}
        OBVIOUS
      <4> QED  BY <2>2, <2>5, <4>1 DEF IsTree, Closed
    <3>2. Trees(M3) /\ a \in DOMAIN M3 /\ a \notin {i} /\ i \in DOMAIN M3
      BY <2>2, <2>3, <2>5 DEF Right, Good
    <3>3. \E rank : Ranked(M3, rank) /\ rank[i] < rank[a]
      <4> HIDE DEF M3, i
      <4> QED  BY <3>1, <3>2, RankAbove
    <3> QED  BY <2>3, <3>2, <3>3 DEF CanJoin
  <2> DEFINE g  == LinkLast(mem.heap, a, l, i)
             M4 == [M3 EXCEPT ![a] = InsertAt(l, Len(l) + 1, i)]
  <2>9. h[x] = [heap |-> g, copies |-> mem.copies]
    <3>1. mem = [heap |-> mem.heap, copies |-> mem.copies]
      BY <2>3 DEF Right
    <3>2. CASE x = 1
      <4>1. l = << >> /\ i = list[1]
        BY <2>0, <3>2
      <4>2. h[x] = [mem EXCEPT !.heap[a].child = i]
        BY <2>1, <3>2 DEF ArrayStep
      <4>3. g = [mem.heap EXCEPT ![a].child = i]
        BY <4>1 DEF LinkLast
      <4> HIDE DEF mem, i, g
      <4> QED  BY <3>1, <4>2, <4>3
    <3>3. CASE x # 1
      <4>1. l # << >> /\ l[Len(l)] = list[x - 1]
        BY <2>0, <2>6, <3>3
      <4>2. h[x] = [mem EXCEPT !.heap = SuffixObject(@, list[x - 1], i)]
        BY <2>1, <3>3 DEF ArrayStep
      <4>3. g = SuffixObject(mem.heap, list[x - 1], i)
        BY <4>1 DEF LinkLast
      <4> HIDE DEF mem, i, g
      <4> QED  BY <3>1, <4>2, <4>3
    <3> QED  BY <3>2, <3>3
  <2>10. Right([heap |-> g, copies |-> mem.copies], M4, N3) /\ Alike(mem.heap, g)
    <3>1. g = LinkLast(mem.heap, a, M3[a], i) /\ M4 = [M3 EXCEPT ![a] = InsertAt(M3[a], Len(M3[a]) + 1, i)]
      BY <2>5
    <3> HIDE DEF mem, M3, N3, i, g, M4, l
    <3> QED  BY <2>3, <2>7, <2>8, <3>1, LinkedLast
  <2>11. InsertAt(l, Len(l) + 1, i) = pre(x)
    <3>1. InsertAt(l, Len(l) + 1, i) = Append(l, i)
      <4>1. i \in D(x)
        BY <2>2
      <4> HIDE DEF l, i, D
      <4> QED  BY <2>6, <4>1, InsertLast
    <3>2. Append(l, i) = pre(x)
      <4>1. pre(x) \in Seq(D(x)) /\ Len(pre(x)) = w + 1 /\ pre(x)[w + 1] = i
            /\ \A y \in 1 .. w : pre(x)[y] = l[y]
        <5>1. \A y \in 1 .. x : list[y] \in D(x)
          OBVIOUS
        <5>2. \A y \in 1 .. w : y \in 1 .. x /\ l[y] = list[y]
          BY <2>0
        <5>3. w + 1 = x /\ w + 1 \in 1 .. x /\ x \in Nat /\ list[x] = i
          BY <2>0
        <5>4. pre(x) = [y \in 1 .. x |-> list[y]]
          OBVIOUS
        <5> HIDE DEF D, l, pre, w, i
        <5>5. pre(x) \in Seq(D(x)) /\ Len(pre(x)) = x
          BY <5>1, <5>3, <5>4
        <5> QED  BY <5>2, <5>3, <5>4, <5>5
      <4>2. i \in D(x)
        BY <2>2
      <4> HIDE DEF l, i, D, pre, w
      <4>3. Append(l, i) \in Seq(D(x)) /\ Len(Append(l, i)) = w + 1 /\ Append(l, i)[w + 1] = i
            /\ \A y \in 1 .. w : Append(l, i)[y] = l[y]
        BY <2>6, <4>2, AppendProperties
      <4>4. \A y \in 1 .. w + 1 : y \in 1 .. w \/ y = w + 1
        BY <2>0
      <4> QED  BY <4>1, <4>3, <4>4, SeqEqual
    <3> QED  BY <3>1, <3>2
  <2>12. M4 = MM(x)
    <3>1. DOMAIN M4 = D(x) /\ M4 = [q \in D(x) |-> M4[q]]
      BY <2>5
    <3>2. ASSUME NEW q \in D(x)  PROVE M4[q] = MM(x)[q]
      <4>1. M4[q] = IF q = a THEN pre(x) ELSE M3[q]
        BY <2>2, <2>5, <2>11
      <4>2. CASE q = i
        BY <2>2, <2>5, <4>1, <4>2
      <4>3. CASE q # i
        BY <2>2, <2>5, <4>1, <4>3
      <4> QED  BY <4>2, <4>3
    <3>3. MM(x) = [q \in D(x) |-> MM(x)[q]]
      OBVIOUS
    <3> HIDE DEF M4, MM, D
    <3> QED  BY <3>1, <3>2, <3>3
  <2>13. N3 = NN(x)
    BY <2>2 DEF Tree!With
  <2>14. ~g[a].ref
    <3>1. a \in DOMAIN mem.heap
      BY <2>2, <2>3, <2>5 DEF Right, Good
    <3> HIDE DEF g, mem
    <3> QED  BY <2>7, <2>10, <3>1 DEF Alike
  <2> HIDE DEF g, M4, MM, NN, N3, mem
  <2> QED  BY <2>0, <2>9, <2>10, <2>12, <2>13, <2>14
<1>7. n \in P
  <2>1. 0 .. n \subseteq P
    <3> HIDE DEF P
    <3> QED  BY <1>5, <1>6, Along
  <2> HIDE DEF P
  <2> QED  BY <2>1
<1>8. pre(n) = list /\ D(n) = V \union {a} \union ToSet(list)
  BY <1>3 DEF ToSet
<1>9. M2 = MM(n) /\ N2 = NN(n)
  <2>1. M2 = MM(n)
    BY <1>8 DEF V
  <2>2. DOMAIN M2 = D(n)
    BY <2>1
  <2> QED  BY <2>1, <2>2 DEF V
<1>10. h[n] = CreateArrayOf(m, a, list)
  BY <1>4 DEF ArraySteps
<1> HIDE DEF MM, NN
<1> QED  BY <1>7, <1>9, <1>10
-----------------------------------------------------------------------------
(* The calls of the program.                                               *)

(* What the invariant says of a state.                                     *)
LEMMA Now ==
    ASSUME ItemsRight
    PROVE  /\ Right(Mem, members, name) /\ Trees(members) /\ Mem.heap = heap
           /\ Good(heap, members) /\ IsHeap(heap)
           /\ DOMAIN members = Items /\ IsFiniteSet(Items) /\ Items \subseteq Item
           /\ DOMAIN name = Items /\ name = [i \in Items |-> heap[i].string]
           /\ \A i \in Items : heap[i] \in ItemRecord /\ name[i] \in Name \union {NoName}
<1>1. \A i \in Items : heap[i] \in ItemRecord
  BY DEF ItemsRight, Good, IsHeap, Items
<1>2. \A i \in Items : heap[i].string \in Name \union {NoName}
  BY <1>1 DEF ItemRecord
<1> QED  BY <1>1, <1>2 DEF ItemsRight, Good, IsHeap, Right, NamesRight, Mem, Items

(* A call that leads to a memory that holds the trees promised keeps it.   *)
LEMMA Then ==
    ASSUME NEW m, NEW M, NEW N, Right(m, M, N), Becomes(m), members' = M, name' = N
    PROVE  ItemsRight'
BY DEF ItemsRight, Right, Becomes

(* The roots of the trees are the items that are members of none.          *)
LEMMA RootsAre ==
    ASSUME ItemsRight, NEW i
    PROVE  i \in Tree!Roots <=> i \in Items /\ IsRoot(members, i)
<1>1. DOMAIN members = Items
  BY Now
<1>2. ASSUME NEW p \in Items
      PROVE  i \in Tree!ToSet(members[p]) <=> \E a \in DOMAIN members[p] : members[p][a] = i
  BY DEF Tree!ToSet
<1> QED  BY <1>1, <1>2 DEF Tree!Roots, Tree!Items, IsRoot

(* An item that may be added is a root that can join.                      *)
LEMMA MayJoinIs ==
    ASSUME ItemsRight, NEW i, NEW p \in Items, Tree!MayJoin(i, p)
    PROVE  CanJoin(members, i, p) /\ i # p
<1>1. i \in Items /\ IsRoot(members, i) /\ p \notin Tree!Tree(i)
  BY RootsAre DEF Tree!MayJoin
<1>2. DOMAIN members = Items /\ Trees(members) /\ IsFiniteSet(DOMAIN members)
  BY Now
<1>3. IsTree(members, i, Tree!Tree(i))
  BY <1>1, <1>2, TreeIs
<1>4. \E rank : Ranked(members, rank) /\ rank[i] < rank[p]
  BY <1>1, <1>2, <1>3, RankAbove
<1>5. i # p
  BY <1>1, <1>3 DEF IsTree
<1> QED  BY <1>1, <1>2, <1>4, <1>5 DEF CanJoin

(* An item that is new can join every other.                               *)
LEMMA NewCanJoin ==
    ASSUME NEW M, NEW i, i \notin DOMAIN M, NEW p \in DOMAIN M,
           Trees(Tree!With(M, i, << >>)), IsRoot(Tree!With(M, i, << >>), i)
    PROVE  CanJoin(Tree!With(M, i, << >>), i, p)
<1> DEFINE M2 == Tree!With(M, i, << >>)
<1>1. i \in DOMAIN M2 /\ p \in DOMAIN M2 /\ p # i /\ M2[i] = << >>
  BY DEF Tree!With
<1>2. IsTree(M2, i, {i})
  <2>1. DOMAIN << >> = {}
    OBVIOUS
  <2> QED  BY <1>1, <2>1 DEF IsTree, Closed
<1>3. \E rank : Ranked(M2, rank) /\ rank[i] < rank[p]
  <2>1. p \notin {i} /\ p \in DOMAIN M2 /\ Trees(M2)
    BY <1>1
  <2> HIDE DEF M2
  <2> QED  BY <1>2, <2>1, RankAbove
<1> QED  BY <1>1, <1>3 DEF CanJoin

(* To put a new item into a list is to make a list with it and then it.    *)
LEMMA AttachedNew ==
    ASSUME NEW M, Trees(M), NEW i, i \notin DOMAIN M, NEW p \in DOMAIN M,
           NEW M2, M2 = Tree!With(M, i, << >>)
    PROVE  [M2 EXCEPT ![p] = InsertAt(M2[p], Len(M2[p]) + 1, i)]
             = Tree!With([M EXCEPT ![p] = Append(@, i)], i, << >>)
<1>1. p # i /\ M2[p] = M[p]
  BY DEF Tree!With
<1>2. M[p] \in Seq(DOMAIN M \union {i})
  <2>1. M[p] \in Seq(DOMAIN M)
    BY DEF Trees, Forest
  <2> QED  BY <2>1
<1>3. InsertAt(M[p], Len(M[p]) + 1, i) = Append(M[p], i)
  BY <1>2, InsertLast
<1>4. [M2 EXCEPT ![p] = Append(M[p], i)] = Tree!With([M EXCEPT ![p] = Append(M[p], i)], i, << >>)
  BY <1>1 DEF Tree!With
<1> QED  BY <1>1, <1>3, <1>4

(* A call that creates an item.                                            *)
LEMMA CreateKeeps ==
    ASSUME ItemsRight, NEW i \in Item \ Items, NEW item \in ItemRecord, item.string = NoName,
           item.next = NULL, item.prev = NULL, item.ref \/ item.child = NULL,
           Becomes(Allocate(Mem, i, item)) \/ Loses(Allocate(Mem, i, item), i), Tree!Create(i)
    PROVE  ItemsRight'
<1> DEFINE m == Allocate(Mem, i, item)
<1>1. Right(m, Tree!With(members, i, << >>), Tree!With(name, i, NoName))
  BY Now, AllocateRight
<1> HIDE DEF m
<1>2. heap' = m.heap /\ copies' = m.copies
  BY DEF Becomes, Loses, m
<1> QED  BY <1>1, <1>2 DEF Tree!Create, ItemsRight, Right

(* The calls that create an array with its members.                        *)
LEMMA CreateArrayKeeps ==
    ASSUME ItemsRight, CreateArray
    PROVE  ItemsRight'
<1>1. PICK a \in Item \ Items, n \in 1 .. MaxArray :
        \E list \in [1 .. n -> Item \ (Items \union {a})] :
            IsInjective(list) /\ Becomes(CreateArrayOf(Mem, a, list)) /\ Tree!CreateWith(a, list)
  BY DEF CreateArray
<1>2. PICK list \in [1 .. n -> Item \ (Items \union {a})] :
            IsInjective(list) /\ Becomes(CreateArrayOf(Mem, a, list)) /\ Tree!CreateWith(a, list)
  BY <1>1
<1> DEFINE M2 == [j \in Items \union {a} \union ToSet(list) |->
                    IF j \in Items THEN members[j] ELSE IF j = a THEN list ELSE << >>]
           N2 == [j \in DOMAIN M2 |-> IF j \in Items THEN name[j] ELSE NoName]
<1>3. \A x, y \in 1 .. n : list[x] = list[y] => x = y
  BY <1>2 DEF IsInjective
<1>4. DOMAIN members = Items /\ Right(Mem, members, name)
  BY Now
<1>5. n \in Nat \ {0}
  BY BoundsOK
<1>6. Right(CreateArrayOf(Mem, a, list), M2, N2)
  <2>1. /\ a \in Item \ DOMAIN members /\ list \in [1 .. n -> Item \ (DOMAIN members \union {a})]
        /\ M2 = [j \in DOMAIN members \union {a} \union ToSet(list) |->
                    IF j \in DOMAIN members THEN members[j] ELSE IF j = a THEN list ELSE << >>]
        /\ N2 = [j \in DOMAIN M2 |-> IF j \in DOMAIN members THEN name[j] ELSE NoName]
    BY <1>4
  <2> HIDE DEF M2, N2
  <2> QED  BY <1>3, <1>4, <1>5, <2>1, CreateArrayRight
<1>7. members' = M2
  BY <1>2, <1>4, SameLibrary DEF Tree!CreateWith, Tree!Items
<1>8. name' = N2
  BY <1>2, <1>4, <1>7 DEF Tree!CreateWith, Tree!Items
<1> HIDE DEF M2, N2
<1> QED  BY <1>2, <1>6, <1>7, <1>8, Then

(* cJSON_Delete.                                                           *)
LEMMA DeleteTreeKeeps ==
    ASSUME ItemsRight, DeleteTree
    PROVE  ItemsRight'
<1>1. PICK i \in Tree!Roots : Becomes(Delete(Mem, i)) /\ Tree!Delete(i)
  BY DEF DeleteTree
<1> DEFINE T == Tree!Tree(i)
<1>2. i \in Items /\ IsRoot(members, i)
  BY <1>1, RootsAre
<1>3. /\ Right(Mem, members, name) /\ Trees(members) /\ IsFiniteSet(DOMAIN members)
      /\ DOMAIN members = Items /\ Items \subseteq Item
  BY Now
<1>4. IsTree(members, i, T)
  BY <1>2, <1>3, TreeIs
<1>5. Right(Delete(Mem, i), Tree!Keep(members, T), Tree!Keep(name, T))
  <2> HIDE DEF T
  <2> QED  BY <1>2, <1>3, <1>4, DeleteKeeps
<1>6. i # NULL
  BY <1>2, <1>3, NamesOK
<1>7. [p \in Items |-> RemoveFirst(members[p], i)] = members
  <2>1. ASSUME NEW p \in Items  PROVE RemoveFirst(members[p], i) = members[p]
    <3>1. DOMAIN members[p] = 1 .. Len(members[p]) /\ \A n \in DOMAIN members[p] : members[p][n] # i
      BY <1>2, <1>3, ListOf DEF IsRoot
    <3> QED  BY <3>1, NowhereRemoved
  <2> QED  BY <1>3, <2>1 DEF Trees
<1>8. members' = Tree!Keep(members, T) /\ name' = Tree!Keep(name, T)
  BY <1>1, <1>3, <1>6, <1>7, SameLibrary DEF Tree!Delete, Tree!Items
<1> HIDE DEF T
<1> QED  BY <1>1, <1>5, <1>8, Then

(* What a call that adds an item promises.                                 *)
LEMMA AttachIs ==
    ASSUME ItemsRight, NEW p \in Items, NEW n \in 0 .. Len(members[p]), NEW i, NEW k,
           Tree!Attach(p, n, i, k)
    PROVE  /\ members' = [members EXCEPT ![p] = InsertAt(members[p], n + 1, i)]
           /\ name' = [name EXCEPT ![i] = k]
           /\ Len(members[p]) \in Nat
<1>1. DOMAIN members = Items /\ Len(members[p]) \in Nat
  BY Now, ListOf
<1>2. (IF n < Len(members[p]) THEN n + 1 ELSE Len(members[p]) + 1) = n + 1
  BY <1>1
<1>3. members' = [members EXCEPT ![p] =
                    Tree!InsertAt(@, IF n < Len(@) THEN n + 1 ELSE Len(@) + 1, i)]
      /\ name' = [name EXCEPT ![i] = k]
  BY DEF Tree!Attach
<1>4. members' = [members EXCEPT ![p] = InsertAt(members[p], n + 1, i)]
  BY <1>1, <1>2, <1>3, SameLibrary
<1> QED  BY <1>1, <1>3, <1>4

(* cJSON_AddItemToArray and cJSON_AddItemToObject, with a copied or a      *)
(* constant name.                                                          *)
LEMMA AddKeeps ==
    ASSUME ItemsRight, NEW p \in Container, NEW i \in Items, Add(p, i)
    PROVE  ItemsRight'
<1> DEFINE last == Len(members[p])
           M2   == [members EXCEPT ![p] = InsertAt(members[p], last + 1, i)]
<1>1. CanJoin(members, i, p) /\ p \in Items /\ ~heap[p].ref
  BY MayJoinIs DEF Add, Container
<1>2. /\ Right(Mem, members, name) /\ Mem.heap = heap /\ DOMAIN name = Items
      /\ name = [j \in Items |-> name[j]] /\ last \in 0 .. last /\ DOMAIN members = Items
  <2>1. last \in Nat
    BY <1>1, Now, ListOf
  <2>2. last \in 0 .. last
    BY <2>1
  <2>3. name = [j \in Items |-> name[j]]
    <3>1. name = [j \in Items |-> heap[j].string]
      BY Now
    <3> QED  BY <3>1
  <2> HIDE DEF last
  <2> QED  BY <2>2, <2>3, Now
<1>3. CASE Becomes(AddItemToArray(Mem, p, i)) /\ Tree!Attach(p, last, i, name[i])
  <2>1. members' = M2 /\ name' = [name EXCEPT ![i] = name[i]]
    BY <1>1, <1>2, <1>3, AttachIs
  <2>2. name' = name
    BY <1>2, <2>1
  <2>3. Right(AddItemToArray(Mem, p, i), M2, name)
    BY <1>1, <1>2, AddRight
  <2> HIDE DEF M2
  <2> QED  BY <1>3, <2>1, <2>2, <2>3, Then
<1>4. ASSUME NEW k \in Name, NEW const \in BOOLEAN,
             Becomes(AddItemToObject(Mem, p, k, i, const)), Tree!Attach(p, last, i, k)
      PROVE  ItemsRight'
  <2> DEFINE named == SetName(Mem, i, k, const)
             N2    == [name EXCEPT ![i] = k]
  <2>1. members' = M2 /\ name' = N2
    BY <1>1, <1>2, <1>4, AttachIs
  <2>2. Right(named, members, N2) /\ SamePlaces(heap, named.heap)
    BY <1>1, <1>2, SetNameRight
  <2>3. ~named.heap[p].ref
    BY <1>1, <2>2 DEF SamePlaces, Items
  <2>4. Right(AddItemToArray(named, p, i), M2, N2)
    <3> HIDE DEF named, N2
    <3> QED  BY <1>1, <2>2, <2>3, AddRight
  <2>5. Becomes(AddItemToArray(named, p, i))
    BY <1>4 DEF AddItemToObject
  <2> HIDE DEF M2, N2, named
  <2> QED  BY <2>1, <2>4, <2>5, Then
<1> QED  BY <1>3, <1>4 DEF Add

(* cJSON_InsertItemInArray.                                                *)
LEMMA InsertKeeps ==
    ASSUME ItemsRight, NEW p \in Container, NEW i \in Items, Insert(p, i)
    PROVE  ItemsRight'
<1>1. CanJoin(members, i, p) /\ p \in Items /\ ~heap[p].ref
  BY MayJoinIs DEF Insert, Container
<1>2. PICK n \in 0 .. Len(members[p]) :
        Becomes(InsertItemInArray(Mem, p, n, i)) /\ Tree!Attach(p, n, i, name[i])
  BY DEF Insert
<1>3. Right(Mem, members, name) /\ Mem.heap = heap /\ name = [j \in Items |-> heap[j].string]
  BY Now
<1>4. members' = [members EXCEPT ![p] = InsertAt(members[p], n + 1, i)] /\ name' = [name EXCEPT ![i] = name[i]]
  BY <1>1, <1>2, AttachIs
<1>5. name' = name
  BY <1>3, <1>4
<1>6. Right(InsertItemInArray(Mem, p, n, i), [members EXCEPT ![p] = InsertAt(members[p], n + 1, i)], name)
  BY <1>1, <1>3, InsertRight
<1> QED  BY <1>2, <1>4, <1>5, <1>6, Then

(* Calls that create an item and add it, with a name or without.           *)
LEMMA CreateAndAddKeeps ==
    ASSUME ItemsRight, NEW p \in Container, NEW i \in Item \ Items, NEW item \in ItemRecord,
           item.string = NoName, item.next = NULL, item.prev = NULL, item.ref \/ item.child = NULL
    PROVE  /\ Becomes(AddItemToArray(Allocate(Mem, i, item), p, i)) /\ Tree!AttachNew(p, i, NoName)
              => ItemsRight'
           /\ \A k \in Name :
                Becomes(AddItemToObject(Allocate(Mem, i, item), p, k, i, FALSE)) /\ Tree!AttachNew(p, i, k)
                => ItemsRight'
<1> DEFINE m  == Allocate(Mem, i, item)
           M1 == Tree!With(members, i, << >>)
           N1 == Tree!With(name, i, NoName)
           M2 == Tree!With([members EXCEPT ![p] = Append(@, i)], i, << >>)
<1>1. /\ Right(Mem, members, name) /\ Mem.heap = heap /\ DOMAIN members = Items /\ Trees(members)
      /\ DOMAIN name = Items /\ p \in Items /\ ~heap[p].ref /\ p # i
  BY Now DEF Container
<1>2. Right(m, M1, N1) /\ IsRoot(M1, i) /\ m.heap = WithItem(heap, i, item)
  BY <1>1, AllocateRight
<1>3. ~m.heap[p].ref
  BY <1>1, <1>2 DEF WithItem, Items
<1>4. CanJoin(M1, i, p)
  <2>1. Trees(M1)
    BY <1>2 DEF Right, Good
  <2> QED  BY <1>1, <1>2, <2>1, NewCanJoin
<1>5. [M1 EXCEPT ![p] = InsertAt(M1[p], Len(M1[p]) + 1, i)] = M2
  BY <1>1, AttachedNew
<1>6. i \in DOMAIN M1
  BY DEF Tree!With
<1> HIDE DEF M1, M2, m
<1>7. Right(AddItemToArray(m, p, i), M2, N1)
  <2> HIDE DEF N1
  <2>1. Right(AddItemToArray(m, p, i), [M1 EXCEPT ![p] = InsertAt(M1[p], Len(M1[p]) + 1, i)], N1)
    BY <1>2, <1>3, <1>4, AddRight
  <2> QED  BY <1>5, <2>1
<1>8. ASSUME NEW k \in Name, Becomes(AddItemToObject(m, p, k, i, FALSE)), Tree!AttachNew(p, i, k)
      PROVE  ItemsRight'
  <2> DEFINE named == SetName(m, i, k, FALSE)
             N2    == Tree!With(name, i, k)
  <2>1. members' = M2 /\ name' = N2
    BY <1>8 DEF Tree!AttachNew, M2
  <2>2. [N1 EXCEPT ![i] = k] = N2
    BY DEF Tree!With
  <2>3. Right(named, M1, [N1 EXCEPT ![i] = k]) /\ SamePlaces(m.heap, named.heap)
    <3> HIDE DEF N1
    <3> QED  BY <1>2, <1>6, SetNameRight
  <2>4. ~named.heap[p].ref
    <3>1. p \in DOMAIN m.heap
      BY <1>1, <1>2 DEF WithItem, Items
    <3> QED  BY <1>3, <2>3, <3>1 DEF SamePlaces
  <2>5. Right(AddItemToArray(named, p, i), M2, N2)
    <3> HIDE DEF named, N2, N1
    <3>1. Right(AddItemToArray(named, p, i), [M1 EXCEPT ![p] = InsertAt(M1[p], Len(M1[p]) + 1, i)], N2)
      BY <1>4, <2>2, <2>3, <2>4, AddRight
    <3> QED  BY <1>5, <3>1
  <2>6. Becomes(AddItemToArray(named, p, i))
    BY <1>8 DEF AddItemToObject
  <2> HIDE DEF N2, named
  <2> QED  BY <2>1, <2>5, <2>6, Then
<1>9. ASSUME Becomes(AddItemToArray(m, p, i)), Tree!AttachNew(p, i, NoName)
      PROVE  ItemsRight'
  <2>1. members' = M2 /\ name' = N1
    BY <1>9 DEF Tree!AttachNew, M2
  <2> HIDE DEF N1
  <2> QED  BY <1>7, <1>9, <2>1, Then
<1> QED  BY <1>8, <1>9 DEF m

(* cJSON_AddItemReferenceToArray and to an object, and the reference that  *)
(* is lost when its name cannot be copied.                                 *)
LEMMA AddReferenceKeeps ==
    ASSUME ItemsRight, NEW p \in Container, NEW item \in Items, AddReference(p, item)
    PROVE  ItemsRight'
<1> DEFINE r == [heap[item] EXCEPT !.string = NoName, !.ref = TRUE, !.next = NULL, !.prev = NULL]
<1>1. r \in ItemRecord /\ r.string = NoName /\ r.next = NULL /\ r.prev = NULL /\ r.ref
  <2>1. heap[item] \in ItemRecord
    BY Now
  <2> QED  BY <2>1 DEF ItemRecord, Pointer
<1>2. PICK i \in Item \ Items :
        LET m == CreateReference(Mem, i, item)
        IN  \/ Becomes(AddItemToArray(m, p, i)) /\ Tree!AttachNew(p, i, NoName)
            \/ \E k \in Name : /\ Becomes(AddItemToObject(m, p, k, i, FALSE))
                              /\ Tree!AttachNew(p, i, k)
            \/ Loses(m, i) /\ Tree!Create(i)
  BY DEF AddReference
<1>3. CreateReference(Mem, i, item) = Allocate(Mem, i, r)
  BY DEF CreateReference, Mem
<1> HIDE DEF r
<1> QED  BY <1>1, <1>2, <1>3, CreateAndAddKeeps, CreateKeeps

(* cJSON_AddNullToObject and the like, and their failure.                  *)
LEMMA AddNewKeeps ==
    ASSUME ItemsRight, NEW p \in Container, AddNew(p)
    PROVE  ItemsRight'
<1> DEFINE m(i) == Allocate(Mem, i, NewItem)
<1>1. PICK i \in Item \ Items, k \in Name :
        \/ Becomes(AddItemToObject(m(i), p, k, i, FALSE)) /\ Tree!AttachNew(p, i, k)
        \/ Becomes(Delete(m(i), i)) /\ Tree!Nothing
  BY DEF AddNew
<1>2. CASE Becomes(AddItemToObject(m(i), p, k, i, FALSE)) /\ Tree!AttachNew(p, i, k)
  BY <1>2, NewItemIs, CreateAndAddKeeps
<1>3. CASE Becomes(Delete(m(i), i)) /\ Tree!Nothing
  <2> DEFINE M1 == Tree!With(members, i, << >>)
             N1 == Tree!With(name, i, NoName)
  <2>1. /\ Right(Mem, members, name) /\ DOMAIN members = Items /\ DOMAIN name = Items
        /\ members = [j \in Items |-> members[j]] /\ name = [j \in Items |-> name[j]]
    <3>1. name = [j \in Items |-> heap[j].string] /\ DOMAIN members = Items /\ Trees(members)
      BY Now
    <3>2. name = [j \in Items |-> name[j]]
      BY <3>1
    <3> QED  BY <3>1, <3>2, Now DEF Trees
  <2>2. Right(m(i), M1, N1) /\ IsRoot(M1, i)
    BY <2>1, NewItemIs, AllocateRight
  <2>3. i \in DOMAIN M1 /\ IsTree(M1, i, {i})
    <3>1. DOMAIN << >> = {}
      OBVIOUS
    <3> QED  BY <3>1 DEF Tree!With, IsTree, Closed
  <2>4. Tree!Keep(M1, {i}) = members /\ Tree!Keep(N1, {i}) = name
    <3>1. DOMAIN M1 \ {i} = Items /\ DOMAIN N1 \ {i} = Items
      BY <2>1 DEF Tree!With
    <3>2. \A j \in Items : M1[j] = members[j] /\ N1[j] = name[j]
      BY <2>1 DEF Tree!With
    <3> HIDE DEF M1, N1
    <3> QED  BY <2>1, <3>1, <3>2 DEF Tree!Keep
  <2>5. Right(Delete(m(i), i), members, name)
    <3> HIDE DEF M1, N1, m
    <3>1. Right(Delete(m(i), i), Tree!Keep(M1, {i}), Tree!Keep(N1, {i}))
      BY <2>2, <2>3, DeleteKeeps
    <3> QED  BY <2>4, <3>1
  <2>6. members' = members /\ name' = name
    BY <1>3 DEF Tree!Nothing
  <2> HIDE DEF m
  <2> QED  BY <1>3, <2>5, <2>6, Then
<1> QED  BY <1>1, <1>2, <1>3

(* cJSON_CreateNull and the like.                                          *)
LEMMA NewItemKeeps ==
    ASSUME ItemsRight, Create
    PROVE  ItemsRight'
BY NewItemIs, CreateKeeps DEF Create

(* Pointers lead to items that exist and point back.                       *)
LEMMA PointersRight ==
    ASSUME NEW h, NEW M, Good(h, M), NEW i \in DOMAIN h
    PROVE  /\ h[i].next # NULL => h[i].next \in DOMAIN h /\ h[h[i].next].prev = i
           /\ h[i].prev # NULL => h[i].prev \in DOMAIN h /\ h[h[i].prev].next = i
           /\ h[i].child # NULL /\ ~h[i].ref => h[i].child \in DOMAIN h /\ h[h[i].child].prev = NULL
           /\ IsRoot(M, i) => h[i].next = NULL /\ h[i].prev = NULL
<1>1. Linked(h, M) /\ DOMAIN M = DOMAIN h /\ Trees(M)
  BY DEF Good
<1>2. \A q \in DOMAIN h : /\ Len(M[q]) \in Nat /\ DOMAIN M[q] = 1 .. Len(M[q])
                          /\ \A a \in 1 .. Len(M[q]) : /\ M[q][a] \in DOMAIN h
                                                       /\ h[M[q][a]].next = After(M[q], a)
                                                       /\ h[M[q][a]].prev = Before(M[q], a)
  <2>1. ASSUME NEW q \in DOMAIN h
        PROVE  /\ Len(M[q]) \in Nat /\ DOMAIN M[q] = 1 .. Len(M[q])
               /\ \A a \in 1 .. Len(M[q]) : M[q][a] \in DOMAIN h
    BY <1>1, ListOf
  <2> QED  BY <1>1, <2>1 DEF Linked
<1>3. IsRoot(M, i) => h[i].next = NULL /\ h[i].prev = NULL
  BY <1>1 DEF Linked
<1>4. ASSUME ~IsRoot(M, i)
      PROVE  /\ h[i].next # NULL => h[i].next \in DOMAIN h /\ h[h[i].next].prev = i
             /\ h[i].prev # NULL => h[i].prev \in DOMAIN h /\ h[h[i].prev].next = i
  <2>1. PICK q \in DOMAIN h : \E a \in DOMAIN M[q] : M[q][a] = i
    BY <1>1, <1>4 DEF IsRoot
  <2>2. PICK a \in 1 .. Len(M[q]) : M[q][a] = i
    BY <1>2, <2>1
  <2> DEFINE l == M[q]
  <2>3. h[i].next = After(l, a) /\ h[i].prev = Before(l, a)
    BY <1>2, <2>2
  <2>4. /\ a # Len(l) => a + 1 \in 1 .. Len(l) /\ a + 1 # 1 /\ (a + 1) - 1 = a
        /\ a # 1 => a - 1 \in 1 .. Len(l) /\ a - 1 # Len(l) /\ (a - 1) + 1 = a
    BY <1>2
  <2>5. h[i].next # NULL => h[i].next \in DOMAIN h /\ h[h[i].next].prev = i
    <3> SUFFICES ASSUME h[i].next # NULL
                 PROVE  h[i].next \in DOMAIN h /\ h[h[i].next].prev = i
      OBVIOUS
    <3>1. a # Len(l) /\ h[i].next = l[a + 1]
      BY <2>3 DEF After
    <3>2. l[a + 1] \in DOMAIN h /\ h[l[a + 1]].prev = Before(l, a + 1)
      BY <1>2, <2>4, <3>1
    <3>3. Before(l, a + 1) = l[a]
      BY <2>4, <3>1 DEF Before
    <3> HIDE DEF l
    <3> QED  BY <2>2, <3>1, <3>2, <3>3 DEF l
  <2>6. h[i].prev # NULL => h[i].prev \in DOMAIN h /\ h[h[i].prev].next = i
    <3> SUFFICES ASSUME h[i].prev # NULL
                 PROVE  h[i].prev \in DOMAIN h /\ h[h[i].prev].next = i
      OBVIOUS
    <3>1. a # 1 /\ h[i].prev = l[a - 1]
      BY <2>3 DEF Before
    <3>2. l[a - 1] \in DOMAIN h /\ h[l[a - 1]].next = After(l, a - 1)
      BY <1>2, <2>4, <3>1
    <3>3. After(l, a - 1) = l[a]
      BY <2>4, <3>1 DEF After
    <3> HIDE DEF l
    <3> QED  BY <2>2, <3>1, <3>2, <3>3 DEF l
  <2> QED  BY <2>5, <2>6
<1>5. h[i].child # NULL /\ ~h[i].ref => h[i].child \in DOMAIN h /\ h[h[i].child].prev = NULL
  <2> SUFFICES ASSUME h[i].child # NULL, ~h[i].ref
               PROVE  h[i].child \in DOMAIN h /\ h[h[i].child].prev = NULL
    OBVIOUS
  <2>1. M[i] # << >> /\ h[i].child = M[i][1]
    BY <1>1 DEF Linked, First
  <2>2. 1 \in 1 .. Len(M[i])
    <3>1. M[i] \in Seq(DOMAIN M)
      BY <1>1 DEF Trees, Forest
    <3> QED  BY <2>1, <3>1
  <2>3. M[i][1] \in DOMAIN h /\ h[M[i][1]].prev = Before(M[i], 1)
    BY <1>2, <2>2
  <2> QED  BY <2>1, <2>3 DEF Before
<1> QED  BY <1>3, <1>4, <1>5

(* To delete no item changes nothing.                                      *)
LEMMA DeleteNothing ==
    ASSUME NEW m, NEW M, NEW N, Right(m, M, N)
    PROVE  Delete(m, NULL) = m
<1> DEFINE h  == m.heap
           V  == DOMAIN h
           to == [i \in V |-> {h[i].next, IF h[i].ref THEN NULL ELSE h[i].child} \ {NULL}]
<1>1. /\ Good(h, M) /\ IsFiniteSet(V) /\ h = [i \in V |-> h[i]]
      /\ m = [heap |-> h, copies |-> m.copies] /\ m.copies \in Nat
  <2>1. Good(h, M) /\ IsHeap(h) /\ m = [heap |-> h, copies |-> m.copies]
    BY DEF Right, Good
  <2>2. m.copies = Cardinality(Owners(h)) /\ IsFiniteSet(Owners(h))
    <3>1. Owners(h) \subseteq DOMAIN h
      BY DEF Owners
    <3> QED  BY <2>1, <3>1, FS_Subset DEF Right, NamesRight, IsHeap
  <2>3. m.copies \in Nat
    BY <2>2, FS_CardinalityType
  <2> QED  BY <2>1, <2>3 DEF IsHeap
<1>2. to \in [V -> SUBSET V]
  <2> SUFFICES ASSUME NEW i \in V
               PROVE  {h[i].next, IF h[i].ref THEN NULL ELSE h[i].child} \ {NULL} \subseteq V
    OBVIOUS
  <2> HIDE DEF h
  <2> QED  BY <1>1, PointersRight
<1>3. Freed(h, NULL) = {}
  <2>1. Freed(h, NULL) = Reachable({}, to)
    <3>1. {NULL} \ {NULL} = {}
      OBVIOUS
    <3> QED  BY <3>1 DEF Freed
  <2> HIDE DEF to, h
  <2>2. \A C : {} \subseteq C /\ (\A i \in C \cap V : to[i] \subseteq C) => Reachable({}, to) \subseteq C
    BY <1>1, <1>2, ReachableIs
  <2> QED  BY <2>1, <2>2
<1>4. {i \in Freed(h, NULL) : OwnsName(h[i])} = {} /\ V \ Freed(h, NULL) = V
  BY <1>3
<1>5. Delete(m, NULL) = [heap |-> [i \in V |-> h[i]], copies |-> m.copies - Cardinality({})]
  BY <1>4 DEF Delete
<1>6. Cardinality({}) = 0
  BY FS_EmptySet
<1> HIDE DEF V, h
<1>7. m.copies - 0 = m.copies
  BY <1>1
<1> QED  BY <1>1, <1>5, <1>6, <1>7

(* What the program finds is the member that the trees have there, if one. *)
Found(p, i) == i = NULL \/ \E n \in 1 .. Len(members[p]) : i = members[p][n]

(* The look-ups in the heap find what the trees have there.                *)
LEMMA FoundIs ==
    ASSUME ItemsRight, NEW p \in Container
    PROVE  /\ \A n \in 0 .. Len(members[p]) :
                GetArrayItem(heap, p, n) = Tree!At(p, n) /\ Found(p, Tree!At(p, n))
           /\ \A k \in Name, case \in BOOLEAN :
                GetObjectItem(heap, p, k, case) = Tree!Named(p, k, case) /\ Found(p, Tree!Named(p, k, case))
<1>1. /\ p \in Items /\ ~heap[p].ref /\ Good(heap, members) /\ DOMAIN members = Items
      /\ members[p] \in Seq(DOMAIN members) /\ Len(members[p]) \in Nat
      /\ DOMAIN members[p] = 1 .. Len(members[p])
      /\ \A n \in DOMAIN members[p] : members[p][n] \in Items
      /\ name = [i \in Items |-> heap[i].string]
  BY Now, ListOf DEF Container
<1>2. ASSUME NEW n \in 0 .. Len(members[p])
      PROVE  GetArrayItem(heap, p, n) = Tree!At(p, n) /\ Found(p, Tree!At(p, n))
  <2>1. n \in Nat /\ (n < Len(members[p]) => n + 1 \in 1 .. Len(members[p]))
    BY <1>1
  <2>2. GetArrayItem(heap, p, n) = Tree!At(p, n)
    BY <1>1, <2>1, GetArrayItemIs DEF Items
  <2> QED  BY <2>1, <2>2 DEF Tree!At, Found
<1>3. ASSUME NEW k \in Name, NEW case \in BOOLEAN
      PROVE  GetObjectItem(heap, p, k, case) = Tree!Named(p, k, case) /\ Found(p, Tree!Named(p, k, case))
  <2>1. List(heap, p) = members[p]
    BY <1>1, ListIs DEF Items
  <2>2. \A n \in DOMAIN members[p] : heap[members[p][n]].string = name[members[p][n]]
    BY <1>1
  <2>3. GetObjectItem(heap, p, k, case) = Tree!Named(p, k, case)
    BY <1>1, <2>1, <2>2, GetObjectItemIs
  <2> QED  BY <1>1, <2>3, NamedIs DEF Found
<1> QED  BY <1>2, <1>3

(* A member is taken out.                                                  *)
LEMMA DetachFound ==
    ASSUME ItemsRight, NEW p \in Container, NEW i, Found(p, i),
           Becomes(DetachItemViaPointer(Mem, p, i)), Tree!Detach(p, i)
    PROVE  ItemsRight'
<1>1. /\ Right(Mem, members, name) /\ DOMAIN members = Items /\ Trees(members) /\ Mem.heap = heap
      /\ p \in Items /\ ~heap[p].ref /\ IsHeap(heap)
  BY Now DEF Container
<1>2. /\ members[p] \in Seq(Items) /\ Len(members[p]) \in Nat /\ DOMAIN members[p] = 1 .. Len(members[p])
      /\ \A a, b \in 1 .. Len(members[p]) : members[p][a] = members[p][b] => a = b
      /\ \A a \in 1 .. Len(members[p]) : members[p][a] \in Items
  BY <1>1, ListOf
<1>3. members' = [members EXCEPT ![p] = RemoveFirst(members[p], i)] /\ name' = name
  BY SameLibrary DEF Tree!Detach
<1>4. CASE i = NULL
  <2>1. NULL \notin Items
    BY <1>1, NamesOK DEF IsHeap, Items
  <2>2. RemoveFirst(members[p], i) = members[p]
    BY <1>2, <1>4, <2>1, NowhereRemoved
  <2>3. members' = members
    BY <1>1, <1>3, <2>2 DEF Trees
  <2>4. DetachItemViaPointer(Mem, p, i) = Mem
    BY <1>4 DEF DetachItemViaPointer
  <2> QED  BY <1>1, <1>3, <2>3, <2>4, Then
<1>5. ASSUME NEW n \in 1 .. Len(members[p]), i = members[p][n]
      PROVE  ItemsRight'
  <2>1. RemoveFirst(members[p], i) = RemoveAt(members[p], n)
    BY <1>2, <1>5, Places
  <2>2. Right(DetachItemViaPointer(Mem, p, i), [members EXCEPT ![p] = RemoveAt(members[p], n)], name)
    BY <1>1, <1>5, DetachRight
  <2> QED  BY <1>3, <2>1, <2>2, Then
<1> QED  BY <1>4, <1>5 DEF Found

(* cJSON_DetachItemFromArray, and from an object.                          *)
LEMMA DetachKeeps ==
    ASSUME ItemsRight, NEW p \in Container, Detach(p)
    PROVE  ItemsRight'
<1>1. ASSUME NEW n \in 0 .. Len(members[p]) - 1,
             Becomes(DetachItemViaPointer(Mem, p, GetArrayItem(heap, p, n))),
             Tree!Detach(p, Tree!At(p, n))
      PROVE  ItemsRight'
  <2>1. n \in 0 .. Len(members[p])
    <3>1. Len(members[p]) \in Nat
      BY Now, ListOf DEF Container
    <3> QED  BY <3>1
  <2> QED  BY <1>1, <2>1, FoundIs, DetachFound
<1>2. ASSUME NEW k \in Name, NEW case \in BOOLEAN,
             Becomes(DetachItemViaPointer(Mem, p, GetObjectItem(heap, p, k, case))),
             Tree!Detach(p, Tree!Named(p, k, case))
      PROVE  ItemsRight'
  BY <1>2, FoundIs, DetachFound
<1> QED  BY <1>1, <1>2 DEF Detach

(* A member is taken out and deleted.                                      *)
LEMMA DeleteFound ==
    ASSUME ItemsRight, NEW p \in Container, NEW i, Found(p, i),
           Becomes(Delete(DetachItemViaPointer(Mem, p, i), i)), Tree!Delete(i)
    PROVE  ItemsRight'
<1>1. /\ Right(Mem, members, name) /\ DOMAIN members = Items /\ Trees(members) /\ Mem.heap = heap
      /\ p \in Items /\ ~heap[p].ref /\ IsHeap(heap) /\ IsFiniteSet(DOMAIN members)
  BY Now DEF Container
<1>2. ASSUME NEW q \in Items
      PROVE  /\ members[q] \in Seq(Items) /\ Len(members[q]) \in Nat
             /\ DOMAIN members[q] = 1 .. Len(members[q])
             /\ \A a, b \in 1 .. Len(members[q]) : members[q][a] = members[q][b] => a = b
             /\ \A a \in 1 .. Len(members[q]) : members[q][a] \in Items
  BY <1>1, ListOf
<1>3. CASE i = NULL
  <2>1. DetachItemViaPointer(Mem, p, i) = Mem
    BY <1>3 DEF DetachItemViaPointer
  <2>2. Delete(Mem, NULL) = Mem
    BY <1>1, DeleteNothing
  <2>3. members' = members /\ name' = name
    BY <1>3 DEF Tree!Delete, Tree!Nothing
  <2> QED  BY <1>1, <1>3, <2>1, <2>2, <2>3, Then
<1>4. ASSUME NEW n \in 1 .. Len(members[p]), i = members[p][n]
      PROVE  ItemsRight'
  <2> DEFINE T  == Tree!Tree(i)
             M1 == [members EXCEPT ![p] = RemoveAt(members[p], n)]
             d  == DetachItemViaPointer(Mem, p, i)
  <2>1. i \in Items /\ i # NULL
    BY <1>1, <1>2, <1>4, NamesOK DEF IsHeap, Items
  <2>2. IsTree(members, i, T)
    BY <1>1, <2>1, TreeIs
  <2>3. p \notin T
    <3>1. n \in DOMAIN members[p]
      BY <1>1, <1>2
    <3> HIDE DEF T
    <3> QED  BY <1>1, <1>4, <2>2, <3>1, NotBelowItself
  <2>4. Right(d, M1, name)
    BY <1>1, <1>4, DetachRight
  <2>5. DOMAIN M1 = Items /\ M1[p] = RemoveAt(members[p], n) /\ \A q \in Items : q # p => M1[q] = members[q]
    BY <1>1
  <2>6. /\ RemoveFirst(members[p], i) = M1[p]
        /\ \A a \in DOMAIN M1[p] : M1[p][a] # i
    <3>1. RemoveFirst(members[p], i) = RemoveAt(members[p], n)
      BY <1>1, <1>2, <1>4, Places
    <3>2. \A a \in DOMAIN RemoveAt(members[p], n) : RemoveAt(members[p], n)[a] # i
      <4> DEFINE l == members[p]
                 r == RemoveAt(l, n)
      <4>1. /\ Len(l) \in Nat /\ n \in 1 .. Len(l) /\ l \in Seq(Items) /\ l[n] = i
            /\ \A a, b \in 1 .. Len(l) : l[a] = l[b] => a = b
        BY <1>1, <1>2, <1>4
      <4> HIDE DEF l
      <4>2. Shorter(l, n, r) /\ DOMAIN r = 1 .. Len(r)
        BY <4>1, Removed, Elements
      <4>3. ASSUME NEW a \in 1 .. Len(r)  PROVE r[a] # i
        BY <4>1, <4>2 DEF Shorter
      <4> QED  BY <4>2, <4>3 DEF l
    <3> QED  BY <2>5, <3>1, <3>2
  <2>7. ASSUME NEW q \in Items, q # p
        PROVE  M1[q] = RemoveFirst(members[q], i) /\ \A a \in DOMAIN M1[q] : M1[q][a] # i
    <3>1. \A a \in DOMAIN members[q] : members[q][a] # i
      <4>1. n \in DOMAIN members[p]
        BY <1>1, <1>2
      <4> QED  BY <1>1, <1>4, <2>7, <4>1 DEF Trees, Forest
    <3>2. RemoveFirst(members[q], i) = members[q]
      BY <1>2, <3>1, NowhereRemoved
    <3> QED  BY <2>5, <2>7, <3>1, <3>2
  <2>8. IsRoot(M1, i)
    <3> HIDE DEF M1
    <3> QED  BY <2>5, <2>6, <2>7 DEF IsRoot
  <2>9. IsTree(M1, i, T)
    <3>1. T \subseteq Items
      BY <1>1, <2>2 DEF IsTree
    <3> HIDE DEF M1, T
    <3> QED  BY <1>1, <2>2, <2>3, <2>5, <3>1, TreeElsewhere
  <2>10. [q \in Items |-> RemoveFirst(members[q], i)] = M1
    <3>1. M1 = [q \in Items |-> M1[q]]
      BY <1>1
    <3> HIDE DEF M1
    <3> QED  BY <2>6, <2>7, <3>1
  <2> HIDE DEF T, M1
  <2>11. members' = Tree!Keep(M1, T) /\ name' = Tree!Keep(name, T)
    BY <1>1, <2>1, <2>10, SameLibrary DEF Tree!Delete, Tree!Items, T
  <2> HIDE DEF d
  <2>12. Right(Delete(d, i), Tree!Keep(M1, T), Tree!Keep(name, T))
    BY <2>1, <2>4, <2>5, <2>8, <2>9, DeleteKeeps
  <2> QED  BY <2>11, <2>12, Then DEF d
<1> QED  BY <1>3, <1>4 DEF Found

(* cJSON_DeleteItemFromArray, and from an object.                          *)
LEMMA DeleteMemberKeeps ==
    ASSUME ItemsRight, NEW p \in Container, DeleteMember(p)
    PROVE  ItemsRight'
<1> DEFINE Deletes(i) == Becomes(Delete(DetachItemViaPointer(Mem, p, i), i))
<1>1. ASSUME NEW n \in 0 .. Len(members[p]) - 1, Deletes(GetArrayItem(heap, p, n)),
             Tree!Delete(Tree!At(p, n))
      PROVE  ItemsRight'
  <2>1. n \in 0 .. Len(members[p])
    <3>1. Len(members[p]) \in Nat
      BY Now, ListOf DEF Container
    <3> QED  BY <3>1
  <2> QED  BY <1>1, <2>1, FoundIs, DeleteFound
<1>2. ASSUME NEW k \in Name, NEW case \in BOOLEAN, Deletes(GetObjectItem(heap, p, k, case)),
             Tree!Delete(Tree!Named(p, k, case))
      PROVE  ItemsRight'
  BY <1>2, FoundIs, DeleteFound
<1> QED  BY <1>1, <1>2 DEF DeleteMember

(* A root takes the place of a member, which is deleted.                   *)
LEMMA ReplaceFound ==
    ASSUME ItemsRight, NEW p \in Container, NEW i, Found(p, i), NEW r, CanJoin(members, r, p),
           NEW m, NEW N, Right(m, members, N), ~m.heap[p].ref,
           Becomes(ReplaceItemViaPointer(m, p, i, r)),
           IF i = NULL THEN members' = members /\ name' = N
           ELSE /\ members' = Tree!Keep([members EXCEPT ![p] = Tree!ReplaceAll(@, i, r)], Tree!Tree(i))
                /\ name' = Tree!Keep(N, Tree!Tree(i))
    PROVE  ItemsRight'
<1>1. /\ DOMAIN members = Items /\ Trees(members) /\ p \in Items /\ IsHeap(heap)
      /\ IsFiniteSet(DOMAIN members)
  BY Now DEF Container
<1>2. /\ members[p] \in Seq(Items) /\ Len(members[p]) \in Nat
      /\ \A a, b \in 1 .. Len(members[p]) : members[p][a] = members[p][b] => a = b
      /\ \A a \in 1 .. Len(members[p]) : members[p][a] \in Items
  BY <1>1, ListOf
<1>3. CASE i = NULL
  <2>1. ReplaceItemViaPointer(m, p, i, r) = m
    BY <1>3 DEF ReplaceItemViaPointer
  <2> QED  BY <1>3, <2>1, Then
<1>4. ASSUME NEW n \in 1 .. Len(members[p]), i = members[p][n]
      PROVE  ItemsRight'
  <2> DEFINE T  == Tree!Tree(i)
             M2 == Tree!Keep([members EXCEPT ![p] = ReplaceAt(members[p], n, r)], T)
             N2 == Tree!Keep(N, T)
  <2>1. i \in Items /\ i # NULL
    BY <1>1, <1>2, <1>4, NamesOK DEF IsHeap, Items
  <2>2. IsTree(members, i, T)
    BY <1>1, <2>1, TreeIs
  <2>3. ReplaceAll(members[p], i, r) = ReplaceAt(members[p], n, r)
    BY <1>2, <1>4, Places
  <2>4. members' = M2 /\ name' = N2
    BY <2>1, <2>3, SameLibrary
  <2>5. Right(ReplaceItemViaPointer(m, p, i, r), M2, N2)
    <3> HIDE DEF T
    <3> QED  BY <1>4, <2>2, ReplaceRight
  <2> HIDE DEF M2, N2
  <2> QED  BY <2>4, <2>5, Then
<1> QED  BY <1>3, <1>4 DEF Found

(* cJSON_ReplaceItemInArray, and in an object.                             *)
LEMMA ReplaceKeeps ==
    ASSUME ItemsRight, NEW p \in Container, NEW r \in Items, Replace(p, r)
    PROVE  ItemsRight'
<1>1. CanJoin(members, r, p) /\ p \in Items /\ ~heap[p].ref
  BY MayJoinIs DEF Replace, Container
<1>2. /\ Right(Mem, members, name) /\ Mem.heap = heap /\ DOMAIN members = Items
      /\ name = [j \in Items |-> heap[j].string] /\ Trees(members) /\ Good(heap, members)
  BY Now
<1>3. ASSUME NEW n \in 0 .. Len(members[p]),
             Becomes(ReplaceItemViaPointer(Mem, p, GetArrayItem(heap, p, n), r)),
             Tree!Replace(p, Tree!At(p, n), r, name[r])
      PROVE  ItemsRight'
  <2> DEFINE i == Tree!At(p, n)
  <2>1. GetArrayItem(heap, p, n) = i /\ Found(p, i)
    BY FoundIs
  <2>2. [name EXCEPT ![r] = name[r]] = name
    BY <1>2
  <2>3. IF i = NULL THEN members' = members /\ name' = name
        ELSE /\ members' = Tree!Keep([members EXCEPT ![p] = Tree!ReplaceAll(@, i, r)], Tree!Tree(i))
             /\ name' = Tree!Keep(name, Tree!Tree(i))
    BY <1>3, <2>2 DEF Tree!Replace
  <2> HIDE DEF i
  <2> QED  BY <1>1, <1>2, <1>3, <2>1, <2>3, ReplaceFound
<1>4. ASSUME NEW k \in Name, NEW case \in BOOLEAN, NEW copy \in {k, NoName},
             Becomes(ReplaceItemInObject(Mem, p, k, copy, r, case)),
             Tree!Replace(p, Tree!Named(p, k, case), r, copy)
      PROVE  ItemsRight'
  <2> DEFINE i     == Tree!Named(p, k, case)
             named == SetName(Mem, r, copy, FALSE)
             N     == [name EXCEPT ![r] = copy]
  <2>1. Right(named, members, N) /\ SamePlaces(heap, named.heap)
    <3>1. r \in DOMAIN members /\ copy \in Name \union {NoName} /\ FALSE \in BOOLEAN
      BY <1>2
    <3> QED  BY <1>2, <3>1, SetNameRight
  <2>2. ~named.heap[p].ref /\ p \in DOMAIN named.heap /\ Good(named.heap, members)
    <3> HIDE DEF named
    <3> QED  BY <1>1, <2>1 DEF SamePlaces, Items, Right
  <2>3. Found(p, i)
    BY FoundIs
  <2>4. GetObjectItem(named.heap, p, k, case) = i
    <3>1. List(named.heap, p) = members[p]
      <4> HIDE DEF named
      <4> QED  BY <2>2, ListIs
    <3>2. ASSUME NEW n \in DOMAIN members[p]
          PROVE  named.heap[members[p][n]].string = name[members[p][n]]
      <4> DEFINE x == members[p][n]
      <4>1. x \in Items
        BY <1>1, <1>2, ListOf
      <4>2. x # r
        BY <1>1, <1>2 DEF CanJoin, IsRoot
      <4>3. named.heap[x].string = N[x]
        <5> HIDE DEF named, N, x
        <5> QED  BY <1>2, <2>1, <4>1 DEF Right, NamesRight, SamePlaces, Items
      <4>4. N[x] = name[x]
        BY <1>2, <4>1, <4>2
      <4> QED  BY <4>3, <4>4
    <3>3. p \in DOMAIN members /\ members[p] \in Seq(DOMAIN members)
      BY <1>1, <1>2, ListOf
    <3> HIDE DEF named, i
    <3> QED  BY <3>1, <3>2, <3>3, GetObjectItemIs DEF i
  <2>5. Becomes(ReplaceItemViaPointer(named, p, i, r))
    <3>1. ReplaceItemInObject(Mem, p, k, copy, r, case)
             = ReplaceItemViaPointer(named, p, GetObjectItem(named.heap, p, k, case), r)
      BY DEF ReplaceItemInObject
    <3> HIDE DEF named, i
    <3> QED  BY <1>4, <2>4, <3>1
  <2>6. IF i = NULL THEN members' = members /\ name' = N
        ELSE /\ members' = Tree!Keep([members EXCEPT ![p] = Tree!ReplaceAll(@, i, r)], Tree!Tree(i))
             /\ name' = Tree!Keep(N, Tree!Tree(i))
    BY <1>4 DEF Tree!Replace
  <2> HIDE DEF i, named, N
  <2> QED  BY <1>1, <2>1, <2>2, <2>3, <2>5, <2>6, ReplaceFound
<1> QED  BY <1>3, <1>4 DEF Replace

(* cJSON_Duplicate, of an item or of all that is below it too.             *)
LEMMA DuplicateTreeKeeps ==
    ASSUME ItemsRight, NEW i \in Items, DuplicateTree(i)
    PROVE  ItemsRight'
<1>1. PICK of \in {{i}, Tree!Tree(i)} : \E copy \in [of -> Item \ Items] :
        /\ IsInjective(copy)
        /\ \A j \in of : ~heap[j].ref
        /\ Becomes(Duplicate(Mem, i, copy))
        /\ Tree!Duplicate(of, copy)
  BY DEF DuplicateTree
<1>2. PICK copy \in [of -> Item \ Items] :
        /\ IsInjective(copy)
        /\ \A j \in of : ~heap[j].ref
        /\ Becomes(Duplicate(Mem, i, copy))
        /\ Tree!Duplicate(of, copy)
  BY <1>1
<1>3. /\ Right(Mem, members, name) /\ Mem.heap = heap /\ DOMAIN members = Items /\ Trees(members)
      /\ IsFiniteSet(DOMAIN members) /\ name = [j \in Items |-> heap[j].string] /\ DOMAIN name = Items
  BY Now
<1>4. \A j, k \in of : copy[j] = copy[k] => j = k
  BY <1>2 DEF IsInjective
<1>5. Copying(heap, members, i, of, copy) /\ of \subseteq Items
  <2>1. IsTree(members, i, Tree!Tree(i))
    BY <1>3, TreeIs
  <2>2. of \subseteq Items
    BY <1>3, <2>1 DEF IsTree
  <2> QED  BY <1>2, <1>4, <2>1, <2>2 DEF Copying, Items
<1> DEFINE new         == {copy[j] : j \in of}
           original(j) == CHOOSE k \in of : copy[k] = j
           g           == Duplicate(Mem, i, copy).heap
           M2          == members'
           N2          == name'
<1>6. \A j \in of : original(copy[j]) = j /\ copy[j] \notin Items /\ copy[j] \in new
  BY <1>4
<1>7. g = [q \in Items \union new |->
              IF q \in new THEN CopyOf(heap, i, copy, original(q)) ELSE heap[q]]
  <2>1. DOMAIN copy = of
    OBVIOUS
  <2> QED  BY <1>3, <2>1 DEF Duplicate, Items
<1>8. /\ M2 = [j \in Items \union new |->
                  IF j \in Items THEN members[j]
                  ELSE IF ToSet(members[original(j)]) \subseteq of
                       THEN [n \in DOMAIN members[original(j)] |-> copy[members[original(j)][n]]]
                       ELSE << >>]
      /\ N2 = [j \in Items \union new |-> IF j \in Items THEN name[j] ELSE name[original(j)]]
  BY <1>2, <1>3, SameLibrary DEF Tree!Duplicate, Tree!Items
<1> HIDE DEF g, M2, N2, original
<1>9. /\ \A q \in Items : g[q] = heap[q] /\ M2[q] = members[q]
      /\ \A j \in of : /\ g[copy[j]] = CopyOf(heap, i, copy, j)
                       /\ M2[copy[j]] = IF ToSet(members[j]) \subseteq of
                                        THEN [n \in DOMAIN members[j] |-> copy[members[j][n]]] ELSE << >>
  <2>1. \A q \in Items : q \notin new
    OBVIOUS
  <2>2. \A q \in Items : g[q] = heap[q] /\ M2[q] = members[q]
    BY <1>7, <1>8, <2>1
  <2>3. \A j \in of : g[copy[j]] = CopyOf(heap, i, copy, original(copy[j]))
    BY <1>6, <1>7
  <2>4. ASSUME NEW j \in of
        PROVE  M2[copy[j]] = IF ToSet(members[j]) \subseteq of
                             THEN [n \in DOMAIN members[j] |-> copy[members[j][n]]] ELSE << >>
    <3>1. copy[j] \in Items \union new /\ copy[j] \notin Items /\ original(copy[j]) = j
      BY <1>6
    <3> HIDE DEF new
    <3> QED  BY <1>8, <3>1
  <2> QED  BY <1>6, <2>2, <2>3, <2>4
<1>10. N2 = [q \in DOMAIN g |-> IF q \in Items THEN name[q] ELSE g[q].string]
  <2>1. DOMAIN g = Items \union new
    BY <1>7
  <2>2. ASSUME NEW j \in of  PROVE g[copy[j]].string = name[j]
    <3>1. CopyOf(heap, i, copy, j).string = heap[j].string
      <4>1. heap[j] \in ItemRecord
        BY <1>5, Now
      <4> QED  BY <4>1 DEF CopyOf, ItemRecord
    <3> QED  BY <1>3, <1>5, <1>9, <3>1
  <2>3. ASSUME NEW q \in Items \union new
        PROVE  N2[q] = IF q \in Items THEN name[q] ELSE g[q].string
    <3>1. CASE q \in Items
      BY <1>8, <3>1
    <3>2. ASSUME NEW j \in of, q = copy[j]
          PROVE  N2[q] = IF q \in Items THEN name[q] ELSE g[q].string
      BY <1>6, <1>8, <2>2, <3>2
    <3> QED  BY <3>1, <3>2
  <2>4. N2 = [q \in Items \union new |-> N2[q]]
    BY <1>8
  <2> HIDE DEF new
  <2> QED  BY <2>1, <2>3, <2>4
<1>11. Copied(heap, members, name, i, of, copy, g, M2, N2)
  <2>1. DOMAIN g = Items \union new /\ DOMAIN M2 = Items \union new
        /\ M2 = [q \in DOMAIN M2 |-> M2[q]] /\ g = [q \in DOMAIN g |-> g[q]]
    BY <1>7, <1>8
  <2> QED  BY <1>9, <1>10, <2>1 DEF Copied, Items
<1>12. Right(Duplicate(Mem, i, copy), M2, N2)
  BY <1>3, <1>5, <1>11, DuplicateRight DEF g
<1> QED  BY <1>2, <1>12, Then DEF M2, N2
-----------------------------------------------------------------------------
(* The theorems.                                                           *)

(* There are no items at first.                                            *)
LEMMA ItemsRightInitially ==
    Init => ItemsRight
<1> SUFFICES ASSUME Init  PROVE ItemsRight
  OBVIOUS
<1>1. heap = << >> /\ members = << >> /\ name = << >> /\ copies = 0
  BY DEF Init, Tree!Init
<1>2. DOMAIN << >> = {} /\ IsFiniteSet({}) /\ Cardinality({}) = 0
  BY FS_EmptySet
<1>3. << >> = [q \in {} |-> << >>[q]] /\ << >> = [q \in {} |-> << >>[q].string]
  OBVIOUS
<1>4. IsHeap(heap)
  BY <1>1, <1>2, <1>3 DEF IsHeap
<1>5. Trees(members)
  <2>1. Ranked(members, [q \in {} |-> 0])
    BY <1>1, <1>2 DEF Ranked
  <2> QED  BY <1>1, <1>2, <1>3, <2>1 DEF Trees, Forest
<1>6. Linked(heap, members)
  BY <1>1, <1>2 DEF Linked
<1>7. NamesRight(heap, copies, name)
  <2>1. Owners(heap) = {}
    BY <1>1, <1>2 DEF Owners
  <2> QED  BY <1>1, <1>2, <1>3, <2>1 DEF NamesRight
<1> QED  BY <1>1, <1>4, <1>5, <1>6, <1>7 DEF ItemsRight, Good

(* Every call keeps the invariant.                                         *)
LEMMA ItemsRightKept ==
    ItemsRight /\ [Next]_vars => ItemsRight'
<1> SUFFICES ASSUME ItemsRight, [Next]_vars  PROVE ItemsRight'
  OBVIOUS
<1>1. CASE Create
  BY <1>1, NewItemKeeps
<1>2. CASE CreateArray
  BY <1>2, CreateArrayKeeps
<1>3. ASSUME NEW i \in Known, DuplicateTree(i)  PROVE ItemsRight'
  BY <1>3, DuplicateTreeKeeps DEF Known
<1>4. CASE DeleteTree
  BY <1>4, DeleteTreeKeeps
<1>5. ASSUME NEW p \in Container, NEW i \in Known,
             Add(p, i) \/ Insert(p, i) \/ AddReference(p, i) \/ Replace(p, i)
      PROVE  ItemsRight'
  BY <1>5, AddKeeps, InsertKeeps, AddReferenceKeeps, ReplaceKeeps DEF Known
<1>6. ASSUME NEW p \in Container, AddNew(p) \/ Detach(p) \/ DeleteMember(p)
      PROVE  ItemsRight'
  BY <1>6, AddNewKeeps, DetachKeeps, DeleteMemberKeeps
<1>7. CASE UNCHANGED vars
  BY <1>7 DEF vars, ItemsRight
<1> QED  BY <1>1, <1>2, <1>3, <1>4, <1>5, <1>6, <1>7 DEF Next

(* After every sequence of calls, the heap is that of the trees that the   *)
(* calls promised: their lists, their names and their copies of names.     *)
THEOREM ItemsAlwaysRight == Spec => []ItemsRight
BY ItemsRightInitially, ItemsRightKept, PTL DEF Spec

(* What is allocated are items, and the number of copies is one.           *)
THEOREM TypeCorrect == Spec => []TypeOK
<1>1. ItemsRight => TypeOK
  <2> SUFFICES ASSUME ItemsRight  PROVE TypeOK
    OBVIOUS
  <2>1. IsHeap(heap) /\ copies = Cardinality(Owners(heap)) /\ IsFiniteSet(Items) /\ Items \subseteq Item
    BY Now DEF ItemsRight, NamesRight
  <2>2. copies \in Nat
    <3>1. IsFiniteSet(Owners(heap))
      BY <2>1, FS_Subset DEF Owners, Items
    <3> QED  BY <2>1, <3>1, FS_CardinalityType
  <2> QED  BY <2>1, <2>2 DEF TypeOK, IsHeap, ItemRecord, Items
<1> QED  BY <1>1, ItemsAlwaysRight, PTL

(* No call leaves a pointer to a freed item, but in a reference, or a list *)
(* that reads differently backward; what is in no list points to nothing.  *)
THEOREM AlwaysWellLinked == Spec => []WellLinked
<1>1. ItemsRight => WellLinked
  <2> SUFFICES ASSUME ItemsRight, NEW i \in Items
               PROVE  LET item == heap[i]
                      IN  /\ item.next # NULL => item.next \in Items /\ heap[item.next].prev = i
                          /\ item.prev # NULL => item.prev \in Items /\ heap[item.prev].next = i
                          /\ item.child # NULL /\ ~item.ref =>
                                item.child \in Items /\ heap[item.child].prev = NULL
                          /\ i \in Tree!Roots => item.next = NULL /\ item.prev = NULL
    BY DEF WellLinked
  <2>1. Good(heap, members) /\ (i \in Tree!Roots => IsRoot(members, i))
    BY Now, RootsAre
  <2> QED  BY <2>1, PointersRight DEF Items
<1> QED  BY <1>1, ItemsAlwaysRight, PTL

(* Each copy of a name is that of one item: none is lost or freed twice.   *)
THEOREM NamesAlwaysOwned == Spec => []NamesOwned
<1>1. ItemsRight => NamesOwned
  BY DEF ItemsRight, NamesRight, NamesOwned, Owners, Items
<1> QED  BY <1>1, ItemsAlwaysRight, PTL

(* Walking the lists finds the trees that the calls promised.              *)
THEOREM AlwaysRepresents == Spec => []Represents
<1>1. ItemsRight => Represents
  <2> SUFFICES ASSUME ItemsRight  PROVE Represents
    OBVIOUS
  <2>1. /\ Good(heap, members) /\ DOMAIN members = Items /\ Trees(members)
        /\ name = [i \in Items |-> heap[i].string]
    BY Now
  <2>2. ASSUME NEW i \in Items
        PROVE  members[i] = IF heap[i].ref THEN << >> ELSE List(heap, i)
    BY <2>1, ListIs DEF Items, Good, Linked
  <2>3. members = [i \in Items |-> members[i]]
    BY <2>1 DEF Trees
  <2> QED  BY <2>1, <2>2, <2>3 DEF Represents
<1> QED  BY <1>1, ItemsAlwaysRight, PTL
=============================================================================
