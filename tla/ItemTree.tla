------------------------------ MODULE ItemTree ------------------------------
(***************************************************************************)
(* What cJSON's operations on items promise: items form trees; an item has *)
(* a sequence of members, it is a member of one item at most, and an item  *)
(* that is deleted takes what is below it along, and nothing else.  Each   *)
(* action is the effect of one call.                                       *)
(***************************************************************************)
EXTENDS Lists

CONSTANTS NoItem, NoName,
          Lower       \* Lower[k]: the name k in lower case

VARIABLES members,    \* the members of each item that exists, in their order
          name        \* its name, if it has one

Items == DOMAIN members
Roots == Items \ UNION {ToSet(members[i]) : i \in Items}

(* i and all items below it.                                               *)
Tree(i) == Reachable({i}, [j \in Items |-> ToSet(members[j])])

MayJoin(i, p) == i \in Roots /\ p \notin Tree(i)

(* The member at a place, counted from 0, and the first with a name.  When *)
(* case matters, a member without a name hides those after it.             *)
At(p, n) == IF n < Len(members[p]) THEN members[p][n + 1] ELSE NoItem

Named(p, k, case) ==
    LET list  == members[p]
        Is(i) == name[i] # NoName /\ IF case THEN name[i] = k ELSE Lower[name[i]] = Lower[k]
        found == {n \in DOMAIN list :
                     /\ Is(list[n])
                     /\ \A o \in 1 .. n - 1 : /\ ~Is(list[o])
                                              /\ case => name[list[o]] # NoName}
    IN  IF found = {} THEN NoItem ELSE list[CHOOSE n \in found : TRUE]

With(f, i, v) == [j \in DOMAIN f \union {i} |-> IF j = i THEN v ELSE f[j]]
Keep(f, S)    == [j \in DOMAIN f \ S |-> f[j]]

Init == members = << >> /\ name = << >>

Create(i) ==
    /\ members' = With(members, i, << >>)
    /\ name' = With(name, i, NoName)

(* A new item with new members.                                            *)
CreateWith(i, list) ==
    /\ members' = [j \in Items \union {i} \union ToSet(list) |->
                      IF j \in Items THEN members[j] ELSE IF j = i THEN list ELSE << >>]
    /\ name' = [j \in DOMAIN members' |-> IF j \in Items THEN name[j] ELSE NoName]

(* The items of `of', each with its copy[j], whose members are the copies  *)
(* of j's, if these are copied too.  The copy of the first item is in no   *)
(* list.                                                                   *)
Duplicate(of, copy) ==
    LET original(j) == CHOOSE k \in of : copy[k] = j
        new == {copy[j] : j \in of}
    IN  /\ members' = [j \in Items \union new |->
                          IF j \in Items THEN members[j]
                          ELSE LET list == members[original(j)]
                               IN  IF ToSet(list) \subseteq of
                                   THEN [n \in DOMAIN list |-> copy[list[n]]] ELSE << >>]
        /\ name' = [j \in Items \union new |->
                        IF j \in Items THEN name[j] ELSE name[original(j)]]

(* A root becomes a member of p, before the one at place n or as the last. *)
Attach(p, n, i, k) ==
    /\ members' = [members EXCEPT ![p] =
                      InsertAt(@, IF n < Len(@) THEN n + 1 ELSE Len(@) + 1, i)]
    /\ name' = [name EXCEPT ![i] = k]

(* A new item becomes the last member of p.                                *)
AttachNew(p, i, k) ==
    /\ members' = With([members EXCEPT ![p] = Append(@, i)], i, << >>)
    /\ name' = With(name, i, k)

Detach(p, i) ==
    /\ members' = [members EXCEPT ![p] = RemoveFirst(@, i)]
    /\ UNCHANGED name

(* A root with a new name takes the place of i, which is deleted; if there *)
(* is no such i, it has the new name all the same.                         *)
Replace(p, i, r, k) ==
    IF i = NoItem THEN name' = [name EXCEPT ![r] = k] /\ UNCHANGED members
    ELSE /\ members' = Keep([members EXCEPT ![p] = ReplaceAll(@, i, r)], Tree(i))
         /\ name' = Keep([name EXCEPT ![r] = k], Tree(i))

Nothing == UNCHANGED <<members, name>>

Delete(i) ==
    IF i = NoItem THEN Nothing
    ELSE /\ members' = Keep([p \in Items |-> RemoveFirst(members[p], i)], Tree(i))
         /\ name' = Keep(name, Tree(i))
=============================================================================
