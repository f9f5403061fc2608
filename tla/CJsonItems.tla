----------------------------- MODULE CJsonItems -----------------------------
(***************************************************************************)
(* cJSON.c: the operations that build and change trees of items.  An item  *)
(* is a node of a doubly linked list and points to the first of its        *)
(* members; the list's first item has no previous one.  A reference shares *)
(* the members of another item.  An item's name is a copy that it owns, or *)
(* a constant of the program.                                              *)
(*                                                                         *)
(* The program calls these functions as they are meant to be called: what  *)
(* it adds is in no list, an item is not added below itself, a member is   *)
(* detached from the item it is in, and the members of a reference are     *)
(* left alone.  Memory may run out.  A call that then changes nothing is   *)
(* no action.                                                              *)
(***************************************************************************)
EXTENDS CJsonHeap

CONSTANTS
    Item,    \* addresses of items
    Name,    \* the names of members
    MaxRefs, \* bound: the number of references
    MaxArray \* bound: the members of an array that is created in one call

ASSUME NamesOK == NULL \notin Item /\ NoName \notin Name /\ Lower \in [Name -> Name]
ASSUME BoundsOK == MaxRefs \in Nat /\ MaxArray \in Nat

VARIABLES heap,     \* the items that are allocated
          copies,   \* the number of copies of names that are allocated
          lost,     \* history: the references whose address no one has
          members,  \* history: the trees that they should be,
          name      \* and the names in them
vars == <<heap, copies, lost, members, name>>

Tree == INSTANCE ItemTree WITH NoItem <- NULL

Mem   == [heap |-> heap, copies |-> copies]
Items == DOMAIN heap

-----------------------------------------------------------------------------
(* Items and lists.                                                        *)

(* cJSON_New_Item.                                                         *)
NewItem == [next |-> NULL, prev |-> NULL, child |-> NULL,
            string |-> NoName, const |-> FALSE, ref |-> FALSE]

Allocate(m, i, item) == [m EXCEPT !.heap = WithItem(@, i, item)]

(* Mutant of OwnsName: a constant is freed like a copy.                    *)
OwnsNameConst(item) == item.string # NoName

OwnsName(item) == item.string # NoName /\ ~item.const

Delete(m, item) ==
    LET freed == Freed(m.heap, item)
    IN  [heap   |-> [i \in DOMAIN m.heap \ freed |-> m.heap[i]],
         copies |-> m.copies - Cardinality({i \in freed : OwnsName(m.heap[i])})]

-----------------------------------------------------------------------------
(* Adding.                                                                 *)

SuffixObject(h, prev, item) == [h EXCEPT ![prev].next = item, ![item].prev = prev]

AddItemToArray(m, array, item) ==
    [m EXCEPT !.heap =
        IF @[array].child = NULL THEN [@ EXCEPT ![array].child = item]
        ELSE SuffixObject(@, Last(List(@, array)), item)]

(* Mutant of SetName: the old copy is not freed.                           *)
SetNameKept(m, item, string, const) ==
    [heap   |-> [m.heap EXCEPT ![item].string = string, ![item].const = const],
     copies |-> m.copies + (IF const \/ string = NoName THEN 0 ELSE 1)]

(* A new name, NoName if it could not be copied, and the old one freed.    *)
SetName(m, item, string, const) ==
    [heap   |-> [m.heap EXCEPT ![item].string = string, ![item].const = const],
     copies |-> m.copies + (IF const \/ string = NoName THEN 0 ELSE 1)
                         - (IF OwnsName(m.heap[item]) THEN 1 ELSE 0)]

AddItemToObject(m, object, string, item, const) ==
    AddItemToArray(SetName(m, item, string, const), object, item)

(* create_reference: all of the item, but its name and its place.          *)
CreateReference(m, i, item) ==
    Allocate(m, i, [m.heap[item] EXCEPT !.string = NoName, !.ref = TRUE,
                                        !.next = NULL, !.prev = NULL])

-----------------------------------------------------------------------------
(* Whole documents.                                                        *)

(* The copy of j, in a copy of item: all of it but the links.  copy maps   *)
(* what is copied to the addresses of the copies.                          *)
CopyOf(h, item, copy, j) ==
    LET At(i) == IF i \in DOMAIN copy THEN copy[i] ELSE NULL
    IN  [h[j] EXCEPT !.next  = IF j = item THEN NULL ELSE At(@),
                     !.prev  = IF j = item THEN NULL ELSE At(@),
                     !.child = At(@)]

(* cJSON_Duplicate: a constant name is shared, any other name is copied.   *)
Duplicate(m, item, copy) ==
    LET new == {copy[j] : j \in DOMAIN copy}
    IN  [heap   |-> [i \in DOMAIN m.heap \union new |->
                        IF i \in new
                        THEN CopyOf(m.heap, item, copy, CHOOSE j \in DOMAIN copy : copy[j] = i)
                        ELSE m.heap[i]],
         copies |-> m.copies + Cardinality({j \in DOMAIN copy : OwnsName(m.heap[j])})]

(* cJSON_CreateIntArray and the like: the first member is the child, each  *)
(* other one is added after the last.                                      *)
CreateArrayOf(m, a, list) ==
    LET Alloc(mem, i)  == Allocate(mem, i, NewItem)
        Link(mem, n)   == IF n = 1 THEN [mem EXCEPT !.heap[a].child = list[1]]
                          ELSE [mem EXCEPT !.heap = SuffixObject(@, list[n - 1], list[n])]
    IN  FoldLeft(LAMBDA mem, n : Link(Alloc(mem, list[n]), n), Alloc(m, a),
                 [n \in DOMAIN list |-> n])

-----------------------------------------------------------------------------
(* Taking out and replacing.                                               *)

(* Field f of an item, if there is one.                                    *)
Set(h, item, f, v) == IF item = NULL THEN h ELSE [h EXCEPT ![item][f] = v]

(* Mutant of DetachItemViaPointer: the item still points to its successor. *)
DetachItemLinked(m, parent, item) ==
    LET i == m.heap[item]
        h == Set(Set(m.heap, i.prev, "next", i.next), i.next, "prev", i.prev)
    IN  IF item = NULL THEN m
        ELSE [m EXCEPT !.heap =
                [h EXCEPT ![parent].child = IF @ = item THEN i.next ELSE @,
                          ![item].prev = NULL]]

DetachItemViaPointer(m, parent, item) ==
    LET i == m.heap[item]
        h == Set(Set(m.heap, i.prev, "next", i.next), i.next, "prev", i.prev)
    IN  IF item = NULL THEN m
        ELSE [m EXCEPT !.heap =
                [h EXCEPT ![parent].child = IF @ = item THEN i.next ELSE @,
                          ![item].prev = NULL, ![item].next = NULL]]

(* Mutant of InsertItemInArray: its successor does not point back to it.   *)
InsertItemForward(m, array, which, newitem) ==
    LET after == GetArrayItem(m.heap, array, which)
        prev  == m.heap[after].prev
        h     == [m.heap EXCEPT ![newitem].next = after, ![newitem].prev = prev]
    IN  IF after = NULL THEN AddItemToArray(m, array, newitem)
        ELSE [m EXCEPT !.heap =
                IF after = h[array].child THEN [h EXCEPT ![array].child = newitem]
                ELSE [h EXCEPT ![prev].next = newitem]]

InsertItemInArray(m, array, which, newitem) ==
    LET after == GetArrayItem(m.heap, array, which)
        prev  == m.heap[after].prev
        h     == [m.heap EXCEPT ![newitem].next = after, ![newitem].prev = prev,
                                ![after].prev = newitem]
    IN  IF after = NULL THEN AddItemToArray(m, array, newitem)
        ELSE [m EXCEPT !.heap =
                IF after = h[array].child THEN [h EXCEPT ![array].child = newitem]
                ELSE [h EXCEPT ![prev].next = newitem]]

ReplaceItemViaPointer(m, parent, item, replacement) ==
    LET i == m.heap[item]
        h == [m.heap EXCEPT ![replacement].next = i.next, ![replacement].prev = i.prev]
        l == Set(Set(h, i.next, "prev", replacement), i.prev, "next", replacement)
    IN  IF item = NULL \/ replacement = item THEN m
        ELSE Delete([m EXCEPT !.heap =
                        [l EXCEPT ![parent].child = IF @ = item THEN replacement ELSE @,
                                  ![item].next = NULL, ![item].prev = NULL]],
                    item)

(* The replacement gets the name even when there is no item to replace.    *)
(* The name that found the item is the argument, not the copy.             *)
ReplaceItemInObject(m, object, string, copy, replacement, case) ==
    LET named == SetName(m, replacement, copy, FALSE)
    IN  ReplaceItemViaPointer(named, object, GetObjectItem(named.heap, object, string, case),
                              replacement)
-----------------------------------------------------------------------------
(* The program.  Each call goes with what it promises.                     *)

Container == {i \in Items : ~heap[i].ref}

(* The items that the program can pass to a call.                          *)
Known == Items \ lost

Becomes(m)  == heap' = m.heap /\ copies' = m.copies /\ UNCHANGED lost
Loses(m, i) == heap' = m.heap /\ copies' = m.copies /\ lost' = lost \union {i}

Init == heap = << >> /\ copies = 0 /\ lost = {} /\ Tree!Init

Create == \E i \in Item \ Items : Becomes(Allocate(Mem, i, NewItem)) /\ Tree!Create(i)

CreateArray ==
    \E a \in Item \ Items, n \in 1 .. MaxArray :
        \E list \in [1 .. n -> Item \ (Items \union {a})] :
            /\ IsInjective(list)
            /\ Becomes(CreateArrayOf(Mem, a, list))
            /\ Tree!CreateWith(a, list)

(* A document without references, or its first item alone, is copied.      *)
DuplicateTree(i) ==
    \E of \in {{i}, Tree!Tree(i)} : \E copy \in [of -> Item \ Items] :
        /\ IsInjective(copy)
        /\ \A j \in of : ~heap[j].ref
        /\ Becomes(Duplicate(Mem, i, copy))
        /\ Tree!Duplicate(of, copy)

Add(p, i) ==
    LET last == Len(members[p])
    IN  /\ Tree!MayJoin(i, p)
        /\ \/ Becomes(AddItemToArray(Mem, p, i)) /\ Tree!Attach(p, last, i, name[i])
           \/ \E k \in Name, const \in BOOLEAN :
                 /\ Becomes(AddItemToObject(Mem, p, k, i, const))
                 /\ Tree!Attach(p, last, i, k)

Insert(p, i) ==
    /\ Tree!MayJoin(i, p)
    /\ \E n \in 0 .. Len(members[p]) : /\ Becomes(InsertItemInArray(Mem, p, n, i))
                                      /\ Tree!Attach(p, n, i, name[i])

(* A reference to item is lost when its name cannot be copied: the caller  *)
(* has no address to free.                                                 *)
AddReference(p, item) ==
    \E i \in Item \ Items :
        LET m == CreateReference(Mem, i, item)
        IN  /\ Cardinality(Items \ Container) < MaxRefs
            /\ \/ Becomes(AddItemToArray(m, p, i)) /\ Tree!AttachNew(p, i, NoName)
               \/ \E k \in Name : /\ Becomes(AddItemToObject(m, p, k, i, FALSE))
                                 /\ Tree!AttachNew(p, i, k)
               \/ Loses(m, i) /\ Tree!Create(i)

(* cJSON_AddNullToObject and the like; nothing changes if it fails.        *)
AddNew(p) ==
    \E i \in Item \ Items, k \in Name :
        LET m == Allocate(Mem, i, NewItem)
        IN  \/ Becomes(AddItemToObject(m, p, k, i, FALSE)) /\ Tree!AttachNew(p, i, k)
            \/ Becomes(Delete(m, i)) /\ Tree!Nothing

Detach(p) ==
    \/ \E n \in 0 .. Len(members[p]) - 1 :
          /\ Becomes(DetachItemViaPointer(Mem, p, GetArrayItem(heap, p, n)))
          /\ Tree!Detach(p, Tree!At(p, n))
    \/ \E k \in Name, case \in BOOLEAN :
          /\ Becomes(DetachItemViaPointer(Mem, p, GetObjectItem(heap, p, k, case)))
          /\ Tree!Detach(p, Tree!Named(p, k, case))

DeleteMember(p) ==
    \/ \E n \in 0 .. Len(members[p]) - 1 :
          LET i == GetArrayItem(heap, p, n)
          IN  /\ Becomes(Delete(DetachItemViaPointer(Mem, p, i), i))
              /\ Tree!Delete(Tree!At(p, n))
    \/ \E k \in Name, case \in BOOLEAN :
          LET i == GetObjectItem(heap, p, k, case)
          IN  /\ Becomes(Delete(DetachItemViaPointer(Mem, p, i), i))
              /\ Tree!Delete(Tree!Named(p, k, case))

Replace(p, r) ==
    /\ Tree!MayJoin(r, p)
    /\ \/ \E n \in 0 .. Len(members[p]) :
             /\ Becomes(ReplaceItemViaPointer(Mem, p, GetArrayItem(heap, p, n), r))
             /\ Tree!Replace(p, Tree!At(p, n), r, name[r])
       \/ \E k \in Name, case \in BOOLEAN : \E copy \in {k, NoName} :
             /\ Becomes(ReplaceItemInObject(Mem, p, k, copy, r, case))
             /\ Tree!Replace(p, Tree!Named(p, k, case), r, copy)

DeleteTree == \E i \in Tree!Roots \intersect Known : Becomes(Delete(Mem, i)) /\ Tree!Delete(i)

Next ==
    \/ Create
    \/ CreateArray
    \/ \E i \in Known : DuplicateTree(i)
    \/ DeleteTree
    \/ \E p \in Container :
          \/ \E i \in Known : Add(p, i) \/ Insert(p, i) \/ AddReference(p, i) \/ Replace(p, i)
          \/ AddNew(p)
          \/ Detach(p)
          \/ DeleteMember(p)

Spec == Init /\ [][Next]_vars
-----------------------------------------------------------------------------
(* Properties.                                                             *)

Pointer == Item \union {NULL}

TypeOK ==
    /\ Items \subseteq Item
    /\ heap \in [Items -> [next : Pointer, prev : Pointer, child : Pointer,
                           string : Name \union {NoName}, const : BOOLEAN, ref : BOOLEAN]]
    /\ copies \in Nat

(* No sequence of calls leaves a pointer to a freed item, but in a         *)
(* reference, or a list that reads differently backward than forward; and  *)
(* an item in no list points to none.                                      *)
WellLinked ==
    \A i \in Items :
        LET item == heap[i]
        IN  /\ item.next # NULL => item.next \in Items /\ heap[item.next].prev = i
            /\ item.prev # NULL => item.prev \in Items /\ heap[item.prev].next = i
            /\ item.child # NULL /\ ~item.ref =>
                  item.child \in Items /\ heap[item.child].prev = NULL
            /\ i \in Tree!Roots => item.next = NULL /\ item.prev = NULL

(* Each copy of a name that is allocated is that of one item: however      *)
(* items were renamed, added again, replaced and deleted, no copy is lost  *)
(* and none is freed twice.                                                *)
NamesOwned == copies = Cardinality({i \in Items : OwnsName(heap[i])})

(* The lists are the trees that the calls promised: no call deletes or     *)
(* loses more than it should, nor finds another member, with references to *)
(* items and members without names among them.                             *)
Represents ==
    /\ DOMAIN members = Items
    /\ members = [i \in Items |-> IF heap[i].ref THEN << >> ELSE List(heap, i)]
    /\ name = [i \in Items |-> heap[i].string]
=============================================================================
