-------------------------------- MODULE Lists --------------------------------
(***************************************************************************)
(* Loops that the modules share: choosing from a list, with the test as    *)
(* the set of those that pass; collecting what each member of a list       *)
(* yields; and following pointers, with the pointers as the sets of those  *)
(* that they lead to.                                                      *)
(***************************************************************************)
EXTENDS Integers, Sequences, SequencesExt, FiniteSets

(* Those in S, in their order.                                             *)
KeepOnly(list, S) ==
    FoldLeft(LAMBDA kept, x : IF x \in S THEN Append(kept, x) ELSE kept, << >>, list)

(* yields[x] for each x, one after the other.                              *)
Collect(list, yields) == FoldLeft(LAMBDA all, x : all \o yields[x], << >>, list)

(* What can be reached from those in S, when from i to[i] are next.        *)
Reachable(S, to) ==
    LET seen[n \in 0 .. Cardinality(DOMAIN to)] ==
            IF n = 0 THEN S ELSE seen[n - 1] \union UNION {to[i] : i \in seen[n - 1]}
    IN  seen[Cardinality(DOMAIN to)]
=============================================================================
