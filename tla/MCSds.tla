------------------------------- MODULE MCSds -------------------------------
(* A small instance of Sds for TLC: headers for lengths up to 2, 4, 7, ... *)
EXTENDS Sds

CONSTANTS a, b

Lengths == [t \in Types |-> CASE t = 0 -> 2 [] t = 1 -> 4 [] t = 2 -> 7
                              [] t = 3 -> 15 [] OTHER -> 31]
Strings == {<< >>, <<a>>, <<NUL>>, <<a, b, a>>, <<b, a, b, a>>}
               \union {<<c, d>> : c, d \in {a, NUL}}
SomePositions == {-6, -2, -1, 0, 2, 5}
Separators == {<< >>, <<a>>, <<b>>, <<a, b>>}
=============================================================================
