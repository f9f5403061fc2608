--------------------------- MODULE MCJsonDocument ---------------------------
(* A small instance of JsonDocument for TLC.                               *)
EXTENDS JsonDocument

a == Plain(97)
A == Plain(65)

(* The strings that may stand anywhere in a text; one of them is taken for *)
(* a position in a path.                                                   *)
Anywhere == {<<a>>, <<A>>, <<Plain(48)>>, <<Esc(120)>>}

(* Four digits: controls, characters of one, two and three bytes, leading  *)
(* and trailing surrogates at the ends of their ranges, no digits.         *)
Codes == {<<0, 0, 0, 1>>, <<0, 0, 0, 0>>, <<0, 0, 7, 15>>, <<0, 0, 8, 0>>, <<0, 7, 15, 15>>,
          <<0, 8, 0, 0>>, <<13, 7, 15, 15>>, <<13, 8, 0, 0>>, <<13, 11, 15, 15>>,
          <<13, 12, 0, 0>>, <<13, 15, 15, 15>>, <<14, 0, 0, 0>>, <<0, 0, NoDigit, 0>>}

(* The strings that begin a text.                                          *)
First == {<< >>} \union Anywhere \union {<<Esc(c)>> : c \in DOMAIN Escapes}
            \union {<<Uni(c)>> : c \in Codes} \union {<<Uni(c), Uni(d)>> : c, d \in Codes}
            \union {<<a, Uni(<<0, 0>>)>>, <<Uni(<<13, 8, 0, 0>>), Uni(<<13, 12>>)>>,
                    <<Uni(<<13, 8, 0, 0>>), a>>, <<Plain(1), a, Plain(127)>>}

Cases == [s \in {<<97>>, <<65>>} |-> IF s = <<65>> THEN <<97>> ELSE s]

MCSlack == {-1, 0}

WordText == [null |-> <<110, 117, 108, 108>>]
=============================================================================
