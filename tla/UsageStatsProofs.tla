-------------------------- MODULE UsageStatsProofs --------------------------
(***************************************************************************)
(* What holds of the options, the counters and ocgeo_stats for any users,  *)
(* any texts of options, and any number of commands and requests.          *)
(*                                                                         *)
(* The catalogs are right by themselves (CatalogsRight), the requests      *)
(* (SentRight: strtol is followed digit by digit) and the counters         *)
(* given them (CountersRight), and a call of ocgeo_stats given the         *)
(* counters (StatsRight): what it has shown is at most what they are now.  *)
(***************************************************************************)
EXTENDS UsageStats, ListTheorems, TLAPS

ServerRight(s) == s # NULL => DOMAIN s = {"uri"} /\ s["uri"] = Address

MappingRight(o, f) ==
    f # NULL => /\ DOMAIN f \subseteq {"api_key", "max_reqs_sec", "max_reqs_day"}
                /\ "api_key" \in DOMAIN f
                /\ f["api_key"] = o
                /\ "max_reqs_sec" \in DOMAIN f => f["max_reqs_sec"] \in Text

CatalogsRight ==
    /\ ServerRight(server)
    /\ DOMAIN mapping = Owner
    /\ \A o \in Owner : MappingRight(o, mapping[o])

EntryRight(e) == e \in Countings /\ e.success_calls <= e.calls

CountersRight ==
    /\ DOMAIN ocgeo_hash \subseteq Owner
    /\ \A k \in DOMAIN ocgeo_hash : EntryRight(ocgeo_hash[k])
    /\ asked \in [Owner -> Nat]
    /\ OneEntryPerKey

SentRight == RequestsComplete /\ PlansAsWritten

-----------------------------------------------------------------------------
(* The validator lets in what is required, and nothing of other objects.   *)

(* Options that the validator accepts for a server.                        *)
LEMMA ServerOptions ==
    ASSUME NEW options \in Lists[PUBLIC], Validator("server", options)
    PROVE  ServerRight(options)
<1>1. PICK names \in SUBSET Given : 
         /\ options \in [names -> UNION {Values(n, PUBLIC) : n \in names}]
         /\ \A n \in names : options[n] \in Values(n, PUBLIC)
    BY DEF Lists, Owner
<1>2. DOMAIN valid_options = {"uri", "api_key", "max_reqs_sec", "max_reqs_day"}
    BY DEF valid_options
<1>3. \A n \in DOMAIN options : n = "uri"
    BY <1>2 DEF Validator, Allowed, valid_options
<1>4. "uri" \in DOMAIN options
    BY <1>2 DEF Validator, Allowed, valid_options
<1>5. options["uri"] = Address
    BY <1>1, <1>4 DEF Values
<1>q. QED BY <1>3, <1>4, <1>5 DEF ServerRight

(* Options that the validator accepts for a user mapping.                  *)
LEMMA MappingOptions ==
    ASSUME NEW o \in Owner, NEW options \in Lists[o], Validator("mapping", options)
    PROVE  MappingRight(o, options)
<1>1. PICK names \in SUBSET Given : 
         /\ options \in [names -> UNION {Values(n, o) : n \in names}]
         /\ \A n \in names : options[n] \in Values(n, o)
    BY DEF Lists
<1>2. DOMAIN valid_options = {"uri", "api_key", "max_reqs_sec", "max_reqs_day"}
    BY DEF valid_options
<1>3. \A n \in DOMAIN options : n \in {"api_key", "max_reqs_sec", "max_reqs_day"}
    BY <1>2 DEF Validator, Allowed, valid_options
<1>4. "api_key" \in DOMAIN options
    BY <1>2 DEF Validator, Allowed, valid_options
<1>5. options["api_key"] = o
    BY <1>1, <1>4 DEF Values
<1>6. "max_reqs_sec" \in DOMAIN options => options["max_reqs_sec"] \in Text
    BY <1>1 DEF Values
<1>q. QED BY <1>3, <1>4, <1>5, <1>6 DEF MappingRight

(* Every step keeps the catalogs right.                                    *)
LEMMA CatalogsStep == CatalogsRight /\ [Next]_usage_vars => CatalogsRight'
<1> SUFFICES ASSUME CatalogsRight, [Next]_usage_vars PROVE CatalogsRight'
    OBVIOUS
<1>1. ASSUME NEW options \in Lists[PUBLIC], SetServer(options) PROVE CatalogsRight'
    BY <1>1, ServerOptions DEF SetServer, CatalogsRight
<1>2. ASSUME NEW o \in Owner, NEW options \in Lists[o], SetMapping(o, options)
      PROVE  CatalogsRight'
    BY <1>2, MappingOptions DEF SetMapping, CatalogsRight
<1>3. ASSUME NEW o \in Owner, DropMapping(o) PROVE CatalogsRight'
    BY <1>3 DEF DropMapping, CatalogsRight, MappingRight
<1>4. CASE UNCHANGED catalog_vars
    BY <1>4 DEF catalog_vars, CatalogsRight
<1>q. QED
    BY <1>1, <1>2, <1>3, <1>4 DEF Next, Catalogs, Query, Request, NextRow, ReturnDone,
           Abandon, Reconnect, usage_vars
-----------------------------------------------------------------------------
(* The number of a plan.                                                   *)

(* The bytes of the decimal digits.                                        *)
Decimals == 48 .. 57

(* The lesser of two numbers.                                              *)
LEMMA LesserOf ==
    ASSUME NEW a \in Int, NEW b \in Int
    PROVE  Min({a, b}) = IF a <= b THEN a ELSE b
BY DEF Min

(* The value of a decimal digit.                                           *)
LEMMA DigitDecimal ==
    ASSUME NEW c \in Decimals
    PROVE  Digit(c) = c - 48 /\ c \in Int /\ c - 48 \in 0 .. 9
<1>1. c \in 48 .. 57 /\ c \notin 97 .. 102 /\ c \notin 65 .. 70
  BY DEF Decimals
<1>2. Digit(c) = c - 48
  BY <1>1, Zenon DEF Digit
<1> QED  BY <1>1, <1>2

(* The loop of Decimal: each digit makes ten times the number and itself.  *)
LEMMA DecimalSteps ==
    ASSUME NEW text \in Seq(Decimals)
    PROVE  \E h \in [0 .. Len(text) -> Nat] :
               /\ h[0] = 0 /\ h[Len(text)] = Decimal(text)
               /\ \A i \in 1 .. Len(text) : h[i] = 10 * h[i - 1] + (text[i] - 48)
<1> DEFINE n         == Len(text)
           Op(v, c)  == 10 * v + (c - 48)
           Solves(g) == g = [t \in SUBSET DOMAIN text |->
                                IF t = {} THEN 0
                                ELSE Op(g[t \ {Max(t)}], text[Max(t)])]
           G         == CHOOSE g : Solves(g)
<1>0. n \in Nat /\ DOMAIN text = 1 .. n /\ \A i \in 1 .. n : text[i] \in Decimals
  BY ElementOfSeq
<1>1. Decimal(text) = G[DOMAIN text]
  BY DEF Decimal, FoldLeft, MapThenFoldSet
<1>2. ASSUME NEW v \in Nat, NEW c \in Decimals  PROVE Op(v, c) \in Nat
  BY <1>2 DEF Decimals
<1>e. ASSUME NEW i \in 1 .. n, NEW v  PROVE Op(v, text[i]) = 10 * v + (text[i] - 48)
  OBVIOUS
<1> HIDE DEF n, Op
<1>3. \E g : Solves(g)
  <2> DEFINE Step == [x \in Nat \X (1 .. n) |-> Op(x[1], text[x[2]])]
  <2>1. Step \in [Nat \X (1 .. n) -> Nat]
    BY <1>0, <1>2
  <2> HIDE DEF Step
  <2>2. PICK g \in [SUBSET (1 .. n) -> Nat] : Folds(g, n, 0, Step)
    BY <1>0, <2>1, FoldExists
  <2>3. ASSUME NEW t \in SUBSET (1 .. n), t # {}
        PROVE  Step[<<g[t \ {Max(t)}], Max(t)>>] = Op(g[t \ {Max(t)}], text[Max(t)])
    <3>1. g[t \ {Max(t)}] \in Nat /\ Max(t) \in 1 .. n
      BY <1>0, <2>3, MaxOfInterval
    <3> QED  BY <3>1 DEF Step
  <2>4. \A t \in SUBSET (1 .. n) :
            g[t] = IF t = {} THEN 0 ELSE Op(g[t \ {Max(t)}], text[Max(t)])
    BY <2>2, <2>3 DEF Folds
  <2>5. Solves(g)
    BY Zenon, <1>0, <2>4
  <2> HIDE DEF Solves
  <2> QED  BY <2>5
<1>4. Solves(G)
  BY Zenon, <1>3
<1> HIDE DEF G
<1> DEFINE h == [i \in 0 .. n |-> G[1 .. i]]
<1>5. h[0] = 0 /\ h[n] = Decimal(text)
  BY <1>0, <1>1, <1>4
<1>6. ASSUME NEW i \in 1 .. n  PROVE h[i] = Op(h[i - 1], text[i])
  <2>1. i \in Nat \ {0} /\ 1 .. i \in SUBSET (1 .. n) /\ i - 1 \in 0 .. n
    BY <1>0
  <2>2. 1 .. i # {} /\ Max(1 .. i) = i /\ (1 .. i) \ {Max(1 .. i)} = 1 .. i - 1
    BY <2>1, MaxOfPrefix
  <2>3. G[1 .. i] = Op(G[(1 .. i) \ {Max(1 .. i)}], text[Max(1 .. i)])
    BY <1>0, <1>4, <2>1, <2>2
  <2>4. G[1 .. i] = Op(G[1 .. i - 1], text[i])
    BY <2>2, <2>3
  <2>5. h[i] = G[1 .. i] /\ h[i - 1] = G[1 .. i - 1]
    BY <2>1, <1>0
  <2> HIDE DEF h
  <2> QED  BY Zenon, <2>4, <2>5
<1>7. h \in [0 .. n -> Nat]
  <2> DEFINE P == {i \in 0 .. n : h[i] \in Nat}
  <2>1. 0 \in P
    BY <1>0, <1>5
  <2>2. ASSUME NEW i \in 1 .. n, i - 1 \in P  PROVE i \in P
    <3> HIDE DEF h
    <3>1. h[i - 1] \in Nat /\ text[i] \in Decimals /\ i \in 0 .. n
      BY <1>0, <2>2
    <3>2. Op(h[i - 1], text[i]) \in Nat
      BY <1>2, <3>1
    <3> QED  BY <1>6, <3>1, <3>2
  <2>3. 0 .. n \subseteq P
    <3> HIDE DEF P
    <3> QED  BY <1>0, <2>1, <2>2, Along
  <2> HIDE DEF h
  <2>4. \A i \in 0 .. n : h[i] \in Nat
    BY <2>3
  <2> QED  BY <2>4 DEF h
<1> HIDE DEF h
<1> QED  BY <1>5, <1>6, <1>7, <1>e DEF n

(* The loop of Magnitude for digits: the same, but for what is beyond a    *)
(* long.                                                                   *)
LEMMA MagnitudeSteps ==
    ASSUME NEW text \in Seq(Decimals)
    PROVE  \E h \in [0 .. Len(text) -> Nat] :
               /\ h[0] = 0 /\ h[Len(text)] = Magnitude(text, 10)
               /\ \A i \in 1 .. Len(text) : h[i] = Min({LongMax + 1, h[i - 1] * 10 + Digit(text[i])})
<1> DEFINE n         == Len(text)
           Op(v, c)  == Min({LongMax + 1, v * 10 + Digit(c)})
           Solves(g) == g = [t \in SUBSET DOMAIN text |->
                                IF t = {} THEN 0
                                ELSE Op(g[t \ {Max(t)}], text[Max(t)])]
           G         == CHOOSE g : Solves(g)
<1>0. n \in Nat /\ DOMAIN text = 1 .. n /\ \A i \in 1 .. n : text[i] \in Decimals
  BY ElementOfSeq
<1>1. Magnitude(text, 10) = G[DOMAIN text]
  BY DEF Magnitude, FoldLeft, MapThenFoldSet
<1>2. ASSUME NEW v \in Nat, NEW c \in Decimals  PROVE Op(v, c) \in Nat
  <2>1. Digit(c) = c - 48
    BY <1>2, DigitDecimal
  <2>2. v * 10 + Digit(c) \in Nat /\ LongMax + 1 \in Nat
    BY <1>2, <2>1, WidthAssumption DEF Decimals
  <2> QED  BY <2>2, LesserOf
<1>e. ASSUME NEW i \in 1 .. n, NEW v  PROVE Op(v, text[i]) = Min({LongMax + 1, v * 10 + Digit(text[i])})
  OBVIOUS
<1> HIDE DEF n, Op
<1>3. \E g : Solves(g)
  <2> DEFINE Step == [x \in Nat \X (1 .. n) |-> Op(x[1], text[x[2]])]
  <2>1. Step \in [Nat \X (1 .. n) -> Nat]
    BY <1>0, <1>2
  <2> HIDE DEF Step
  <2>2. PICK g \in [SUBSET (1 .. n) -> Nat] : Folds(g, n, 0, Step)
    BY <1>0, <2>1, FoldExists
  <2>3. ASSUME NEW t \in SUBSET (1 .. n), t # {}
        PROVE  Step[<<g[t \ {Max(t)}], Max(t)>>] = Op(g[t \ {Max(t)}], text[Max(t)])
    <3>1. g[t \ {Max(t)}] \in Nat /\ Max(t) \in 1 .. n
      BY <1>0, <2>3, MaxOfInterval
    <3> QED  BY <3>1 DEF Step
  <2>4. \A t \in SUBSET (1 .. n) :
            g[t] = IF t = {} THEN 0 ELSE Op(g[t \ {Max(t)}], text[Max(t)])
    BY <2>2, <2>3 DEF Folds
  <2>5. Solves(g)
    BY Zenon, <1>0, <2>4
  <2> HIDE DEF Solves
  <2> QED  BY <2>5
<1>4. Solves(G)
  BY Zenon, <1>3
<1> HIDE DEF G
<1> DEFINE h == [i \in 0 .. n |-> G[1 .. i]]
<1>5. h[0] = 0 /\ h[n] = Magnitude(text, 10)
  BY <1>0, <1>1, <1>4
<1>6. ASSUME NEW i \in 1 .. n  PROVE h[i] = Op(h[i - 1], text[i])
  <2>1. i \in Nat \ {0} /\ 1 .. i \in SUBSET (1 .. n) /\ i - 1 \in 0 .. n
    BY <1>0
  <2>2. 1 .. i # {} /\ Max(1 .. i) = i /\ (1 .. i) \ {Max(1 .. i)} = 1 .. i - 1
    BY <2>1, MaxOfPrefix
  <2>3. G[1 .. i] = Op(G[(1 .. i) \ {Max(1 .. i)}], text[Max(1 .. i)])
    BY <1>0, <1>4, <2>1, <2>2
  <2>4. G[1 .. i] = Op(G[1 .. i - 1], text[i])
    BY <2>2, <2>3
  <2>5. h[i] = G[1 .. i] /\ h[i - 1] = G[1 .. i - 1]
    BY <2>1, <1>0
  <2> HIDE DEF h
  <2> QED  BY Zenon, <2>4, <2>5
<1>7. h \in [0 .. n -> Nat]
  <2> DEFINE P == {i \in 0 .. n : h[i] \in Nat}
  <2>1. 0 \in P
    BY <1>0, <1>5
  <2>2. ASSUME NEW i \in 1 .. n, i - 1 \in P  PROVE i \in P
    <3> HIDE DEF h
    <3>1. h[i - 1] \in Nat /\ text[i] \in Decimals /\ i \in 0 .. n
      BY <1>0, <2>2
    <3>2. Op(h[i - 1], text[i]) \in Nat
      BY <1>2, <3>1
    <3> QED  BY <1>6, <3>1, <3>2
  <2>3. 0 .. n \subseteq P
    <3> HIDE DEF P
    <3> QED  BY <1>0, <2>1, <2>2, Along
  <2> HIDE DEF h
  <2>4. \A i \in 0 .. n : h[i] \in Nat
    BY <2>3
  <2> QED  BY <2>4 DEF h
<1> HIDE DEF h
<1> QED  BY <1>5, <1>6, <1>7, <1>e DEF n

(* A number that fits an int is read as it is.                             *)
LEMMA MagnitudeIsDecimal ==
    ASSUME NEW text \in Seq(Decimals), Decimal(text) <= IntMax
    PROVE  Magnitude(text, 10) = Decimal(text) /\ Decimal(text) \in Nat
<1> DEFINE n == Len(text)
           max == LongMax + 1
<1>0. n \in Nat /\ max \in Nat /\ IntMax \in Nat /\ IntMax < max
  BY WidthAssumption
<1>1. PICK f \in [0 .. n -> Nat] :
         /\ f[0] = 0 /\ f[n] = Decimal(text)
         /\ \A i \in 1 .. n : f[i] = 10 * f[i - 1] + (text[i] - 48)
  BY DecimalSteps
<1>2. PICK g \in [0 .. n -> Nat] :
         /\ g[0] = 0 /\ g[n] = Magnitude(text, 10)
         /\ \A i \in 1 .. n : g[i] = Min({max, g[i - 1] * 10 + Digit(text[i])})
  BY MagnitudeSteps
<1> DEFINE P == {i \in 0 .. n : g[i] = IF f[i] <= max THEN f[i] ELSE max}
<1>3. 0 \in P
  BY <1>0, <1>1, <1>2
<1>4. ASSUME NEW i \in 1 .. n, i - 1 \in P  PROVE i \in P
  <2> DEFINE c == text[i] - 48  F == f[i - 1]  E == g[i - 1]
  <2>1. c \in Nat /\ Digit(text[i]) = c /\ i - 1 \in 0 .. n /\ i \in 0 .. n
    <3>1. text[i] \in Decimals
      BY ElementOfSeq
    <3>2. Digit(text[i]) = text[i] - 48 /\ text[i] - 48 \in 0 .. 9
      BY <3>1, DigitDecimal
    <3> QED  BY <1>0, <3>2
  <2>2. F \in Nat /\ E \in Nat /\ E = IF F <= max THEN F ELSE max
    BY <1>4, <2>1
  <2>3. f[i] = 10 * F + c /\ g[i] = Min({max, E * 10 + c})
    BY <1>1, <1>2, <2>1
  <2> HIDE DEF c, E, F, max
  <2>4. E * 10 + c \in Nat
    BY <2>1, <2>2
  <2>5. g[i] = IF max <= E * 10 + c THEN max ELSE E * 10 + c
    BY <1>0, <2>3, <2>4, LesserOf
  <2>6. g[i] = IF f[i] <= max THEN f[i] ELSE max
    <3>1. CASE F <= max
      BY <1>0, <2>1, <2>2, <2>3, <2>5, <3>1
    <3>2. CASE ~(F <= max)
      <4>1. E = max /\ max <= E * 10 + c /\ ~(10 * F + c <= max)
        BY <1>0, <2>1, <2>2, <3>2
      <4> QED  BY <2>3, <2>5, <4>1
    <3> QED  BY <3>1, <3>2
  <2> QED  BY <2>1, <2>6
<1>5. n \in P
  <2> HIDE DEF P
  <2>1. 0 .. n \subseteq P
    BY <1>0, <1>3, <1>4, Along
  <2> QED  BY <1>0, <2>1
<1>6. f[n] \in Nat
  BY <1>0
<1> HIDE DEF n, max
<1> QED  BY <1>0, <1>1, <1>2, <1>5, <1>6

(* The least number with a property, that is the first.                    *)
LEMMA LeastIs ==
    ASSUME NEW S \in SUBSET Int, NEW x \in S, \A y \in S : x <= y
    PROVE  Min(S) = x
<1>1. Min(S) \in S /\ \A y \in S : Min(S) <= y
  BY Zenon DEF Min
<1> DEFINE m == Min(S)
<1>2. m \in Int /\ x \in Int /\ m <= x /\ x <= m
  <2> HIDE DEF m
  <2> QED  BY <1>1 DEF m
<1> HIDE DEF m
<1> QED  BY <1>2 DEF m

(* strtol reads a text of decimal digits to its end, whatever zeros it     *)
(* begins with.                                                            *)
LEMMA StrtolDecimal ==
    ASSUME NEW text \in Seq(Decimals), Decimal(text) <= IntMax
    PROVE  Strtol(text, 10).value = Decimal(text)
<1> DEFINE n    == Len(text)
           past(S, p) == Min({q \in p .. Len(text) + 1 : q \in DOMAIN text => text[q] \notin S})
           sign   == past({32}, 1)
           start  == IF sign \in DOMAIN text /\ text[sign] \in {43, 45} THEN sign + 1 ELSE sign
           end    == Min({q \in start .. Len(text) + 1 : ~IsDigitAt(text, q, 10)}) - 1
           size   == Magnitude(SubSeq(text, start, end), 10)
<1>0. n \in Nat /\ DOMAIN text = 1 .. n /\ \A i \in 1 .. n : text[i] \in 48 .. 57
  BY ElementOfSeq DEF Decimals
<1>1. Strtol(text, 10).value = IF start > sign /\ text[sign] = 45 THEN -size ELSE Min({size, LongMax})
  BY DEF Strtol
<1>2. sign = 1
  <2> DEFINE S == {q \in 1 .. n + 1 : q \in DOMAIN text => text[q] \notin {32}}
  <2>1. S \in SUBSET Int /\ 1 \in S /\ \A y \in S : 1 <= y
    BY <1>0
  <2> HIDE DEF S
  <2>2. Min(S) = 1
    BY <2>1, LeastIs
  <2> QED  BY <2>2 DEF S
<1> HIDE DEF sign
<1>3. start = 1
  BY <1>0, <1>2
<1> HIDE DEF start
<1>4. end = n
  <2> DEFINE S == {q \in 1 .. n + 1 : ~IsDigitAt(text, q, 10)}
  <2>1. \A q \in 1 .. n : IsDigitAt(text, q, 10)
    <3> TAKE q \in 1 .. n
    <3>1. text[q] \in Decimals
      BY <1>0 DEF Decimals
    <3>2. Digit(text[q]) = text[q] - 48 /\ text[q] - 48 \in 0 .. 9
      BY <3>1, DigitDecimal
    <3> QED  BY <1>0, <3>2 DEF IsDigitAt
  <2>2. ~IsDigitAt(text, n + 1, 10)
    BY <1>0 DEF IsDigitAt
  <2>3. S \in SUBSET Int /\ n + 1 \in S /\ \A y \in S : n + 1 <= y
    BY <1>0, <2>1, <2>2
  <2> HIDE DEF S
  <2>4. Min(S) = n + 1
    BY <2>3, LeastIs
  <2> QED  BY <1>0, <1>3, <2>4 DEF S
<1> HIDE DEF end
<1>5. SubSeq(text, 1, n) = text
  BY <1>0
<1>6. size = Decimal(text) /\ size \in Nat
  BY <1>3, <1>4, <1>5, MagnitudeIsDecimal
<1> HIDE DEF size
<1>7. size <= LongMax /\ LongMax \in Int
  BY <1>6, WidthAssumption
<1> QED  BY <1>1, <1>2, <1>3, <1>6, <1>7, LesserOf

(* An int holds what is not larger than IntMax.                            *)
LEMMA ToIntSmall ==
    ASSUME NEW v \in 0 .. IntMax
    PROVE  ToInt(v) = v
<1> DEFINE w == IntMax + 1
           x == v + w
<1>1. w \in Nat /\ w > 0 /\ x \in 0 .. 2 * w - 1
  BY WidthAssumption
<1>2. x % (2 * w) = x
  <2> HIDE DEF x, w
  <2> QED  BY <1>1, SMT
<1>3. ToInt(v) = (x % (2 * w)) - w
  BY WidthAssumption DEF ToInt
<1> QED  BY <1>1, <1>2, <1>3, WidthAssumption
-----------------------------------------------------------------------------
(* A request.                                                              *)

(* The options that a request uses are complete, and those of the mapping  *)
(* that stands for the user.                                               *)
LEMMA OptionsComplete ==
    ASSUME CatalogsRight, NEW u \in User, HasOptions(u)
    PROVE  /\ GetOptions(u).user_id \in Owner
           /\ GetOptions(u).user_id \in {u, PUBLIC}
           /\ GetOptions(u).uri = Address
           /\ GetOptions(u).api_key = GetOptions(u).user_id
<1> DEFINE owner == MappingOwner(u)
<1> DEFINE all == ListConcat(mapping[owner], server)
<1>1. owner \in {u, PUBLIC} /\ owner \in Owner
    BY DEF MappingOwner, Owner
<1>2. MappingRight(owner, mapping[owner]) /\ mapping[owner] # NULL /\ server # NULL
    BY <1>1 DEF CatalogsRight, HasOptions
<1>3. DOMAIN server = {"uri"} /\ server["uri"] = Address
    BY <1>2 DEF CatalogsRight, ServerRight
<1>4. /\ "api_key" \in DOMAIN mapping[owner] /\ mapping[owner]["api_key"] = owner
      /\ "uri" \notin DOMAIN mapping[owner]
    BY <1>2 DEF MappingRight
<1>5. "uri" \in DOMAIN all /\ "api_key" \in DOMAIN all
    BY <1>3, <1>4 DEF ListConcat
<1>6. all["uri"] = Address /\ all["api_key"] = owner
    BY <1>3, <1>4 DEF ListConcat
<1>q. QED BY <1>1, <1>5, <1>6 DEF GetOptions

(* The plan of a request is what its mapping says in digits, or the free   *)
(* plan if it says nothing.                                                *)
LEMMA PlanOfRequest ==
    ASSUME CatalogsRight, NEW u \in User, HasOptions(u), NEW success, NEW reset,
           Request(u, success, reset)
    PROVE  PlansAsWritten'
<1> DEFINE owner == MappingOwner(u)
           given == mapping[owner]
           all   == ListConcat(given, server)
           name  == "max_reqs_sec"
<1>1. owner \in Owner
    BY DEF MappingOwner, Owner
<1>2. MappingRight(owner, given) /\ given # NULL /\ DOMAIN server = {"uri"}
    BY <1>1 DEF CatalogsRight, HasOptions, ServerRight
<1>3. /\ sent'.options.max_reqs_sec = IF name \in DOMAIN all THEN Atoi(all[name]) ELSE 1
      /\ sent'.text = IF name \in DOMAIN given THEN given[name] ELSE NULL
    <2>1. sent'.options = GetOptions(u)
        BY DEF Request
    <2>2. GetOptions(u).user_id = owner
        BY DEF GetOptions
    <2>3. GetOptions(u).max_reqs_sec = Number(all, name, 1)
        BY DEF GetOptions
    <2>4. sent'.text = IF name \in DOMAIN given THEN given[name] ELSE NULL
        BY <2>2 DEF Request
    <2>q. QED BY <2>1, <2>3, <2>4 DEF Number
<1>4. /\ name \in DOMAIN all <=> name \in DOMAIN given
      /\ name \in DOMAIN given => all[name] = given[name]
    BY <1>2 DEF ListConcat
<1> HIDE DEF owner, given, all
<1>5. CASE name \notin DOMAIN given
    BY <1>3, <1>4, <1>5 DEF PlansAsWritten
<1>6. CASE name \in DOMAIN given
    <2> DEFINE text == given[name]
    <2>1. text \in Text /\ text \in Seq(0 .. 255) /\ text # NULL
        BY <1>2, <1>6, TextAssumption DEF MappingRight
    <2>2. sent'.text = text /\ sent'.options.max_reqs_sec = ToInt(Strtol(text, 10).value)
        BY <1>3, <1>4, <1>6 DEF Atoi
    <2> HIDE DEF text
    <2>3. ASSUME \A p \in DOMAIN text : text[p] \in 48 .. 57, Decimal(text) <= IntMax
          PROVE  ToInt(Strtol(text, 10).value) = Decimal(text)
        <3>1. text \in Seq(Decimals)
            BY <2>1, <2>3 DEF Decimals
        <3>2. Strtol(text, 10).value = Decimal(text) /\ Decimal(text) \in 0 .. IntMax
            BY <2>3, <3>1, StrtolDecimal, MagnitudeIsDecimal, WidthAssumption
        <3>q. QED BY <3>2, ToIntSmall
    <2>q. QED BY <2>1, <2>2, <2>3 DEF PlansAsWritten
<1>q. QED BY <1>5, <1>6

(* The counters after a request: one call more for its key alone.          *)
LEMMA RequestCounts ==
    ASSUME CatalogsRight, CountersRight, NEW u \in User, HasOptions(u), NEW success \in BOOLEAN,
           NEW reset \in Months \union {NULL}, Request(u, success, reset)
    PROVE  /\ CountersRight'
           /\ DOMAIN ocgeo_hash \subseteq DOMAIN ocgeo_hash'
           /\ \A k \in DOMAIN ocgeo_hash : ocgeo_hash[k].calls <= ocgeo_hash'[k].calls
<1> DEFINE key   == GetOptions(u).user_id
           entry == IF key \in DOMAIN ocgeo_hash THEN ocgeo_hash[key] ELSE ZeroCounters
           new   == Counted(entry, success, reset)
<1>1. key \in Owner
    BY OptionsComplete
<1>2. /\ asked' = [asked EXCEPT ![key] = @ + 1]
      /\ ocgeo_hash' = [k \in DOMAIN ocgeo_hash \union {key} |->
                           IF k = key THEN new ELSE ocgeo_hash[k]]
    BY DEF Request, EntryKey
<1>3. EntryRight(entry) /\ entry.calls = asked[key]
    BY <1>1 DEF CountersRight, EntryRight, ZeroCounters, Countings, OneEntryPerKey
<1>4. EntryRight(new) /\ new.calls = entry.calls + 1
    BY <1>3 DEF EntryRight, Countings, Counted
<1> HIDE DEF entry, new, key
<1>5. DOMAIN ocgeo_hash' \subseteq Owner
    BY <1>1, <1>2 DEF CountersRight
<1>6. \A k \in DOMAIN ocgeo_hash' : EntryRight(ocgeo_hash'[k])
    BY <1>2, <1>4 DEF CountersRight
<1>7. asked' \in [Owner -> Nat]
    BY <1>1, <1>2 DEF CountersRight
<1>8. ASSUME NEW k \in Owner
      PROVE  asked'[k] = IF k \in DOMAIN ocgeo_hash' THEN ocgeo_hash'[k].calls ELSE 0
    <2>1. CASE k = key
        BY <1>1, <1>2, <1>3, <1>4, <2>1 DEF CountersRight
    <2>2. CASE k # key
        BY <1>2, <2>2 DEF CountersRight, OneEntryPerKey
    <2>q. QED BY <2>1, <2>2
<1>9. ASSUME NEW k \in DOMAIN ocgeo_hash PROVE ocgeo_hash[k].calls <= ocgeo_hash'[k].calls
    <2>1. CASE k = key
        <3>1. entry = ocgeo_hash[k] /\ ocgeo_hash'[k] = new
            BY <1>2, <2>1 DEF entry
        <3>2. entry.calls \in Nat
            BY <1>3 DEF EntryRight, Countings
        <3>q. QED BY <1>4, <3>1, <3>2
    <2>2. CASE k # key
        <3>1. ocgeo_hash'[k] = ocgeo_hash[k]
            BY <1>2, <2>2
        <3>2. ocgeo_hash[k].calls \in Nat
            BY DEF CountersRight, EntryRight, Countings
        <3>q. QED BY <3>1, <3>2
    <2>q. QED BY <2>1, <2>2
<1>q. QED BY <1>2, <1>5, <1>6, <1>7, <1>8, <1>9 DEF CountersRight, OneEntryPerKey

(* Every step keeps the table of counters right.                           *)
LEMMA CountersStep ==
    CatalogsRight /\ CountersRight /\ [Next]_usage_vars => CountersRight'
<1> SUFFICES ASSUME CatalogsRight, CountersRight, [Next]_usage_vars PROVE CountersRight'
    OBVIOUS
<1>1. CASE Query
    BY <1>1, RequestCounts DEF Query
<1>2. CASE Reconnect
    <2>1. DOMAIN ocgeo_hash' = {} /\ asked' = [k \in Owner |-> 0]
        BY <1>2 DEF Reconnect, NoRequests
    <2>q. QED BY <2>1 DEF CountersRight, OneEntryPerKey
<1>3. CASE UNCHANGED <<ocgeo_hash, asked>>
    BY <1>3 DEF CountersRight, OneEntryPerKey
<1>q. QED
    BY <1>1, <1>2, <1>3 DEF Next, NextRow, ReturnDone, Abandon, usage_vars, session_vars

(* Every step keeps the requests sent right.                               *)
LEMMA SentStep == CatalogsRight /\ SentRight /\ [Next]_usage_vars => SentRight'
<1> SUFFICES ASSUME CatalogsRight, SentRight, [Next]_usage_vars PROVE SentRight'
    OBVIOUS
<1>1. ASSUME NEW u \in User, HasOptions(u), NEW success \in BOOLEAN,
             NEW reset \in Months \union {NULL}, Request(u, success, reset)
      PROVE  SentRight'
    <2>1. sent'.options = GetOptions(u) /\ sent'.user = u
        BY <1>1 DEF Request
    <2>2. RequestsComplete'
        BY <1>1, <2>1, OptionsComplete DEF RequestsComplete
    <2>q. QED BY <1>1, <2>2, PlanOfRequest DEF SentRight
<1>2. CASE Reconnect
    BY <1>2 DEF Reconnect, SentRight, RequestsComplete, PlansAsWritten
<1>3. CASE UNCHANGED sent
    BY <1>3 DEF SentRight, RequestsComplete, PlansAsWritten
<1>q. QED
    BY <1>1, <1>2, <1>3 DEF Next, Query, NextRow, ReturnDone, Abandon, usage_vars, session_vars
-----------------------------------------------------------------------------
(* A call of ocgeo_stats.                                                  *)

RowRight(f, row) ==
    /\ row.key \in DOMAIN ocgeo_hash
    /\ row.calls \in Nat /\ row.calls <= ocgeo_hash[row.key].calls
    /\ row.failed \in 0 .. row.calls
    /\ row.key \in DOMAIN f.old => row.calls >= f.old[row.key].calls

RowsRight(f) ==
    /\ f.rows \in Seq([key : Owner, calls : Nat, failed : Nat, reset : Months \union {NULL}])
    /\ \A n \in DOMAIN f.rows : RowRight(f, f.rows[n])
    /\ \A n, m \in DOMAIN f.rows : f.rows[n].key = f.rows[m].key => n = m
    /\ \A n \in DOMAIN f.rows : f.rows[n].key \in f.passed
    /\ \A k \in f.passed : \E n \in DOMAIN f.rows : f.rows[n].key = k

OldRight(f) ==
    /\ DOMAIN f.old \subseteq DOMAIN ocgeo_hash
    /\ \A k \in DOMAIN f.old : f.old[k].calls \in Nat /\ f.old[k].calls <= ocgeo_hash[k].calls

CallRight(f) ==
    /\ DOMAIN f = {"open", "old", "passed", "rows"}
    /\ OldRight(f)
    /\ RowsRight(f)
    /\ f.open \in BOOLEAN
    /\ ~f.open => DOMAIN f.old \subseteq f.passed

StatsRight == stats # NULL => CallRight(stats)

(* The function finds its state in order, in its first call too.           *)
LEMMA FuncctxRight ==
    ASSUME CountersRight, StatsRight
    PROVE  CallRight(Funcctx) /\ Funcctx.open
<1>1. CASE stats # NULL /\ stats.open
    BY <1>1 DEF StatsRight, Funcctx
<1>2. CASE ~(stats # NULL /\ stats.open)
    <2>1. Funcctx = FirstCall
        BY <1>2 DEF Funcctx
    <2>2. OldRight(FirstCall)
        BY DEF FirstCall, OldRight, CountersRight, EntryRight, Countings
    <2>3. RowsRight(FirstCall)
        <3>1. FirstCall.rows = << >> /\ FirstCall.passed = {}
            BY DEF FirstCall
        <3>q. QED BY <3>1 DEF RowsRight
    <2>q. QED BY <2>1, <2>2, <2>3 DEF CallRight, FirstCall
<1>q. QED BY <1>1, <1>2

(* What was shown stays right while entries are added and counted up.      *)
LEMMA CallStays ==
    ASSUME StatsRight, CountersRight, CountersRight', stats' = stats,
           DOMAIN ocgeo_hash \subseteq DOMAIN ocgeo_hash',
           \A k \in DOMAIN ocgeo_hash : ocgeo_hash[k].calls <= ocgeo_hash'[k].calls
    PROVE  StatsRight'
<1> SUFFICES ASSUME CallRight(stats) PROVE CallRight(stats)'
    BY DEF StatsRight
<1>1. \A k \in DOMAIN ocgeo_hash : ocgeo_hash[k].calls \in Nat /\ ocgeo_hash'[k].calls \in Nat
    BY DEF CountersRight, EntryRight, Countings
<1>2. OldRight(stats)'
    BY <1>1 DEF CallRight, OldRight
<1>3. ASSUME NEW n \in DOMAIN stats.rows
      PROVE  RowRight(stats, stats.rows[n])'
    <2>1. RowRight(stats, stats.rows[n])
        BY DEF CallRight, RowsRight
    <2>q. QED BY <1>1, <2>1 DEF RowRight
<1>4. RowsRight(stats)'
    BY <1>3 DEF CallRight, RowsRight
<1>q. QED BY <1>2, <1>4 DEF CallRight

(* A row is added.                                                         *)
ReportRow == [key : Owner, calls : Nat, failed : Nat, reset : Months \union {NULL}]

(* A report with one more row.                                             *)
LEMMA RowAppended ==
    ASSUME NEW f, NEW g, NEW row \in ReportRow, RowsRight(f), RowRight(f, row),
           row.key \notin f.passed, g.old = f.old, g.passed = f.passed \union {row.key},
           g.rows = Append(f.rows, row)
    PROVE  RowsRight(g)
<1> DEFINE rows == f.rows
           more == g.rows
<1>1. /\ rows \in Seq(ReportRow)
      /\ \A n \in DOMAIN rows : RowRight(f, rows[n])
      /\ \A n, m \in DOMAIN rows : rows[n].key = rows[m].key => n = m
      /\ \A n \in DOMAIN rows : rows[n].key \in f.passed
      /\ \A k \in f.passed : \E n \in DOMAIN rows : rows[n].key = k
    BY DEF RowsRight, ReportRow
<1>2. more = Append(rows, row)
    OBVIOUS
<1> HIDE DEF rows, more
<1>3. /\ more \in Seq(ReportRow)
      /\ Len(rows) \in Nat /\ DOMAIN rows = 1 .. Len(rows)
      /\ DOMAIN more = 1 .. Len(rows) + 1
      /\ \A n \in 1 .. Len(rows) : more[n] = rows[n]
      /\ more[Len(rows) + 1] = row
    BY <1>1, <1>2
<1>4. ASSUME NEW n \in DOMAIN more
      PROVE  \/ n \in DOMAIN rows /\ more[n] = rows[n] /\ rows[n].key # row.key
             \/ n = Len(rows) + 1 /\ more[n] = row
    BY <1>1, <1>3
<1>5. ASSUME NEW r, RowRight(f, r) PROVE RowRight(g, r)
    BY <1>5 DEF RowRight
<1>6. \A n \in DOMAIN more : RowRight(g, more[n]) /\ more[n].key \in g.passed
    BY <1>1, <1>4, <1>5
<1>7. \A n, m \in DOMAIN more : more[n].key = more[m].key => n = m
    BY <1>1, <1>4
<1>8. ASSUME NEW k \in g.passed PROVE \E n \in DOMAIN more : more[n].key = k
    BY <1>1, <1>3
<1>q. QED BY <1>3, <1>6, <1>7, <1>8 DEF RowsRight, ReportRow, more

(* What a call keeps of its report when it returns a row.                  *)
LEMMA CallUpdated ==
    ASSUME NEW f, NEW key, NEW row, DOMAIN f = {"open", "old", "passed", "rows"}
    PROVE  LET g == [f EXCEPT !.passed = @ \union {key}, !.rows = Append(@, row)]
           IN  /\ g.open = f.open /\ g.old = f.old
               /\ g.passed = f.passed \union {key} /\ g.rows = Append(f.rows, row)
               /\ DOMAIN g = DOMAIN f
    OBVIOUS

(* A call that returns a row keeps its report right.                       *)
LEMMA RowAdded ==
    ASSUME CountersRight, StatsRight, NEW key \in Ahead(Funcctx),
           ocgeo_hash[key].reset # NULL
    PROVE  CallRight([Funcctx EXCEPT !.passed = @ \union {key}, !.rows = Append(@, Row(key))])
<1> DEFINE f == Funcctx
           g == [f EXCEPT !.passed = @ \union {key}, !.rows = Append(@, Row(key))]
<1>1. CallRight(f) /\ f.open
    BY FuncctxRight
<1>2. key \in DOMAIN ocgeo_hash /\ key \notin f.passed
    BY DEF Ahead
<1>3. EntryRight(ocgeo_hash[key]) /\ key \in Owner
    BY <1>2 DEF CountersRight
<1>4. Row(key) \in ReportRow /\ Row(key).key = key
    BY <1>3 DEF Row, MonthShown, EntryRight, Countings, ReportRow
<1>5. RowRight(f, Row(key))
    BY <1>1, <1>2, <1>3 DEF RowRight, Row, EntryRight, Countings, CallRight, OldRight
<1>6. /\ g.open = f.open /\ g.old = f.old
      /\ g.passed = f.passed \union {key} /\ g.rows = Append(f.rows, Row(key))
      /\ DOMAIN g = DOMAIN f
    BY <1>1, CallUpdated DEF CallRight
<1> HIDE DEF g
<1>7. RowsRight(g)
    BY <1>1, <1>2, <1>4, <1>5, <1>6, RowAppended DEF CallRight
<1>8. OldRight(g)
    BY <1>1, <1>6 DEF CallRight, OldRight
<1>9. CallRight(g)
    BY <1>1, <1>6, <1>7, <1>8 DEF CallRight
<1>q. QED BY <1>9 DEF g

(* A call that is done keeps its report right.                             *)
LEMMA CallEnds ==
    ASSUME CountersRight, StatsRight, ~More(Funcctx) \/ MayEnd(Funcctx)
    PROVE  CallRight([Funcctx EXCEPT !.open = FALSE])
<1> DEFINE f == Funcctx
           g == [f EXCEPT !.open = FALSE]
<1>1. CallRight(f)
    BY FuncctxRight
<1>2. DOMAIN f.old \subseteq f.passed
    BY <1>1 DEF More, Ahead, MayEnd, CallRight, OldRight
<1>3. /\ g.open = FALSE /\ g.old = f.old /\ g.passed = f.passed /\ g.rows = f.rows
      /\ DOMAIN g = DOMAIN f
    BY <1>1 DEF CallRight
<1> HIDE DEF g
<1>4. OldRight(g)
    BY <1>1, <1>3 DEF CallRight, OldRight
<1>5. RowsRight(g)
    BY <1>1, <1>3 DEF CallRight, RowsRight, RowRight
<1>6. CallRight(g)
    BY <1>1, <1>2, <1>3, <1>4, <1>5 DEF CallRight
<1>q. QED BY <1>6 DEF g

(* Every step keeps the reports right.                                     *)
LEMMA StatsStep ==
    CatalogsRight /\ CountersRight /\ StatsRight /\ [Next]_usage_vars => StatsRight'
<1> SUFFICES ASSUME CatalogsRight, CountersRight, StatsRight, [Next]_usage_vars
             PROVE  StatsRight'
    OBVIOUS
<1>1. CountersRight'
    BY CountersStep
<1>2. CASE Query
    BY <1>1, <1>2, RequestCounts, CallStays DEF Query, Request
<1>3. CASE NextRow
    <2>1. PICK key \in Ahead(Funcctx) :
              CASE ocgeo_hash[key].reset = NULL -> crashed' = TRUE /\ stats' = NULL
                [] ocgeo_hash[key].reset = 0    -> stats' = NULL /\ UNCHANGED crashed
                [] OTHER -> /\ stats' = [Funcctx EXCEPT !.passed = @ \union {key},
                                                        !.rows = Append(@, Row(key))]
                            /\ UNCHANGED crashed
        BY <1>3 DEF NextRow
    <2>2. CASE stats' = NULL
        BY <2>2 DEF StatsRight
    <2>3. CASE stats' # NULL
        <3>1. /\ ocgeo_hash[key].reset # NULL
              /\ stats' = [Funcctx EXCEPT !.passed = @ \union {key}, !.rows = Append(@, Row(key))]
            BY <2>1, <2>3
        <3>2. ocgeo_hash' = ocgeo_hash
            BY <1>3 DEF NextRow
        <3>3. CallRight(stats')
            BY <3>1, RowAdded
        <3>q. QED BY <3>2, <3>3 DEF StatsRight, CallRight, OldRight, RowsRight, RowRight
    <2>q. QED BY <2>2, <2>3
<1>4. CASE ReturnDone
    <2>1. stats' = [Funcctx EXCEPT !.open = FALSE] /\ ocgeo_hash' = ocgeo_hash
        BY <1>4 DEF ReturnDone
    <2>2. CallRight(stats')
        BY <1>4, <2>1, CallEnds DEF ReturnDone
    <2>q. QED BY <2>1, <2>2 DEF StatsRight, CallRight, OldRight, RowsRight, RowRight
<1>5. CASE Abandon \/ Reconnect
    BY <1>5 DEF Abandon, Reconnect, StatsRight
<1>6. CASE UNCHANGED <<ocgeo_hash, stats>>
    BY <1>6 DEF StatsRight, CallRight, OldRight, RowsRight, RowRight
<1>q. QED
    BY <1>2, <1>3, <1>4, <1>5, <1>6 DEF Next, usage_vars, session_vars
-----------------------------------------------------------------------------
IInv == CatalogsRight /\ CountersRight /\ SentRight /\ StatsRight /\ crashed \in BOOLEAN

(* The invariant holds at first.                                           *)
LEMMA Initially == Init => IInv
<1> SUFFICES ASSUME Init PROVE IInv
    OBVIOUS
<1>1. CatalogsRight
    BY DEF Init, InitCatalogs, CatalogsRight, ServerRight, MappingRight
<1>2. CountersRight
    <2>1. DOMAIN ocgeo_hash = {} /\ asked = [k \in Owner |-> 0]
        BY DEF Init, InitSession, NoRequests
    <2>q. QED BY <2>1 DEF CountersRight, OneEntryPerKey
<1>3. SentRight /\ StatsRight /\ crashed \in BOOLEAN
    BY DEF Init, InitSession, SentRight, RequestsComplete, PlansAsWritten, StatsRight
<1>q. QED BY <1>1, <1>2, <1>3 DEF IInv

(* Every step keeps the invariant.                                         *)
LEMMA Inductive == IInv /\ [Next]_usage_vars => IInv'
<1> SUFFICES ASSUME IInv, [Next]_usage_vars PROVE IInv'
    OBVIOUS
<1>1. CatalogsRight' /\ CountersRight' /\ SentRight' /\ StatsRight'
    BY CatalogsStep, CountersStep, SentStep, StatsStep DEF IInv
<1>2. crashed' \in BOOLEAN
    BY DEF IInv, Next, Query, Request, NextRow, ReturnDone, Abandon, Reconnect, usage_vars,
           session_vars
<1>q. QED BY <1>1, <1>2 DEF IInv

(* The invariant holds always.                                             *)
LEMMA Invariant == Spec => []IInv
    BY Initially, Inductive, PTL DEF Spec

(* Catalogs hold options of their own objects only, and the table entries  *)
(* of users that count requests.                                           *)
THEOREM TypeCorrect == Spec => []TypeOK
<1>1. IInv => TypeOK
    BY DEF IInv, TypeOK, CatalogsRight, ServerRight, MappingRight, CountersRight, EntryRight
<1>q. QED BY <1>1, Invariant, PTL

(* Whatever the order of commands and queries, no request goes out without *)
(* an address and the key of its own mapping: what is required when an     *)
(* object is created cannot be lost later.                                 *)
THEOREM RequestsAreComplete == Spec => []RequestsComplete
<1>1. IInv => RequestsComplete
    BY DEF IInv, SentRight
<1>q. QED BY <1>1, Invariant, PTL

(* Whatever digits, zeros before them and lengths of texts: a request uses *)
(* the plan that its mapping says when the request begins, unless an int   *)
(* does not hold it, though the validator reads the text differently.      *)
THEOREM PlansAreAsWritten == Spec => []PlansAsWritten
<1>1. IInv => PlansAsWritten
    BY DEF IInv, SentRight
<1>q. QED BY <1>1, Invariant, PTL

(* The calls with one key are counted in one entry, though mappings come   *)
(* and go between the requests of a user.                                  *)
THEOREM EntriesCount == Spec => []OneEntryPerKey
<1>1. IInv => OneEntryPerKey
    BY DEF IInv, CountersRight
<1>q. QED BY <1>1, Invariant, PTL

(* A report that ends has shown each entry of its beginning once, however  *)
(* many requests and new entries came between its rows.                    *)
THEOREM ReportsAreComplete == Spec => []ReportsEveryEntry
<1>1. ASSUME IInv PROVE ReportsEveryEntry
    <2> SUFFICES ASSUME stats # NULL, CallRight(stats), RowsRight(stats), CountersRight
                 PROVE  ReportsEveryEntry
        BY <1>1 DEF IInv, StatsRight, CallRight, ReportsEveryEntry
    <2>1. \A row \in Range(stats.rows) : \E n \in DOMAIN stats.rows : row = stats.rows[n]
        BY DEF Range
    <2>2. \A n \in DOMAIN stats.rows : stats.rows[n] \in Range(stats.rows)
        BY DEF Range
    <2>3. \A row \in Range(stats.rows) : RowRight(stats, row)
        BY <2>1 DEF RowsRight
    <2>4. \A n, m \in DOMAIN stats.rows : stats.rows[n].key = stats.rows[m].key => n = m
        BY DEF RowsRight
    <2>5. ~stats.open => DOMAIN stats.old \subseteq {row.key : row \in Range(stats.rows)}
        <3>1. ASSUME NEW k \in stats.passed
              PROVE  k \in {row.key : row \in Range(stats.rows)}
            BY <2>2 DEF RowsRight
        <3>q. QED BY <3>1 DEF CallRight
    <2>6. \A k \in DOMAIN ocgeo_hash : ocgeo_hash[k].calls = asked[k]
        BY DEF CountersRight, OneEntryPerKey
    <2>q. QED BY <2>3, <2>4, <2>5, <2>6 DEF ReportsEveryEntry, RowRight
<1>q. QED BY <1>1, Invariant, PTL
=============================================================================
