------------------------------ MODULE JsonPath ------------------------------
(***************************************************************************)
(* ocgeo_api.c: a field of a result, by its path.  A path is the sequence  *)
(* of its segments, which sdssplitlen cuts at the dots; a segment is a     *)
(* sequence of bytes.                                                      *)
(***************************************************************************)
EXTENDS CJsonHeap

IsDigit(c) == c \in 48 .. 57

(* The index that a segment names, -1 if it has a byte that is no digit.   *)
StrToMaybeInt(s) ==
    IF \E n \in DOMAIN s : ~IsDigit(s[n]) THEN -1
    ELSE FoldLeft(LAMBDA k, c : k + 10 * k + (c - 48), 0, s)

(* Mutant of Follow: names are looked up whatever their case.              *)
FollowAnyCase(h, item, segment) ==
    IF item = NULL THEN NULL
    ELSE IF StrToMaybeInt(segment) >= 0 THEN GetArrayItem(h, item, StrToMaybeInt(segment))
    ELSE GetObjectItem(h, item, segment, FALSE)

Follow(h, item, segment) ==
    IF item = NULL THEN NULL
    ELSE IF StrToMaybeInt(segment) >= 0 THEN GetArrayItem(h, item, StrToMaybeInt(segment))
    ELSE GetObjectItem(h, item, segment, TRUE)

GetJsonField(h, parent, path) ==
    FoldLeft(LAMBDA item, segment : Follow(h, item, segment), parent, path)

(* ocgeo_response_get_str and ocgeo_response_get_int.                      *)
IsType(h, item, type) == item # NULL /\ h[item].type = type

Get(h, parent, path, type) ==
    LET js == GetJsonField(h, parent, path)
    IN  IF IsType(h, js, type) THEN [ok |-> TRUE, value |-> h[js].value]
        ELSE [ok |-> FALSE, value |-> NULL]
=============================================================================
