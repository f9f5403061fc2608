------------------------------ MODULE OcgeoApi ------------------------------
(***************************************************************************)
(* ocgeo_api.c: one request to the API, from the reply of the server to    *)
(* the response of the caller.                                             *)
(*                                                                         *)
(* A reply is "lost" (no connection, or no complete answer), "garbage"     *)
(* (an answer that is not JSON), or a JSON document.  Of a document there  *)
(* are kept the fields that the code looks up: the status code, whether    *)
(* the rate is given, the total (a null counts as 0) and the results, some *)
(* of which may be Missing.  Of a result there are kept its confidence,    *)
(* its bounds and its geometry.  The rate, the bounds and the geometry are *)
(* Missing, an Object with every member that the code reads, or Partial.   *)
(***************************************************************************)
EXTENDS Integers, Sequences, FiniteSets

CONSTANTS Missing,  \* for a field that the document does not have
          Lost,     \* the reply that never came
          Garbage,  \* the reply that is not JSON
          Null,     \* JSON's null, and SQL's
          Object,   \* an object with the members that the code reads
          Partial   \* null, or any other value where one of them is not there

OCGEO_CODE_OK == 200

(* A response: its status code, and its results.  These are cells of an    *)
(* array, each with the index of the next one; 0 is NULL.  head is where   *)
(* the list starts.                                                        *)
NullResponse == [code |-> 0, total |-> 0, cells |-> << >>, head |-> 0]

(* A member that is not there is read: the confidence, or one of the       *)
(* corners of the bounds or of the coordinates.  A result may have no      *)
(* bounds, and without a geometry its point is the invalid one.            *)
Unreadable(result) ==
    \/ result.confidence = Missing
    \/ Partial \in {result.bounds, result.geometry}

(* Where parse_response_json does not return: an assertion fails, or a     *)
(* member is missing that is read unconditionally.                         *)
Aborts(doc) ==
    \/ doc.code = Missing
    \/ doc.rate = Partial
    \/ doc.total = Missing
    \/ /\ doc.total > 0
       /\ \/ doc.results = Missing
          \/ \E i \in DOMAIN doc.results : Unreadable(doc.results[i])

(* Mutant of Linked: the last result is not terminated.                    *)
LinkedOn(results) ==
    [i \in DOMAIN results |-> [internal |-> results[i], next |-> i + 1]]

(* The results of the document, each linked to the next.                   *)
Linked(results) ==
    [i \in DOMAIN results |->
        [internal |-> results[i],
         next |-> IF i = Len(results) THEN 0 ELSE i + 1]]

ParseResponseJson(doc) ==
    IF doc.total <= 0
    THEN [code |-> doc.code, total |-> doc.total, cells |-> << >>, head |-> 0]
    ELSE [code |-> doc.code, total |-> doc.total,
          cells |-> Linked(doc.results), head |-> 1]

(* do_request: whether it succeeds, and the response it leaves.            *)
Succeeds(reply) == reply \notin {Lost, Garbage}

DoRequest(reply) == IF Succeeds(reply) THEN ParseResponseJson(reply) ELSE NullResponse

OcgeoResponseOk(response) == response.code = OCGEO_CODE_OK

(* What a request leaves allocated: the url, and of a document the tree,   *)
(* the array of results and the bounds of each.                            *)
Allocated(reply) ==
    IF ~Succeeds(reply) THEN [urls |-> 1, docs |-> 0, arrays |-> 0, bounds |-> 0]
    ELSE LET cells == ParseResponseJson(reply).cells
         IN  [urls |-> 1, docs |-> 1,
              arrays |-> IF reply.total > 0 THEN 1 ELSE 0,
              bounds |-> Cardinality({i \in DOMAIN cells : cells[i].internal.bounds = Object})]
=============================================================================
