----------------------------- MODULE UsageStats -----------------------------
(***************************************************************************)
(* ocgeo_fdw.c: ocgeo_stats, the function that shows the counters of this  *)
(* backend, one row to a call.  Between two calls the query, or another of *)
(* the session, may use the foreign table: what the counters are is what   *)
(* ocgeoGetOptions and ocgeoGetCounters make of the catalogs at the time.  *)
(***************************************************************************)
EXTENDS Options

CONSTANTS Months,    \* bound: tm_mon of the times at which limits are reset
          Requests   \* bound: the requests of the backend

VARIABLES
    ocgeo_hash,  \* the entries of the hash table, which its first one creates
    asked,       \* history: asked[k], the requests with key k
    sent,        \* history: the last request, and the text of its max_reqs_sec
    stats,       \* the call of ocgeo_stats that is not over, or over last
    crashed      \* the backend has crashed

session_vars == <<ocgeo_hash, asked, sent, stats, crashed>>
usage_vars   == <<catalog_vars, session_vars>>

NoRequests == [k \in Owner |-> 0]

InitSession ==
    /\ ocgeo_hash = << >>
    /\ asked = NoRequests
    /\ sent = NULL
    /\ stats = NULL
    /\ crashed = FALSE

Init == InitCatalogs /\ InitSession
-----------------------------------------------------------------------------
(* A query of user u.                                                      *)

ZeroCounters == [calls |-> 0, success_calls |-> 0, reset |-> NULL]

(* Mutant of EntryKey: an entry for each user of the session.              *)
EntryKeyOfUser(u, options) == u

EntryKey(u, options) == options.user_id

(* The entry, with the reply counted; it is created when there is none.    *)
Counted(entry, success, reset) ==
    [calls         |-> entry.calls + 1,
     success_calls |-> entry.success_calls + (IF success THEN 1 ELSE 0),
     reset         |-> IF success THEN reset ELSE entry.reset]

(* ocgeoBeginForeignScan as far as the counters go: paying customers get   *)
(* no rate information.                                                    *)
Request(u, success, reset) ==
    LET options == GetOptions(u)
        key     == EntryKey(u, options)
        entry   == IF key \in DOMAIN ocgeo_hash THEN ocgeo_hash[key] ELSE ZeroCounters
        given   == mapping[options.user_id]
    IN  /\ asked' = [asked EXCEPT ![options.user_id] = @ + 1]
        /\ ocgeo_hash' = [k \in DOMAIN ocgeo_hash \union {key} |->
                           IF k = key THEN Counted(entry, success, reset) ELSE ocgeo_hash[k]]
        /\ sent' = [options |-> options, user |-> u,
                    text |-> IF "max_reqs_sec" \in DOMAIN given THEN given.max_reqs_sec ELSE NULL]
        /\ UNCHANGED <<catalog_vars, stats, crashed>>

Query ==
    /\ ~crashed
    /\ FoldFunction(+, 0, asked) < Requests
    /\ \E u \in User, success \in BOOLEAN, reset \in Months \union {NULL} :
          /\ HasOptions(u)
          /\ ~success => reset = NULL
          /\ Request(u, success, reset)
-----------------------------------------------------------------------------
(* ocgeo_stats.                                                            *)

(* The first call; old is what the table holds then.                       *)
FirstCall == [open |-> TRUE, old |-> ocgeo_hash,
              passed |-> {}, rows |-> << >>]

(* The function as a call finds it.                                        *)
Funcctx == IF stats # NULL /\ stats.open THEN stats ELSE FirstCall

(* hash_seq_search: the entries one after the other; those that were added *)
(* meanwhile are come upon or not.                                         *)
Ahead(f)  == DOMAIN ocgeo_hash \ f.passed
MayEnd(f) == DOMAIN f.old \subseteq f.passed

(* Mutant of More: as many rows as there were entries.                     *)
MoreCounted(f) == Len(f.rows) < Cardinality(DOMAIN f.old) /\ Ahead(f) # {}

More(f) == Ahead(f) # {}

(* tm_mon counts the months from 0, the text of the row from 1: January is *)
(* no month, and any other the one before.                                 *)
MonthShown(reset) == reset

Row(key) ==
    LET counters == ocgeo_hash[key]
    IN  [key |-> key, calls |-> counters.calls,
         failed |-> counters.calls - counters.success_calls, reset |-> MonthShown(counters.reset)]

(* A row is built and its texts are freed, that of the reset time also if  *)
(* there is none.                                                          *)
NextRow ==
    /\ ~crashed
    /\ More(Funcctx)
    /\ \E key \in Ahead(Funcctx) :
          CASE ocgeo_hash[key].reset = NULL -> crashed' = TRUE /\ stats' = NULL
            [] ocgeo_hash[key].reset = 0    -> stats' = NULL /\ UNCHANGED crashed
            [] OTHER -> /\ stats' = [Funcctx EXCEPT !.passed = @ \union {key},
                                                    !.rows = Append(@, Row(key))]
                        /\ UNCHANGED crashed
    /\ UNCHANGED <<catalog_vars, ocgeo_hash, asked, sent>>

ReturnDone ==
    /\ ~crashed
    /\ ~More(Funcctx) \/ MayEnd(Funcctx)
    /\ stats' = [Funcctx EXCEPT !.open = FALSE]
    /\ UNCHANGED <<catalog_vars, ocgeo_hash, asked, sent, crashed>>

(* The query wants no more rows.                                           *)
Abandon ==
    /\ stats # NULL /\ stats.open
    /\ stats' = NULL
    /\ UNCHANGED <<catalog_vars, ocgeo_hash, asked, sent, crashed>>

(* A new backend.                                                          *)
Reconnect ==
    /\ ocgeo_hash' = << >>
    /\ asked' = NoRequests
    /\ sent' = NULL
    /\ stats' = NULL
    /\ crashed' = FALSE
    /\ UNCHANGED catalog_vars

Next ==
    \/ ~crashed /\ Catalogs /\ UNCHANGED session_vars
    \/ Query
    \/ NextRow
    \/ ReturnDone
    \/ Abandon
    \/ Reconnect

Spec == Init /\ [][Next]_usage_vars
-----------------------------------------------------------------------------
Countings == [calls : Nat, success_calls : Nat, reset : Months \union {NULL}]

(* Catalogs hold options of their own objects only; tables hold counters.  *)
TypeOK ==
    /\ server # NULL => DOMAIN server = {"uri"}
    /\ \A o \in Owner : mapping[o] # NULL =>
          DOMAIN mapping[o] \subseteq {"api_key", "max_reqs_sec", "max_reqs_day"}
    /\ DOMAIN ocgeo_hash \subseteq Owner
    /\ \A k \in DOMAIN ocgeo_hash : ocgeo_hash[k] \in Countings
    /\ asked \in [Owner -> Nat] /\ crashed \in BOOLEAN

(* No request goes out without an address or a key, whatever was created,  *)
(* changed and dropped before (the options are read into memory that is    *)
(* not initialised); the key is the user's own, or that for all users.     *)
RequestsComplete ==
    sent # NULL =>
        /\ sent.options.uri = Address
        /\ sent.options.api_key \in {sent.user, PUBLIC}
        /\ sent.options.api_key = sent.options.user_id

(* The number that decimal digits mean.                                    *)
Decimal(text) == FoldLeft(LAMBDA n, c : 10 * n + (c - 48), 0, text)

(* A plan that is written in decimal digits, and fits an int, is the plan  *)
(* of the request, with zeros before it or without; none is the free plan. *)
PlansAsWritten ==
    sent # NULL =>
        LET text == sent.text
        IN  IF text = NULL THEN sent.options.max_reqs_sec = 1
            ELSE (\A p \in DOMAIN text : text[p] \in 48 .. 57) /\ Decimal(text) <= IntMax
                    => sent.options.max_reqs_sec = Decimal(text)

(* All requests with one key are counted in one entry, whichever users     *)
(* share the key and however mappings come and go.                         *)
OneEntryPerKey ==
    \A k \in Owner : asked[k] = IF k \in DOMAIN ocgeo_hash THEN ocgeo_hash[k].calls ELSE 0

(* When the function ends it has shown every entry that there was when it  *)
(* began, and none twice, though queries between its calls counted more    *)
(* requests and added entries; no row is older than the first call.        *)
ReportsEveryEntry ==
    stats # NULL =>
        /\ \A n, m \in DOMAIN stats.rows : stats.rows[n].key = stats.rows[m].key => n = m
        /\ ~stats.open => DOMAIN stats.old \subseteq {row.key : row \in Range(stats.rows)}
        /\ \A row \in Range(stats.rows) :
              /\ row.key \in DOMAIN stats.old => row.calls >= stats.old[row.key].calls
              /\ row.failed \in 0 .. row.calls
              /\ row.calls <= asked[row.key]

(* ocgeo_fdw.c:453: an entry without a reset time is shown with NULL.      *)
NoResetIsNull == ~crashed
=============================================================================
