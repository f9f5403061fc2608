------------------------------- MODULE Options -------------------------------
(***************************************************************************)
(* ocgeo_fdw.c: the options of servers, tables and user mappings: what     *)
(* ocgeo_fdw_validator lets into the catalogs, and what ocgeoGetOptions    *)
(* reads from them for a query.  CREATE and ALTER give the validator the   *)
(* whole list of options that an object would have.                        *)
(*                                                                         *)
(* The text of a number is a sequence of bytes, read by strtol in the one  *)
(* place and by atoi in the other; an address or a key stands for itself.  *)
(***************************************************************************)
EXTENDS Integers, Sequences, SequencesExt, FiniteSets

CONSTANTS
    NULL,
    User,      \* the users
    PUBLIC,    \* the owner of the mapping for all users
    Address,   \* the uri of the server
    Given,     \* bound: the names of the options that commands give
    Text,      \* bound: the texts of numbers
    IntMax,    \* INT_MAX
    LongMax,   \* LONG_MAX
    Commands   \* bound: the CREATE and ALTER commands

ASSUME WidthAssumption == IntMax \in Nat /\ LongMax \in Nat /\ IntMax <= LongMax
ASSUME TextAssumption  == Text \subseteq Seq(0 .. 255) /\ NULL \notin Text

VARIABLES
    server,    \* the options of the server, NULL if it does not exist
    mapping,   \* mapping[o]: those of the mapping that o owns
    commands   \* the number of commands

catalog_vars == <<server, mapping, commands>>

Owner == User \union {PUBLIC}
-----------------------------------------------------------------------------
(* strtol and atoi.                                                        *)

Digit(c) == CASE c \in 48 .. 57 -> c - 48 [] c \in 97 .. 102 -> c - 87
              [] c \in 65 .. 70 -> c - 55 [] OTHER -> 99
IsDigitAt(text, p, base) == p \in DOMAIN text /\ Digit(text[p]) < base

(* The number that digits make, and no more than one beyond LONG_MAX.      *)
Magnitude(digits, base) ==
    FoldLeft(LAMBDA n, c : Min({LongMax + 1, n * base + Digit(c)}), 0, digits)

(* strtol: white space, a sign, a prefix that tells the base if that is 0, *)
(* digits.  end: how many bytes are read, 0 if there is no digit.          *)
Strtol(text, givenBase) ==
    LET past(S, p) == Min({q \in p .. Len(text) + 1 : q \in DOMAIN text => text[q] \notin S})
        sign   == past({32}, 1)
        start  == IF sign \in DOMAIN text /\ text[sign] \in {43, 45} THEN sign + 1 ELSE sign
        zero   == start \in DOMAIN text /\ text[start] = 48
        hex    == zero /\ start + 1 \in DOMAIN text /\ text[start + 1] \in {88, 120}
                       /\ IsDigitAt(text, start + 2, 16)
        base   == IF givenBase # 0 THEN givenBase ELSE IF hex THEN 16 ELSE IF zero THEN 8 ELSE 10
        first  == IF givenBase = 0 /\ hex THEN start + 2 ELSE start
        end    == Min({q \in first .. Len(text) + 1 : ~IsDigitAt(text, q, base)}) - 1
        size   == Magnitude(SubSeq(text, first, end), base)
    IN  [end   |-> IF end < first THEN 0 ELSE end,
         value |-> IF start > sign /\ text[sign] = 45 THEN -size ELSE Min({size, LongMax})]

(* The value of a long in an int, which takes 2 * (INT_MAX + 1) values.    *)
ToInt(n) == ((n + IntMax + 1) % (2 * (IntMax + 1))) - (IntMax + 1)

Atoi(text) == ToInt(Strtol(text, 10).value)
-----------------------------------------------------------------------------
(* ocgeo_fdw_validator.                                                    *)

valid_options ==
    [uri          |-> [context |-> "server",  required |-> TRUE],
     api_key      |-> [context |-> "mapping", required |-> TRUE],
     max_reqs_sec |-> [context |-> "mapping", required |-> FALSE],
     max_reqs_day |-> [context |-> "mapping", required |-> FALSE]]

Numeric == {"max_reqs_sec", "max_reqs_day"}

(* An empty text is refused, and one that is not read to its end; the test *)
(* for a negative number is of an unsigned one, and refuses none.          *)
ValidNumber(text) == text # << >> /\ Strtol(text, 0).end = Len(text)

Allowed(context, name) == name \in DOMAIN valid_options /\ valid_options[name].context = context

(* Mutant of Validator: an option of any object is allowed.                *)
ValidatorAnywhere(context, options) ==
    /\ \A name \in DOMAIN options :
          /\ name \in DOMAIN valid_options
          /\ name \in Numeric => ValidNumber(options[name])
    /\ \A name \in DOMAIN valid_options :
          Allowed(context, name) /\ valid_options[name].required => name \in DOMAIN options

(* Mutant of Validator: it does not ask for the options that are required. *)
ValidatorLax(context, options) ==
    \A name \in DOMAIN options :
        /\ Allowed(context, name)
        /\ name \in Numeric => ValidNumber(options[name])

Validator(context, options) ==
    /\ \A name \in DOMAIN options :
          /\ Allowed(context, name)
          /\ name \in Numeric => ValidNumber(options[name])
    /\ \A name \in DOMAIN valid_options :
          Allowed(context, name) /\ valid_options[name].required => name \in DOMAIN options
-----------------------------------------------------------------------------
(* CREATE, ALTER and DROP.  The key in the mapping of o is o's own.        *)

Values(name, o) == CASE name = "uri" -> {Address} [] name = "api_key" -> {o} [] OTHER -> Text

(* Lists[o]: the lists of options that commands on o's mapping may give.   *)
Lists ==
    [o \in Owner |->
        UNION {{f \in [names -> UNION {Values(n, o) : n \in names}] :
                    \A n \in names : f[n] \in Values(n, o)} : names \in SUBSET Given}]

InitCatalogs ==
    /\ server = NULL
    /\ mapping = [o \in Owner |-> NULL]
    /\ commands = 0

Command == commands < Commands /\ commands' = commands + 1

SetServer(options) ==
    /\ Command
    /\ Validator("server", options)
    /\ server' = options
    /\ UNCHANGED mapping

SetMapping(o, options) ==
    /\ Command
    /\ server # NULL
    /\ Validator("mapping", options)
    /\ mapping' = [mapping EXCEPT ![o] = options]
    /\ UNCHANGED server

DropMapping(o) ==
    /\ mapping[o] # NULL
    /\ mapping' = [mapping EXCEPT ![o] = NULL]
    /\ UNCHANGED <<server, commands>>

Catalogs ==
    \/ \E options \in Lists[PUBLIC] : SetServer(options)
    \/ \E o \in Owner : \/ \E options \in Lists[o] : SetMapping(o, options)
                        \/ DropMapping(o)
-----------------------------------------------------------------------------
(* ocgeoGetOptions: the mapping is the user's or that for all users, and   *)
(* without one the query ends with an error.                               *)

MappingOwner(u) == IF mapping[u] # NULL THEN u ELSE PUBLIC

HasOptions(u) == server # NULL /\ mapping[MappingOwner(u)] # NULL

(* list_concat: no name is an option of both.                              *)
ListConcat(f, g) == [n \in DOMAIN f \union DOMAIN g |-> IF n \in DOMAIN f THEN f[n] ELSE g[n]]

(* Mutant of Number: the text is read as the validator reads it.           *)
NumberPrefixed(all, name, default) ==
    IF name \in DOMAIN all THEN ToInt(Strtol(all[name], 0).value) ELSE default

(* A number that is not given leaves the default.                          *)
Number(all, name, default) == IF name \in DOMAIN all THEN Atoi(all[name]) ELSE default

(* An address or a key that is not given is what was in memory.            *)
GetOptions(u) ==
    LET owner == MappingOwner(u)
        all   == ListConcat(mapping[owner], server)
        string(name) == IF name \in DOMAIN all THEN all[name] ELSE NULL
    IN  [user_id |-> owner, uri |-> string("uri"), api_key |-> string("api_key"),
         max_reqs_sec |-> Number(all, "max_reqs_sec", 1),
         max_reqs_day |-> Number(all, "max_reqs_day", 2500)]
=============================================================================
