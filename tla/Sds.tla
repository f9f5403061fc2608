-------------------------------- MODULE Sds --------------------------------
(***************************************************************************)
(* sds.c: dynamic strings.  A string is a block of memory with a header    *)
(* of one of five types: the wider its type, the longer the string may be. *)
(* Type 0 (SDS_TYPE_5) keeps the length only; the others keep the length   *)
(* and the number of bytes allocated.  Any byte may occur in a string, the *)
(* null byte too, and one more null byte follows the last.                 *)
(*                                                                         *)
(* The state is one string, on which a program calls one function after    *)
(* another, and the value that the string should have according to the     *)
(* comments on these functions.  A call that runs out of memory changes    *)
(* nothing, so that it needs no action.                                    *)
(***************************************************************************)
EXTENDS Integers, Sequences, SequencesExt

CONSTANTS
    Byte,        \* the bytes a program may write
    NUL,         \* the null byte, one of them
    Junk,        \* a byte of memory that was never written
    MaxLen,      \* MaxLen[t]: the largest length that a header of type t holds
    MaxPrealloc, \* SDS_MAX_PREALLOC
    StaticBuf,   \* the size of the buffer of sdscatvprintf on the stack
    Args,        \* the strings that a program passes
    Seps,        \* the separators and sets of characters that it passes
    Positions,   \* the positions that it passes to sdsrange
    MaxString    \* bound: the length of the string

Types == 0 .. 4

ASSUME BytesOK ==
    /\ NUL \in Byte
    /\ Junk \notin Byte
    /\ Args \subseteq Seq(Byte)
    /\ Seps \subseteq Seq(Byte \ {NUL})
    /\ Positions \subseteq Int
ASSUME SizesOK ==
    /\ MaxLen \in [Types -> Nat]
    /\ \A t \in 1 .. 4 : MaxLen[t - 1] < MaxLen[t]
    /\ MaxPrealloc \in Nat
    /\ StaticBuf \in Nat /\ StaticBuf >= 2
    /\ MaxString \in Nat
    /\ 2 * MaxString + MaxPrealloc + 3 <= MaxLen[4]
    /\ \A t \in Args : Len(t) <= MaxString

VARIABLES s,     \* the string: its header and its memory
          value  \* history: the value that it should have
vars == <<s, value>>

-----------------------------------------------------------------------------
(* Memory and headers.                                                     *)

(* A field of the header keeps the low bits of what is stored.             *)
Field(type, n) == n % (MaxLen[type] + 1)

Header(type, len, alloc, mem) ==
    [type  |-> type,
     len   |-> Field(type, len),
     alloc |-> IF type = 0 THEN 0 ELSE Field(type, alloc),
     mem   |-> mem]

(* n bytes of memory that starts with the given bytes.                     *)
Block(bytes, n) == [i \in 1 .. n |-> IF i <= Len(bytes) THEN bytes[i] ELSE Junk]

(* Writing beyond the end of a block destroys it.                          *)
Put(mem, at, bytes) ==
    IF at + Len(bytes) > Len(mem) THEN << >>
    ELSE [i \in 1 .. Len(mem) |-> IF i - at \in 1 .. Len(bytes) THEN bytes[i - at]
                                  ELSE mem[i]]

CString(bytes) == bytes \o <<NUL>>

(* strlen.                                                                 *)
Strlen(bytes) == SelectInSeq(CString(bytes), LAMBDA c : c = NUL) - 1

(* Mutant of ReqType: one byte too many in each header but the last.       *)
ReqTypeLoose(n) == Min({t \in 0 .. 3 : n <= MaxLen[t] + 1} \union {4})

(* sdsReqType: the narrowest header for n bytes, or the widest.            *)
ReqType(n) == Min({t \in 0 .. 3 : n <= MaxLen[t]} \union {4})

Avail(str) == IF str.type = 0 THEN 0 ELSE str.alloc - str.len
Alloc(str) == IF str.type = 0 THEN str.len ELSE str.alloc

SetLen(str, n)   == [str EXCEPT !.len = Field(str.type, n)]
SetAlloc(str, n) == IF str.type = 0 THEN str
                    ELSE [str EXCEPT !.alloc = Field(str.type, n)]

(* Write bytes at the end of the first n and make this the new end.        *)
EndWith(str, n, bytes) ==
    SetLen([str EXCEPT !.mem = Put(@, n, CString(bytes))], n + Len(bytes))

(* The bytes of the string.                                                *)
Content(str) == SubSeq(str.mem, 1, str.len)

-----------------------------------------------------------------------------
(* The functions.                                                          *)

(* A string that is to grow has a header that tells how much room it has.  *)
NotType5(type) == IF type = 0 THEN 1 ELSE type

Newlen(init) ==
    LET n == Len(init)
    IN  Header(IF n = 0 THEN NotType5(ReqType(n)) ELSE ReqType(n), n, n, CString(init))

(* Mutant of Grown: the fixed amount, whatever is needed.                  *)
GrownFixed(need) == IF need < MaxPrealloc THEN 2 * need ELSE MaxPrealloc

(* Room for add more bytes: twice what is needed, or a fixed amount more.  *)
Grown(need) == IF need < MaxPrealloc THEN 2 * need ELSE need + MaxPrealloc

MakeRoomFor(str, add) ==
    LET newlen == Grown(str.len + add)
        type   == NotType5(ReqType(newlen))
        kept   == IF type = str.type THEN str.mem ELSE SubSeq(str.mem, 1, str.len + 1)
    IN  IF Avail(str) >= add THEN str
        ELSE Header(type, str.len, newlen, Block(kept, newlen + 1))

(* The header is kept when its type or one of more than a byte is needed.  *)
RemoveFreeSpace(str) ==
    LET type == ReqType(str.len)
        kept == SubSeq(str.mem, 1, str.len + 1)
    IN  CASE Avail(str) = 0 -> str
          [] Avail(str) # 0 /\ (type = str.type \/ type > 1) ->
                SetAlloc([str EXCEPT !.mem = kept], str.len)
          [] OTHER -> Header(type, str.len, str.len, kept)

(* The assertions of sdsIncrLen.                                           *)
MayIncr(str, n) ==
    \/ n < 0 /\ str.len >= -n
    \/ str.type = 0 /\ n > 0 /\ str.len + n <= MaxLen[0]
    \/ str.type # 0 /\ n >= 0 /\ str.alloc - str.len >= n

IncrLen(str, n) == EndWith(str, str.len + n, << >>)

Growzero(str, n) ==
    IF n <= str.len THEN str
    ELSE EndWith(MakeRoomFor(str, n - str.len), str.len, [i \in 1 .. n - str.len |-> NUL])

Catlen(str, t) == EndWith(MakeRoomFor(str, Len(t)), str.len, t)

(* Mutant of Cpylen: room is made for as much as is missing of alloc.      *)
CpylenShort(str, t) ==
    EndWith(IF Alloc(str) < Len(t) THEN MakeRoomFor(str, Len(t) - Alloc(str)) ELSE str,
            0, t)

Cpylen(str, t) ==
    EndWith(IF Alloc(str) < Len(t) THEN MakeRoomFor(str, Len(t) - str.len) ELSE str,
            0, t)

(* sdscatvprintf: the buffer is doubled until its last but one byte is     *)
(* still null.  What vsnprintf leaves out is lost.                         *)
Buffer(out, fmt) ==
    LET first == IF 2 * fmt > StaticBuf THEN 2 * fmt ELSE StaticBuf
        size[i \in 0 .. Len(out)] == IF i = 0 THEN first ELSE 2 * size[i - 1]
    IN  CHOOSE b \in {size[i] : i \in 0 .. Len(out)} :
            /\ Len(out) <= b - 2
            /\ \A i \in 0 .. Len(out) : size[i] < b => Len(out) > size[i] - 2

Vsnprintf(out, size) == IF Len(out) < size THEN out ELSE SubSeq(out, 1, size - 1)

Catprintf(str, out, fmt) == Catlen(str, Vsnprintf(out, Buffer(out, fmt)))

(* sdscatfmt: a literal byte, or a string of any length, one by one.  The  *)
(* length grows with each; the end is marked after the last.  The room     *)
(* made first, for the format's size, is a guess: here it is any number.   *)
CatPiece(str, piece) ==
    LET one == IF Avail(str) = 0 THEN MakeRoomFor(str, 1) ELSE str
        all == IF Avail(one) < Len(piece) THEN MakeRoomFor(one, Len(piece)) ELSE one
    IN  SetLen([all EXCEPT !.mem = Put(@, str.len, piece)], str.len + Len(piece))

Catfmt(str, pieces, guess) ==
    LET first == MakeRoomFor(str, str.len + guess)
        done[i \in 0 .. Len(pieces)] ==
            IF i = 0 THEN first ELSE CatPiece(done[i - 1], pieces[i])
        all == done[Len(pieces)]
    IN  EndWith(all, all.len, << >>)

(* sdstrim.  strchr finds the null byte in every set.                      *)
In(c, cset) == c \in {cset[i] : i \in DOMAIN cset} \union {NUL}

Trim(str, cset) ==
    LET keep  == {i \in 1 .. str.len : ~In(str.mem[i], cset)}
        first == CHOOSE i \in keep : \A j \in keep : i <= j
        last  == CHOOSE i \in keep : \A j \in keep : i >= j
    IN  EndWith(str, 0, IF keep = {} THEN << >> ELSE SubSeq(str.mem, first, last))

(* sdsrange: negative positions count from the end.                        *)
Position(i, len) == IF i >= 0 THEN i ELSE IF len + i < 0 THEN 0 ELSE len + i

RangeOf(str, from, to) ==
    LET start  == Position(from, str.len)
        end    == IF Position(to, str.len) >= str.len THEN str.len - 1
                  ELSE Position(to, str.len)
        newlen == IF start > end THEN 0 ELSE end - start + 1
    IN  IF str.len = 0 THEN str
        ELSE EndWith(str, 0, SubSeq(str.mem, start + 1, start + newlen))

Clear(str)     == EndWith(str, 0, << >>)
Updatelen(str) == SetLen(str, Strlen(str.mem))

-----------------------------------------------------------------------------
(* sdssplitlen and sdsjoinsds.                                             *)

(* Mutant of Slots: there need not be room for the final element.          *)
SlotsTight(slots, elements) == IF slots < elements + 1 THEN 2 * slots ELSE slots

(* Room for the next element and the final one.                            *)
Slots(slots, elements) == IF slots < elements + 2 THEN 2 * slots ELSE slots

(* The iteration of the loop at j, which a separator found before it may   *)
(* have skipped.  safe tells that no element was written out of bounds.    *)
SplitAt(str, sep, found, j) ==
    LET slots == Slots(found.slots, Len(found.tokens))
    IN  CASE j < found.start -> found
          [] j >= found.start /\ SubSeq(str, j + 1, j + Len(sep)) # sep ->
                [found EXCEPT !.slots = slots]
          [] OTHER ->
                [start  |-> j + Len(sep),
                 slots  |-> slots,
                 tokens |-> Append(found.tokens, SubSeq(str, found.start + 1, j)),
                 safe   |-> found.safe /\ Len(found.tokens) < slots]

Splitlen(str, sep) ==
    LET none  == [start |-> 0, slots |-> 5, tokens |-> << >>, safe |-> TRUE]
        tries == IF Len(str) < Len(sep) THEN 0 ELSE Len(str) - (Len(sep) - 1)
        after[j \in 0 .. tries] ==
            IF j = 0 THEN none ELSE SplitAt(str, sep, after[j - 1], j - 1)
        found == after[tries]
    IN  IF Len(str) = 0 THEN none
        ELSE [found EXCEPT !.tokens = Append(@, SubSeq(str, found.start + 1, Len(str))),
                           !.safe   = @ /\ Len(found.tokens) < found.slots]

Joinsds(argv, sep) ==
    LET join[j \in 0 .. Len(argv)] ==
            IF j = 0 THEN Newlen(<< >>)
            ELSE Catlen(Catlen(join[j - 1], argv[j]), IF j # Len(argv) THEN sep ELSE << >>)
    IN  join[Len(argv)]

-----------------------------------------------------------------------------
(* The values that the comments promise.                                   *)

(* What is left of v without the bytes of cset at its ends; the null byte  *)
(* counts as one of them.                                                  *)
Trimmed(v, cset) ==
    CHOOSE w \in {SubSeq(v, i, j) : i \in 1 .. Len(v) + 1, j \in 0 .. Len(v)} :
        /\ w # << >> => ~In(w[1], cset) /\ ~In(w[Len(w)], cset)
        /\ \E i, j \in 0 .. Len(v) :
              /\ v = SubSeq(v, 1, i) \o w \o SubSeq(v, j + 1, Len(v))
              /\ \A k \in 1 .. i : In(v[k], cset)
              /\ \A k \in j + 1 .. Len(v) : In(v[k], cset)

(* The bytes of v whose position, from 0 or, negative, from its end, is    *)
(* between the two; a position before the first is the first.              *)
Between(v, from, to) ==
    LET in == {i \in 1 .. Len(v) :
                  Position(from, Len(v)) <= i - 1 /\ i - 1 <= Position(to, Len(v))}
    IN  IF in = {} THEN << >> ELSE SubSeq(v, Min(in), Max(in))

Becomes(str, v) == /\ Len(v) <= MaxString
                   /\ s' = str
                   /\ value' = v

Init == \E init \in Args : s = Newlen(init) /\ value = init

(* The string is replaced by a new one, or by a copy of itself.            *)
New(init) == Becomes(Newlen(init), init)
Dup       == Becomes(Newlen(Content(s)), value)

Cat(t)    == Becomes(Catlen(s, t), value \o t)
Copy(t)   == Becomes(Cpylen(s, t), t)
Zero(n)   == Becomes(Growzero(s, n), value \o [i \in 1 .. n - Len(value) |-> NUL])

(* What is printed has no null byte, as it is passed as a C string.        *)
Printf(out, fmt) == /\ Strlen(out) = Len(out)
                   /\ Becomes(Catprintf(s, out, fmt), value \o out)

(* The format "%S", a byte, "%S", with one argument twice.                 *)
Format(t, c, guess) == Becomes(Catfmt(s, <<t, <<c>>, t>>, guess),
                               value \o t \o <<c>> \o t)

(* The schema in the comment on sdsIncrLen: make room for n bytes, write   *)
(* some of them, and tell how many.                                        *)
Read(n, t) ==
    LET room == MakeRoomFor(s, n)
        full == [room EXCEPT !.mem = Put(@, room.len, t)]
    IN  /\ Len(t) \in 1 .. n
        /\ Len(s.mem) > 0
        /\ MayIncr(full, Len(t))
        /\ Becomes(IncrLen(full, Len(t)), value \o t)

Cut(n)      == MayIncr(s, -n) /\ Becomes(IncrLen(s, -n), SubSeq(value, 1, Len(value) - n))
Shrink      == Becomes(RemoveFreeSpace(s), value)
TrimSet(c)  == Becomes(Trim(s, c), Trimmed(value, c))
Part(i, j)  == Becomes(RangeOf(s, i, j), Between(value, i, j))
Empty       == Becomes(Clear(s), << >>)
Update      == Becomes(Updatelen(s), SubSeq(value, 1, Strlen(value)))

Next ==
    \/ \E t \in Args : New(t) \/ Cat(t) \/ Copy(t)
    \/ \E n \in 0 .. MaxString : Zero(n) \/ Cut(n)
    \/ \E t \in Args, n \in 0 .. 2 : Printf(t, n)
    \/ \E t \in Args, c \in Byte \ {NUL}, n \in {0, 2} : Format(t, c, n)
    \/ \E t \in Args, n \in 1 .. 3 : Read(n, t)
    \/ \E c \in Seps : TrimSet(c)
    \/ \E i, j \in Positions : Part(i, j)
    \/ Dup \/ Shrink \/ Empty \/ Update

Spec == Init /\ [][Next]_vars
-----------------------------------------------------------------------------
(* Properties.                                                             *)

(* The header is true of the memory behind it: the block holds what the    *)
(* header says is allocated, and the null byte; no operation has written   *)
(* outside of it.                                                          *)
TypeOK ==
    /\ s \in [type : Types, len : Nat, alloc : Nat, mem : Seq(Byte \union {Junk})]
    /\ value \in Seq(Byte)
    /\ s.len <= MaxLen[s.type]
    /\ IF s.type = 0 THEN s.alloc = 0 /\ s.len < Len(s.mem)
       ELSE s.len <= s.alloc /\ s.alloc <= MaxLen[s.type] /\ Len(s.mem) = s.alloc + 1

(* Whatever the operations before, which grew, shrank, moved and cut it:   *)
(* the string is what the comments on these operations say, and a null     *)
(* byte follows it.                                                        *)
Represents == /\ Len(s.mem) > s.len
              /\ Content(s) = value
              /\ s.mem[s.len + 1] = NUL

(* There is always the room that sdsMakeRoomFor promised: the assertions   *)
(* of sdsIncrLen hold where its comment's schema calls it.                 *)
RoomAsPromised ==
    \A n \in 1 .. MaxString : \A k \in 1 .. n : MayIncr(MakeRoomFor(s, n), k)

(* Splitting a string and joining the tokens gives the string, no token    *)
(* holds the separator, and no token was written out of the array.         *)
Occurs(sep, v) == \E i \in 0 .. Len(v) - Len(sep) : SubSeq(v, i + 1, i + Len(sep)) = sep

SplitJoin ==
    \A sep \in Seps \ {<< >>} :
        LET split == Splitlen(value, sep)
        IN  /\ split.safe
            /\ Content(Joinsds(split.tokens, sep)) = value
            /\ \A i \in DOMAIN split.tokens : ~Occurs(sep, split.tokens[i])
=============================================================================
