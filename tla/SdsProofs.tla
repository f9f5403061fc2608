----------------------------- MODULE SdsProofs -----------------------------
(***************************************************************************)
(* What holds of dynamic strings of any length, with headers of any        *)
(* widths: a string is what its functions promise, and stays within its    *)
(* memory.                                                                 *)
(***************************************************************************)
EXTENDS Sds, ListTheorems

Bytes == Byte \union {Junk}

(* The header is true of the memory.                                       *)
Sound(str) ==
    /\ str \in [type : Types, len : Nat, alloc : Nat, mem : Seq(Bytes)]
    /\ str.len <= MaxLen[str.type]
    /\ IF str.type = 0 THEN str.alloc = 0 /\ str.len < Len(str.mem)
       ELSE str.len <= str.alloc /\ str.alloc <= MaxLen[str.type] /\ Len(str.mem) = str.alloc + 1

(* The memory begins with given bytes.                                     *)
Begins(mem, v) == v \in Seq(Byte) /\ \A i \in 1 .. Len(v) : mem[i] = v[i]

(* A string that has the value v, its end marked or not yet.               *)
Open(str, v)  == Sound(str) /\ Begins(str.mem, v) /\ str.len = Len(v)
Holds(str, v) == Open(str, v) /\ str.mem[Len(v) + 1] = NUL
-----------------------------------------------------------------------------
(* Headers.                                                                *)

(* The widths of the types.                                                *)
LEMMA Widths ==
    /\ \A t \in Types : MaxLen[t] \in Nat /\ MaxLen[t] <= MaxLen[4]
    /\ MaxLen[0] < MaxLen[1]
    /\ MaxPrealloc \in Nat /\ MaxString \in Nat
    /\ 2 * MaxString + MaxPrealloc + 3 <= MaxLen[4]
<1>1. \A t \in 1 .. 4 : MaxLen[t - 1] < MaxLen[t]
    BY SizesOK
<1>2. /\ MaxLen[0] < MaxLen[1] /\ MaxLen[1] < MaxLen[2] /\ MaxLen[2] < MaxLen[3]
      /\ MaxLen[3] < MaxLen[4]
    <2>1. /\ 1 \in 1 .. 4 /\ 2 \in 1 .. 4 /\ 3 \in 1 .. 4 /\ 4 \in 1 .. 4
          /\ 1 - 1 = 0 /\ 2 - 1 = 1 /\ 3 - 1 = 2 /\ 4 - 1 = 3
        OBVIOUS
    <2>q. QED BY <1>1, <2>1
<1>3. \A t \in Types : MaxLen[t] \in Nat
    BY SizesOK
<1>4. ASSUME NEW t \in Types  PROVE MaxLen[t] <= MaxLen[4]
    <2>1. t \in {0, 1, 2, 3, 4} /\ \A u \in {0, 1, 2, 3, 4} : u \in Types
        BY DEF Types
    <2>2. /\ MaxLen[0] \in Nat /\ MaxLen[1] \in Nat /\ MaxLen[2] \in Nat
          /\ MaxLen[3] \in Nat /\ MaxLen[4] \in Nat
        BY <1>3, <2>1
    <2>q. QED BY <1>2, <2>1, <2>2
<1>q. QED BY <1>2, <1>3, <1>4, SizesOK

(* A field keeps what its width can hold.                                  *)
LEMMA FieldExact ==
    ASSUME NEW t \in Types, NEW n \in Nat, n <= MaxLen[t]  PROVE Field(t, n) = n
<1> DEFINE m == MaxLen[t]
<1>1. m \in Nat
    BY Widths
<1> HIDE DEF m
<1>2. n % (m + 1) = n
    BY <1>1 DEF m
<1>q. QED BY <1>2 DEF Field, m

(* The header that sdsReqType chooses is wide enough.                      *)
LEMMA ReqTypeFits ==
    ASSUME NEW n \in Nat, n <= MaxLen[4]
    PROVE  /\ ReqType(n) \in Types /\ n <= MaxLen[ReqType(n)]
           /\ NotType5(ReqType(n)) \in Types \ {0} /\ n <= MaxLen[NotType5(ReqType(n))]
<1> DEFINE T == {t \in 0 .. 3 : n <= MaxLen[t]} \union {4}
<1>1. T \subseteq Nat /\ T # {}
    OBVIOUS
<1>2. \A t \in T : t \in Types /\ n <= MaxLen[t]
    BY DEF Types
<1> HIDE DEF T
<1>3. \E x \in T : \A y \in T : x <= y
    BY <1>1, LeastNatural
<1>4. Min(T) \in T
    BY <1>3 DEF Min
<1>5. ReqType(n) = Min(T)
    BY DEF ReqType, T
<1>6. ReqType(n) \in Types /\ n <= MaxLen[ReqType(n)]
    BY <1>2, <1>4, <1>5
<1>7. /\ NotType5(ReqType(n)) \in Types \ {0}
      /\ NotType5(ReqType(n)) # ReqType(n) => ReqType(n) = 0 /\ NotType5(ReqType(n)) = 1
    <2> DEFINE r == ReqType(n)
    <2>1. r \in Types /\ 1 \in Types
        BY <1>6 DEF Types
    <2>2. NotType5(r) = IF r = 0 THEN 1 ELSE r
        BY DEF NotType5
    <2> HIDE DEF r
    <2>q. QED BY <2>1, <2>2 DEF r
<1>8. n <= MaxLen[NotType5(ReqType(n))]
    <2>1. MaxLen[0] \in Nat /\ MaxLen[1] \in Nat /\ MaxLen[0] < MaxLen[1]
        <3>1. 0 \in Types /\ 1 \in Types
            BY DEF Types
        <3>q. QED BY <3>1, Widths
    <2>q. QED BY <1>6, <1>7, <2>1
<1>q. QED BY <1>6, <1>7, <1>8

(* A new header in front of memory for alloc bytes.                        *)
LEMMA HeaderSound ==
    ASSUME NEW t \in Types, NEW len \in Nat, NEW alloc \in Nat, len <= alloc,
           alloc <= MaxLen[t], NEW mem \in Seq(Bytes), Len(mem) = alloc + 1
    PROVE  /\ Sound(Header(t, len, alloc, mem))
           /\ Header(t, len, alloc, mem).type = t
           /\ Header(t, len, alloc, mem).len = len
           /\ t # 0 => Header(t, len, alloc, mem).alloc = alloc
           /\ Header(t, len, alloc, mem).mem = mem
<1>1. MaxLen[t] \in Nat
    BY Widths
<1>2. Field(t, len) = len /\ Field(t, alloc) = alloc
    BY <1>1, FieldExact
<1>q. QED BY <1>1, <1>2 DEF Header, Sound
-----------------------------------------------------------------------------
(* Memory.                                                                 *)

(* Writing within a block changes what is written, and no more.            *)
LEMMA PutInside ==
    ASSUME NEW mem \in Seq(Bytes), NEW at \in Nat, NEW bytes \in Seq(Bytes),
           at + Len(bytes) <= Len(mem)
    PROVE  /\ Put(mem, at, bytes) \in Seq(Bytes)
           /\ Len(Put(mem, at, bytes)) = Len(mem)
           /\ \A i \in 1 .. at : Put(mem, at, bytes)[i] = mem[i]
           /\ \A i \in 1 .. Len(bytes) : Put(mem, at, bytes)[at + i] = bytes[i]
<1> DEFINE n == Len(mem)  k == Len(bytes)
           p == [i \in 1 .. n |-> IF i - at \in 1 .. k THEN bytes[i - at] ELSE mem[i]]
<1>1. n \in Nat /\ k \in Nat /\ at + k <= n
    OBVIOUS
<1>2. Put(mem, at, bytes) = p
    BY <1>1 DEF Put
<1>3. (\A i \in 1 .. n : mem[i] \in Bytes) /\ (\A i \in 1 .. k : bytes[i] \in Bytes)
    BY ElementOfSeq
<1> HIDE DEF n, k
<1>4. \A i \in 1 .. n : p[i] \in Bytes
    BY <1>3
<1>5. p \in Seq(Bytes) /\ Len(p) = n
    <2> HIDE DEF p
    <2>1. p \in [1 .. n -> Bytes]
        BY <1>4 DEF p
    <2>q. QED BY <1>1, <2>1
<1>6. \A i \in 1 .. at : i \in 1 .. n /\ i - at \notin 1 .. k
    BY <1>1
<1>7. \A i \in 1 .. k : at + i \in 1 .. n /\ (at + i) - at = i
    BY <1>1
<1>8. (\A i \in 1 .. at : p[i] = mem[i]) /\ (\A i \in 1 .. k : p[at + i] = bytes[i])
    BY <1>6, <1>7
<1> HIDE DEF p
<1>q. QED BY <1>2, <1>5, <1>8 DEF n, k

(* A block begins with the bytes that it is made of.                       *)
LEMMA BlockOf ==
    ASSUME NEW bytes \in Seq(Bytes), NEW n \in Nat
    PROVE  /\ Block(bytes, n) \in Seq(Bytes) /\ Len(Block(bytes, n)) = n
           /\ \A i \in 1 .. n : i <= Len(bytes) => Block(bytes, n)[i] = bytes[i]
<1> DEFINE b == Block(bytes, n)
<1>1. \A i \in 1 .. n : i <= Len(bytes) => bytes[i] \in Bytes
    <2>1. \A i \in 1 .. Len(bytes) : bytes[i] \in Bytes
        BY ElementOfSeq
    <2>q. QED BY <2>1
<1>2. b \in [1 .. n -> Bytes]
    BY <1>1 DEF Block, Bytes
<1>3. \A i \in 1 .. n : i <= Len(bytes) => b[i] = bytes[i]
    BY DEF Block
<1> HIDE DEF b
<1>4. b \in Seq(Bytes) /\ Len(b) = n
    BY <1>2
<1>q. QED BY <1>3, <1>4 DEF b

(* The first n bytes of memory.                                            *)
LEMMA FirstBytes ==
    ASSUME NEW V, NEW mem \in Seq(V), NEW n \in Nat, n <= Len(mem)
    PROVE  /\ SubSeq(mem, 1, n) \in Seq(V) /\ Len(SubSeq(mem, 1, n)) = n
           /\ \A i \in 1 .. n : SubSeq(mem, 1, n)[i] = mem[i]
<1>1. \A i \in 1 .. n : mem[i] \in V
    BY ElementOfSeq
<1>2. /\ SubSeq(mem, 1, n) \in Seq(V)
      /\ Len(SubSeq(mem, 1, n)) = IF 1 <= n THEN n - 1 + 1 ELSE 0
      /\ \A i \in 1 .. n - 1 + 1 : SubSeq(mem, 1, n)[i] = mem[1 + i - 1]
    BY <1>1, SubSeqProperties
<1>3. n - 1 + 1 = n /\ \A i \in 1 .. n : 1 + i - 1 = i
    OBVIOUS
<1>q. QED BY <1>2, <1>3
-----------------------------------------------------------------------------
(* The end of a string is marked where it is written.                      *)
LEMMA EndWithHolds ==
    ASSUME NEW str, Sound(str), NEW w, Begins(str.mem, w), NEW t \in Seq(Byte),
           Len(w) + Len(t) <= Alloc(str)
    PROVE  Holds(EndWith(str, Len(w), t), w \o t)
<1> DEFINE n == Len(w)  k == Len(t)  c == CString(t)  r == EndWith(str, n, t)
           m == Put(str.mem, n, c)
<1>1. /\ n \in Nat /\ k \in Nat /\ w \in Seq(Byte)
      /\ str.mem \in Seq(Bytes) /\ str.type \in Types /\ str.len \in Nat /\ str.alloc \in Nat
      /\ str = [type |-> str.type, len |-> str.len, alloc |-> str.alloc, mem |-> str.mem]
    BY DEF Sound, Begins
<1>2. n + k + 1 <= Len(str.mem) /\ n + k <= MaxLen[str.type]
      /\ (IF str.type = 0 THEN n + k < Len(str.mem) ELSE n + k <= str.alloc)
    <2>1. MaxLen[str.type] \in Nat /\ Len(str.mem) \in Nat
        BY <1>1, Widths
    <2>q. QED BY <1>1, <2>1 DEF Alloc, Sound
<1>3. c \in Seq(Bytes) /\ Len(c) = k + 1 /\ c[k + 1] = NUL /\ \A i \in 1 .. k : c[i] = t[i]
    <2>1. NUL \in Bytes /\ Byte \subseteq Bytes
        BY BytesOK DEF Bytes
    <2>2. t \in Seq(Bytes)
        BY <2>1
    <2>q. QED BY <2>1, <2>2 DEF CString
<1> HIDE DEF n, k, c
<1>4. /\ m \in Seq(Bytes) /\ Len(m) = Len(str.mem)
      /\ \A i \in 1 .. n : m[i] = str.mem[i]
      /\ \A i \in 1 .. k + 1 : m[n + i] = c[i]
    BY SMTT(30), <1>1, <1>2, <1>3, PutInside
<1>5. r = [str EXCEPT !.mem = m, !.len = n + k]
    <2>1. Field(str.type, n + k) = n + k
        BY SMTT(30), <1>1, <1>2, FieldExact
    <2> HIDE DEF m
    <2>2. EndWith(str, n, t) = SetLen([str EXCEPT !.mem = m], n + k)
        BY DEF EndWith, m, c, k
    <2>q. QED BY <1>1, <2>1, <2>2 DEF SetLen
<1> HIDE DEF m, r
<1>6. /\ r.type = str.type /\ r.len = n + k /\ r.alloc = str.alloc /\ r.mem = m
      /\ r \in [type : Types, len : Nat, alloc : Nat, mem : Seq(Bytes)]
    <2>1. r = [type |-> str.type, len |-> n + k, alloc |-> str.alloc, mem |-> m]
        BY <1>1, <1>5
    <2>2. n + k \in Nat
        BY <1>1
    <2>q. QED BY <1>1, <1>4, <2>1, <2>2
<1>7. Sound(r)
    BY <1>1, <1>2, <1>4, <1>6 DEF Sound
<1> DEFINE v == w \o t
<1>8. v \in Seq(Byte) /\ Len(v) = n + k
      /\ (\A i \in 1 .. n : v[i] = w[i]) /\ (\A i \in 1 .. k : v[n + i] = t[i])
    BY <1>1 DEF n, k
<1> HIDE DEF v
<1>9. \A i \in 1 .. n + k : m[i] = v[i]
    <2> SUFFICES ASSUME NEW i \in 1 .. n + k PROVE m[i] = v[i]
        OBVIOUS
    <2>1. CASE i \in 1 .. n
        BY <1>4, <1>8, <2>1 DEF Begins, n
    <2>2. CASE i \notin 1 .. n
        <3>1. i - n \in 1 .. k /\ n + (i - n) = i /\ i - n \in 1 .. k + 1
            BY <1>1, <2>2
        <3>2. PICK j \in 1 .. k : j \in 1 .. k + 1 /\ i = n + j
            BY <3>1
        <3>3. m[n + j] = c[j] /\ v[n + j] = t[j] /\ c[j] = t[j]
            BY <1>3, <1>4, <1>8, <3>2
        <3>q. QED BY <3>2, <3>3
    <2>q. QED BY <2>1, <2>2
<1>10. m[n + k + 1] = NUL
    <2>1. k + 1 \in 1 .. k + 1 /\ n + (k + 1) = n + k + 1
        BY <1>1
    <2>q. QED BY <1>3, <1>4, <2>1
<1>q. QED BY <1>6, <1>7, <1>8, <1>9, <1>10 DEF Holds, Open, Begins, r, v, n

(* A new string.                                                           *)
LEMMA NewlenHolds ==
    ASSUME NEW init \in Seq(Byte), Len(init) <= MaxLen[4]
    PROVE  Holds(Newlen(init), init)
<1> DEFINE n == Len(init)  c == CString(init)
           type == IF n = 0 THEN NotType5(ReqType(n)) ELSE ReqType(n)
<1>1. n \in Nat /\ type \in Types /\ n <= MaxLen[type]
    BY ReqTypeFits
<1>2. c \in Seq(Bytes) /\ Len(c) = n + 1 /\ c[n + 1] = NUL /\ \A i \in 1 .. n : c[i] = init[i]
    <2>1. NUL \in Bytes /\ Byte \subseteq Bytes
        BY BytesOK DEF Bytes
    <2>2. init \in Seq(Bytes)
        BY <2>1
    <2>q. QED BY <2>1, <2>2 DEF CString
<1>3. Newlen(init) = Header(type, n, n, c)
    BY DEF Newlen
<1> HIDE DEF n, c, type
<1>4. Sound(Header(type, n, n, c)) /\ Header(type, n, n, c).len = n /\ Header(type, n, n, c).mem = c
    BY <1>1, <1>2, HeaderSound
<1>q. QED BY <1>2, <1>3, <1>4 DEF Holds, Open, Begins, n

(* Room is made as promised, and the string keeps its value.               *)
LEMMA RoomMade ==
    ASSUME NEW str, NEW v, Open(str, v), NEW add \in Nat, Len(v) + add + MaxPrealloc <= MaxLen[4]
    PROVE  /\ Open(MakeRoomFor(str, add), v)
           /\ str.mem[Len(v) + 1] = NUL => MakeRoomFor(str, add).mem[Len(v) + 1] = NUL
           /\ Avail(MakeRoomFor(str, add)) \in Nat /\ Avail(MakeRoomFor(str, add)) >= add
           /\ add > 0 => MakeRoomFor(str, add).type # 0
<1>1. /\ v \in Seq(Byte) /\ Len(v) \in Nat /\ str.len = Len(v)
      /\ str.mem \in Seq(Bytes) /\ str.type \in Types /\ str.alloc \in Nat
      /\ Len(str.mem) \in Nat /\ str.len + 1 <= Len(str.mem)
      /\ MaxLen[4] \in Nat /\ MaxPrealloc \in Nat /\ MaxLen[str.type] \in Nat
    <2>1. 4 \in Types /\ MaxLen[4] \in Nat /\ MaxPrealloc \in Nat
        BY Widths DEF Types
    <2>2. str.type \in Types /\ MaxLen[str.type] \in Nat
        BY Widths DEF Open, Sound
    <2>q. QED BY <2>1, <2>2 DEF Open, Sound, Begins
<1>2. Avail(str) \in Nat
    BY <1>1 DEF Avail, Open, Sound
<1>3. CASE Avail(str) >= add
    <2>1. MakeRoomFor(str, add) = str
        BY <1>3 DEF MakeRoomFor
    <2>2. add > 0 => str.type # 0
        BY <1>3 DEF Avail
    <2>q. QED BY <1>2, <1>3, <2>1, <2>2
<1>4. CASE ~(Avail(str) >= add)
    <2> DEFINE n == Len(v)  newlen == Grown(n + add)  type == NotType5(ReqType(newlen))
               kept == IF type = str.type THEN str.mem ELSE SubSeq(str.mem, 1, n + 1)
               block == Block(kept, newlen + 1)
               room == Header(type, n, newlen, block)
    <2>1. newlen \in Nat /\ n + add <= newlen /\ newlen <= n + add + MaxPrealloc
        BY <1>1 DEF Grown
    <2>2. newlen <= MaxLen[4]
        <3> HIDE DEF newlen
        <3>q. QED BY <1>1, <2>1
    <2> HIDE DEF newlen
    <2>3. type \in Types \ {0} /\ newlen <= MaxLen[type]
        BY <2>1, <2>2, ReqTypeFits
    <2>4. MakeRoomFor(str, add) = room
        BY <1>1, <1>4 DEF MakeRoomFor, newlen
    <2> HIDE DEF type
    <2>5. kept \in Seq(Bytes) /\ Len(kept) >= n + 1 /\ \A i \in 1 .. n + 1 : kept[i] = str.mem[i]
        <3>1. n + 1 \in Nat /\ n + 1 <= Len(str.mem)
            BY <1>1
        <3>2. /\ SubSeq(str.mem, 1, n + 1) \in Seq(Bytes) /\ Len(SubSeq(str.mem, 1, n + 1)) = n + 1
              /\ \A i \in 1 .. n + 1 : SubSeq(str.mem, 1, n + 1)[i] = str.mem[i]
            BY <1>1, <3>1, FirstBytes
        <3>q. QED BY <1>1, <3>1, <3>2
    <2> HIDE DEF kept, n
    <2>6. /\ block \in Seq(Bytes) /\ Len(block) = newlen + 1
          /\ \A i \in 1 .. newlen + 1 : i <= Len(kept) => block[i] = kept[i]
        <3>1. newlen + 1 \in Nat
            BY <2>1
        <3>q. QED BY <2>5, <3>1, BlockOf
    <2> HIDE DEF block
    <2>7. n \in Nat /\ n <= newlen
        BY <1>1, <2>1 DEF n
    <2>8. Sound(room) /\ room.type = type /\ room.len = n /\ room.alloc = newlen /\ room.mem = block
        BY <2>1, <2>3, <2>6, <2>7, HeaderSound
    <2> HIDE DEF room
    <2>9. \A i \in 1 .. n + 1 : block[i] = str.mem[i]
        <3>1. ASSUME NEW i \in 1 .. n + 1  PROVE i \in 1 .. newlen + 1 /\ i <= Len(kept)
            <4>1. Len(kept) \in Nat
                BY <2>5
            <4>q. QED BY <2>1, <2>5, <2>7, <4>1
        <3>q. QED BY <2>5, <2>6, <3>1
    <2>10. Begins(room.mem, v)
        <3>1. \A i \in 1 .. n : i \in 1 .. n + 1
            BY <2>7
        <3>q. QED BY <1>1, <2>8, <2>9, <3>1 DEF Begins, Open, n
    <2>11. Avail(room) = newlen - n /\ newlen - n >= add /\ newlen - n \in Nat
        BY <2>1, <2>3, <2>7, <2>8 DEF Avail, n
    <2>12. str.mem[n + 1] = NUL => room.mem[n + 1] = NUL
        <3>1. n + 1 \in 1 .. n + 1
            BY <2>7
        <3>q. QED BY <2>8, <2>9, <3>1
    <2>q. QED BY <2>3, <2>4, <2>8, <2>10, <2>11, <2>12 DEF Open, n
<1>q. QED BY <1>3, <1>4
-----------------------------------------------------------------------------
(* The functions: each makes the value that its comment promises.          *)

(* What follows from the invariant of an open string.                      *)
LEMMA Basics ==
    ASSUME NEW str, NEW v, Open(str, v)
    PROVE  /\ v \in Seq(Byte) /\ Len(v) \in Nat /\ str.len = Len(v)
           /\ str.type \in Types /\ str.alloc \in Nat /\ str.mem \in Seq(Bytes)
           /\ Len(v) + 1 <= Len(str.mem) /\ Len(str.mem) \in Nat
           /\ Alloc(str) \in Nat /\ Len(v) <= Alloc(str)
           /\ Avail(str) \in Nat /\ Alloc(str) = Len(v) + Avail(str)
           /\ Begins(str.mem, << >>)
<1>1. /\ v \in Seq(Byte) /\ Len(v) \in Nat /\ str.len = Len(v)
      /\ str.type \in Types /\ str.alloc \in Nat /\ str.mem \in Seq(Bytes)
      /\ Len(str.mem) \in Nat
    BY DEF Open, Sound, Begins
<1>2. Len(v) + 1 <= Len(str.mem)
    BY <1>1 DEF Open, Sound
<1>3. /\ Alloc(str) \in Nat /\ Len(v) <= Alloc(str)
      /\ Avail(str) \in Nat /\ Alloc(str) = Len(v) + Avail(str)
    BY <1>1 DEF Open, Sound, Alloc, Avail
<1>4. Begins(str.mem, << >>)
    BY DEF Begins
<1>q. QED BY <1>1, <1>2, <1>3, <1>4

(* Concatenation.                                                          *)
LEMMA CatlenHolds ==
    ASSUME NEW str, NEW v, Holds(str, v), NEW t \in Seq(Byte),
           Len(v) + Len(t) + MaxPrealloc <= MaxLen[4]
    PROVE  Holds(Catlen(str, t), v \o t)
<1> DEFINE m == MakeRoomFor(str, Len(t))
<1>1. Len(t) \in Nat /\ Open(str, v) /\ str.len = Len(v)
    BY DEF Holds, Open
<1>2. Open(m, v) /\ Avail(m) \in Nat /\ Avail(m) >= Len(t)
    BY <1>1, RoomMade
<1>3. Catlen(str, t) = EndWith(m, Len(v), t)
    BY <1>1 DEF Catlen
<1> HIDE DEF m
<1>4. Len(v) + Len(t) <= Alloc(m)
    BY <1>1, <1>2, Basics
<1>q. QED BY <1>2, <1>3, <1>4, EndWithHolds DEF Open

(* Assignment.                                                             *)
LEMMA CpylenHolds ==
    ASSUME NEW str, NEW v, Holds(str, v), NEW t \in Seq(Byte), Len(t) + MaxPrealloc <= MaxLen[4]
    PROVE  Holds(Cpylen(str, t), t)
<1> DEFINE m == IF Alloc(str) < Len(t) THEN MakeRoomFor(str, Len(t) - str.len) ELSE str
<1>1. Len(t) \in Nat /\ Open(str, v)
    BY DEF Holds
<1>2. Open(m, v) /\ Len(t) <= Alloc(m)
    <2>1. CASE Alloc(str) < Len(t)
        <3> DEFINE add == Len(t) - str.len
        <3>1. add \in Nat /\ Len(v) + add = Len(t)
            BY <1>1, <2>1, Basics
        <3> HIDE DEF add
        <3>2. Open(MakeRoomFor(str, add), v) /\ Avail(MakeRoomFor(str, add)) >= add
            BY <1>1, <3>1, RoomMade
        <3>3. Alloc(MakeRoomFor(str, add)) = Len(v) + Avail(MakeRoomFor(str, add))
              /\ Avail(MakeRoomFor(str, add)) \in Nat /\ Len(v) \in Nat
            BY <3>2, Basics
        <3>4. Len(t) <= Alloc(MakeRoomFor(str, add))
            BY <3>1, <3>2, <3>3
        <3>q. QED BY <2>1, <3>2, <3>4 DEF add
    <2>2. CASE ~(Alloc(str) < Len(t))
        <3>1. Alloc(str) \in Nat
            BY <1>1, Basics
        <3>q. QED BY <1>1, <2>2, <3>1
    <2>q. QED BY <2>1, <2>2
<1>3. Cpylen(str, t) = EndWith(m, 0, t)
    BY DEF Cpylen
<1> HIDE DEF m
<1>4. Begins(m.mem, << >>) /\ Len(<< >>) = 0 /\ << >> \o t = t
    BY <1>2, Basics
<1>5. Holds(EndWith(m, Len(<< >>), t), << >> \o t)
    <2>1. Len(<< >>) + Len(t) <= Alloc(m)
        BY <1>1, <1>2, <1>4
    <2>2. Sound(m)
        BY <1>2 DEF Open
    <2>q. QED BY <1>4, <2>1, <2>2, EndWithHolds
<1>q. QED BY <1>3, <1>4, <1>5

(* Null bytes at the end.                                                  *)
LEMMA GrowzeroHolds ==
    ASSUME NEW str, NEW v, Holds(str, v), NEW n \in Nat,
           n + MaxPrealloc <= MaxLen[4], Len(v) + MaxPrealloc <= MaxLen[4]
    PROVE  Holds(Growzero(str, n), v \o [i \in 1 .. n - Len(v) |-> NUL])
<1> DEFINE z == [i \in 1 .. n - Len(v) |-> NUL]
<1>1. str.len = Len(v) /\ Len(v) \in Nat /\ v \in Seq(Byte)
    BY Basics DEF Holds
<1>2. CASE n <= Len(v)
    <2>1. 1 .. n - Len(v) = {}
        BY <1>1, <1>2
    <2>2. z \in Seq(Byte) /\ z = << >>
        <3>1. z \in [1 .. 0 -> Byte]
            BY <2>1
        <3> HIDE DEF z
        <3>2. z \in Seq(Byte) /\ Len(z) = 0
            BY <3>1
        <3>q. QED BY <3>2, EmptySeq
    <2> HIDE DEF z
    <2>3. v \o z = v
        BY <1>1, <2>2, ConcatEmptySeq
    <2>4. Growzero(str, n) = str
        BY <1>1, <1>2 DEF Growzero
    <2>q. QED BY <2>3, <2>4 DEF z
<1>3. CASE n > Len(v)
    <2>1. z \in Seq(Byte) /\ Len(z) = n - Len(v)
        <3>1. n - Len(v) \in Nat /\ NUL \in Byte
            BY <1>1, <1>3, BytesOK
        <3>q. QED BY <3>1
    <2>2. Growzero(str, n) = Catlen(str, z)
        BY <1>1, <1>3, <2>1 DEF Growzero, Catlen
    <2> HIDE DEF z
    <2>3. Len(v) + Len(z) = n
        BY <1>1, <2>1
    <2>4. Len(v) + Len(z) + MaxPrealloc <= MaxLen[4]
        BY <2>3
    <2>5. Holds(Catlen(str, z), v \o z)
        BY <2>1, <2>4, CatlenHolds
    <2>q. QED BY <2>2, <2>5 DEF z
<1>q. QED BY <1>1, <1>2, <1>3

(* What is left of the memory is given back.                               *)
LEMMA RemoveHolds ==
    ASSUME NEW str, NEW v, Holds(str, v), Len(v) <= MaxLen[4]
    PROVE  Holds(RemoveFreeSpace(str), v)
<1> DEFINE n == Len(v)  type == ReqType(n)  kept == SubSeq(str.mem, 1, n + 1)
<1>1. /\ Open(str, v) /\ n \in Nat /\ str.len = n /\ str.type \in Types
      /\ str.mem \in Seq(Bytes) /\ n + 1 <= Len(str.mem) /\ Avail(str) \in Nat
      /\ str = [type |-> str.type, len |-> str.len, alloc |-> str.alloc, mem |-> str.mem]
      /\ str.len <= MaxLen[str.type]
    BY Basics DEF Holds, Open, Sound
<1>2. type \in Types /\ n <= MaxLen[type]
    BY <1>1, ReqTypeFits
<1>3. /\ kept \in Seq(Bytes) /\ Len(kept) = n + 1
      /\ \A i \in 1 .. n + 1 : kept[i] = str.mem[i]
    <2>1. n + 1 \in Nat
        BY <1>1
    <2>q. QED BY <1>1, <2>1, FirstBytes
<1>4. Begins(kept, v) /\ kept[n + 1] = NUL
    <2>1. \A i \in 1 .. n : i \in 1 .. n + 1
        BY <1>1
    <2>2. n + 1 \in 1 .. n + 1
        BY <1>1
    <2> HIDE DEF kept
    <2>q. QED BY <1>1, <1>3, <2>1, <2>2 DEF Holds, Open, Begins
<1>5. CASE Avail(str) = 0
    <2>1. RemoveFreeSpace(str) = str
        BY <1>5 DEF RemoveFreeSpace
    <2>q. QED BY <2>1
<1>6. CASE Avail(str) # 0 /\ (type = str.type \/ type > 1)
    <2> DEFINE r == [type |-> str.type, len |-> n, alloc |-> n, mem |-> kept]
    <2>1. str.type # 0
        BY <1>6 DEF Avail
    <2>2. Field(str.type, n) = n
        BY <1>1, FieldExact
    <2>3. RemoveFreeSpace(str) = SetAlloc([str EXCEPT !.mem = kept], str.len)
        BY <1>1, <1>6 DEF RemoveFreeSpace
    <2> HIDE DEF kept, n
    <2>4. SetAlloc([str EXCEPT !.mem = kept], str.len) = r
        BY <1>1, <2>1, <2>2 DEF SetAlloc
    <2>5. Sound(r)
        BY <1>1, <1>3, <2>1 DEF Sound
    <2>q. QED BY <1>4, <2>3, <2>4, <2>5 DEF Holds, Open, n
<1>7. CASE Avail(str) # 0 /\ ~(type = str.type \/ type > 1)
    <2>1. RemoveFreeSpace(str) = Header(type, n, n, kept)
        BY <1>1, <1>7 DEF RemoveFreeSpace
    <2> HIDE DEF kept, n, type
    <2>2. /\ Sound(Header(type, n, n, kept)) /\ Header(type, n, n, kept).len = n
          /\ Header(type, n, n, kept).mem = kept
        BY <1>1, <1>2, <1>3, HeaderSound
    <2>q. QED BY <1>4, <2>1, <2>2 DEF Holds, Open, n
<1>q. QED BY <1>5, <1>6, <1>7

(* Writing beyond the value, before the length is set.                     *)
LEMMA PutHolds ==
    ASSUME NEW str, Sound(str), NEW w, Begins(str.mem, w), NEW t \in Seq(Byte),
           Len(w) + Len(t) <= Alloc(str)
    PROVE  /\ Sound([str EXCEPT !.mem = Put(@, Len(w), t)])
           /\ Begins([str EXCEPT !.mem = Put(@, Len(w), t)].mem, w \o t)
           /\ Alloc([str EXCEPT !.mem = Put(@, Len(w), t)]) = Alloc(str)
<1> DEFINE n == Len(w)  k == Len(t)  m == Put(str.mem, n, t)
           r == [str EXCEPT !.mem = Put(@, n, t)]
<1>1. /\ n \in Nat /\ k \in Nat /\ w \in Seq(Byte)
      /\ str.mem \in Seq(Bytes) /\ str.type \in Types /\ str.len \in Nat /\ str.alloc \in Nat
      /\ str = [type |-> str.type, len |-> str.len, alloc |-> str.alloc, mem |-> str.mem]
    BY DEF Sound, Begins
<1>2. n + k <= Len(str.mem)
    <2>1. MaxLen[str.type] \in Nat /\ Len(str.mem) \in Nat
        BY <1>1, Widths
    <2>q. QED BY <1>1, <2>1 DEF Alloc, Sound
<1>3. t \in Seq(Bytes)
    BY DEF Bytes
<1> HIDE DEF n, k
<1>4. /\ m \in Seq(Bytes) /\ Len(m) = Len(str.mem)
      /\ \A i \in 1 .. n : m[i] = str.mem[i]
      /\ \A i \in 1 .. k : m[n + i] = t[i]
    BY <1>1, <1>2, <1>3, PutInside DEF k
<1>5. r = [type |-> str.type, len |-> str.len, alloc |-> str.alloc, mem |-> m]
    <2>1. r = [str EXCEPT !.mem = m]
        OBVIOUS
    <2> HIDE DEF m, r
    <2>q. QED BY <1>1, <2>1
<1> HIDE DEF m, r
<1>6. Sound(r) /\ r.mem = m /\ Alloc(r) = Alloc(str)
    BY <1>1, <1>4, <1>5 DEF Sound, Alloc
<1> DEFINE v == w \o t
<1>7. v \in Seq(Byte) /\ Len(v) = n + k
      /\ (\A i \in 1 .. n : v[i] = w[i]) /\ (\A i \in 1 .. k : v[n + i] = t[i])
    BY <1>1 DEF n, k
<1> HIDE DEF v
<1>8. ASSUME NEW i \in 1 .. n + k  PROVE m[i] = v[i]
    <2>1. CASE i \in 1 .. n
        BY <1>4, <1>7, <2>1 DEF Begins, n
    <2>2. CASE i \notin 1 .. n
        <3>1. i - n \in 1 .. k /\ n + (i - n) = i
            BY <1>1, <2>2
        <3>2. PICK j \in 1 .. k : i = n + j
            BY <3>1
        <3>q. QED BY <1>4, <1>7, <3>2
    <2>q. QED BY <2>1, <2>2
<1>q. QED BY <1>6, <1>7, <1>8 DEF Begins, r, v, n

(* Reading into the room made for it, as the comment on sdsIncrLen does.   *)
LEMMA ReadHolds ==
    ASSUME NEW str, NEW v, Holds(str, v), NEW n \in Nat, NEW t \in Seq(Byte), Len(t) <= n,
           Len(v) + n + MaxPrealloc <= MaxLen[4]
    PROVE  LET room == MakeRoomFor(str, n)
               full == [room EXCEPT !.mem = Put(@, room.len, t)]
           IN  Holds(IncrLen(full, Len(t)), v \o t)
<1> DEFINE room == MakeRoomFor(str, n)
           full == [room EXCEPT !.mem = Put(@, Len(v), t)]
           w    == v \o t
<1>1. Open(room, v) /\ Avail(room) \in Nat /\ Avail(room) >= n
    BY RoomMade DEF Holds
<1> HIDE DEF room
<1>2. /\ v \in Seq(Byte) /\ Len(v) \in Nat /\ Len(t) \in Nat /\ room.len = Len(v)
      /\ Len(v) + Len(t) <= Alloc(room)
    BY <1>1, Basics
<1>3. Sound(full) /\ Begins(full.mem, w) /\ Alloc(full) = Alloc(room) /\ full.len = room.len
    <2>1. Sound(room) /\ Begins(room.mem, v)
        BY <1>1 DEF Open
    <2>2. full.len = room.len
        BY <1>1 DEF Open, Sound
    <2>q. QED BY <1>2, <2>1, <2>2, PutHolds
<1> HIDE DEF full
<1>4. w \in Seq(Byte) /\ Len(w) = Len(v) + Len(t) /\ w \o << >> = w
    <2>1. w \in Seq(Byte) /\ Len(w) = Len(v) + Len(t)
        BY <1>2
    <2> HIDE DEF w
    <2>q. QED BY <2>1, ConcatEmptySeq
<1> HIDE DEF w
<1>5. Holds(EndWith(full, Len(w), << >>), w \o << >>)
    <2>1. << >> \in Seq(Byte) /\ Len(<< >>) = 0 /\ Len(w) + 0 <= Alloc(full)
        BY <1>2, <1>3, <1>4
    <2>q. QED BY <1>3, <2>1, EndWithHolds
<1>6. IncrLen(full, Len(t)) = EndWith(full, Len(w), << >>)
    BY <1>2, <1>3, <1>4 DEF IncrLen
<1>q. QED BY <1>2, <1>4, <1>5, <1>6 DEF room, full, w

(* A piece of a format: written, and counted, but its end is not marked.   *)
LEMMA CatPieceOpen ==
    ASSUME NEW str, NEW v, Open(str, v), NEW t \in Seq(Byte),
           Len(v) + 1 + MaxPrealloc <= MaxLen[4], Len(v) + Len(t) + MaxPrealloc <= MaxLen[4]
    PROVE  Open(CatPiece(str, t), v \o t)
<1> DEFINE one == IF Avail(str) = 0 THEN MakeRoomFor(str, 1) ELSE str
           all == IF Avail(one) < Len(t) THEN MakeRoomFor(one, Len(t)) ELSE one
           put == [all EXCEPT !.mem = Put(@, Len(v), t)]
<1>1. Len(t) \in Nat /\ Len(v) \in Nat /\ str.len = Len(v)
    BY Basics
<1>2. Open(one, v)
    BY RoomMade
<1>3. CatPiece(str, t) = SetLen(put, Len(v) + Len(t))
    BY <1>1 DEF CatPiece
<1> HIDE DEF one
<1>4. Open(all, v) /\ Avail(all) \in Nat /\ Avail(all) >= Len(t)
    <2>1. Avail(one) \in Nat
        BY <1>2, Basics
    <2>2. CASE Avail(one) < Len(t)
        <3>1. all = MakeRoomFor(one, Len(t))
            BY <2>2
        <3>2. /\ Open(MakeRoomFor(one, Len(t)), v)
              /\ Avail(MakeRoomFor(one, Len(t))) \in Nat
              /\ Avail(MakeRoomFor(one, Len(t))) >= Len(t)
            BY <1>1, <1>2, RoomMade
        <3>q. QED BY <3>1, <3>2
    <2>3. CASE ~(Avail(one) < Len(t))
        BY <1>1, <1>2, <2>1, <2>3
    <2>q. QED BY <2>2, <2>3
<1> HIDE DEF all
<1>5. Len(v) + Len(t) <= Alloc(all)
    BY <1>1, <1>4, Basics
<1>6. Sound(put) /\ Begins(put.mem, v \o t) /\ Alloc(put) = Alloc(all)
    <2>1. Sound(all) /\ Begins(all.mem, v)
        BY <1>4 DEF Open
    <2>q. QED BY <1>5, <2>1, PutHolds
<1> HIDE DEF put
<1> DEFINE n == Len(v) + Len(t)  r == SetLen(put, n)
<1>7. n \in Nat /\ Len(v \o t) = n
    <2>1. v \in Seq(Byte)
        BY Basics
    <2>q. QED BY <1>1, <2>1
<1> HIDE DEF n
<1>8. n <= Alloc(put) /\ n <= MaxLen[put.type]
      /\ (put.type = 0 => n < Len(put.mem)) /\ (put.type # 0 => n <= put.alloc)
    <2>1. n <= Alloc(put)
        BY <1>5, <1>6 DEF n
    <2>2. MaxLen[put.type] \in Nat /\ put.len \in Nat /\ put.alloc \in Nat /\ Len(put.mem) \in Nat
        BY <1>6, Widths DEF Sound
    <2>q. QED BY <1>6, <1>7, <2>1, <2>2 DEF Sound, Alloc
<1>9. r = [type |-> put.type, len |-> n, alloc |-> put.alloc, mem |-> put.mem]
    <2>1. put.type \in Types
        BY <1>6 DEF Sound
    <2>2. Field(put.type, n) = n
        BY <1>7, <1>8, <2>1, FieldExact
    <2>3. put = [type |-> put.type, len |-> put.len, alloc |-> put.alloc, mem |-> put.mem]
        BY <1>6 DEF Sound
    <2>4. r = [put EXCEPT !.len = n]
        BY <2>2 DEF SetLen
    <2> HIDE DEF r
    <2>q. QED BY <2>3, <2>4
<1> HIDE DEF r
<1>10. Sound(r)
    BY <1>6, <1>7, <1>8, <1>9 DEF Sound
<1>11. r.mem = put.mem /\ r.len = n
    BY <1>9
<1>q. QED BY <1>3, <1>6, <1>7, <1>10, <1>11 DEF Open, r, n

(* A format of three pieces: a string, a byte, a string.                   *)
LEMMA CatfmtHolds ==
    ASSUME NEW str, NEW v, Holds(str, v), NEW a \in Seq(Byte), NEW b \in Seq(Byte),
           NEW c \in Seq(Byte), NEW guess \in Nat, Len(b) = 1,
           2 * Len(v) + guess + MaxPrealloc <= MaxLen[4],
           Len(((v \o a) \o b) \o c) + MaxPrealloc < MaxLen[4]
    PROVE  Holds(Catfmt(str, <<a, b, c>>, guess), ((v \o a) \o b) \o c)
<1> DEFINE pieces == <<a, b, c>>
           first  == MakeRoomFor(str, str.len + guess)
           Solves(f) == f = [i \in 0 .. Len(pieces) |->
                                IF i = 0 THEN first ELSE CatPiece(f[i - 1], pieces[i])]
           done   == CHOOSE f : Solves(f)
           p1 == v \o a
           p2 == p1 \o b
           p3 == p2 \o c
           all == done[Len(pieces)]
<1>1. Catfmt(str, pieces, guess) = EndWith(all, all.len, << >>)
    BY DEF Catfmt
<1>2. Len(pieces) = 3 /\ pieces[1] = a /\ pieces[2] = b /\ pieces[3] = c
    OBVIOUS
<1> HIDE DEF pieces
<1>3. Solves(done)
    <2> DEFINE f1 == CatPiece(first, a)  f2 == CatPiece(f1, b)  f3 == CatPiece(f2, c)
               f  == [i \in 0 .. 3 |-> IF i = 0 THEN first ELSE IF i = 1 THEN f1
                                       ELSE IF i = 2 THEN f2 ELSE f3]
    <2> HIDE DEF first, f1, f2, f3
    <2>1. f[0] = first /\ f[1] = f1 /\ f[2] = f2 /\ f[3] = f3
        OBVIOUS
    <2>2. f = [i \in 0 .. 3 |-> f[i]]
        OBVIOUS
    <2> HIDE DEF f
    <2>3. \A i \in 0 .. 3 : f[i] = IF i = 0 THEN first ELSE CatPiece(f[i - 1], pieces[i])
        <3> TAKE i \in 0 .. 3
        <3>1. CASE i = 0
            BY <2>1, <3>1
        <3>2. CASE i = 1
            BY <1>2, <2>1, <3>2 DEF f1
        <3>3. CASE i = 2
            BY <1>2, <2>1, <3>3 DEF f2
        <3>4. CASE i = 3
            BY <1>2, <2>1, <3>4 DEF f3
        <3>q. QED BY <3>1, <3>2, <3>3, <3>4
    <2>4. Solves(f)
        BY <1>2, <2>2, <2>3
    <2> HIDE DEF Solves
    <2>q. QED BY <2>4
<1> HIDE DEF done
<1>4. /\ done[0] = first /\ done[1] = CatPiece(done[0], a)
      /\ done[2] = CatPiece(done[1], b) /\ done[3] = CatPiece(done[2], c)
    <2>1. \A i \in 0 .. 3 : done[i] = IF i = 0 THEN first ELSE CatPiece(done[i - 1], pieces[i])
        BY <1>2, <1>3
    <2>2. /\ 0 \in 0 .. 3 /\ 1 \in 0 .. 3 /\ 2 \in 0 .. 3 /\ 3 \in 0 .. 3
          /\ 1 # 0 /\ 2 # 0 /\ 3 # 0 /\ 1 - 1 = 0 /\ 2 - 1 = 1 /\ 3 - 1 = 2
        OBVIOUS
    <2> HIDE DEF first
    <2>q. QED BY <1>2, <2>1, <2>2
<1>5. /\ v \in Seq(Byte) /\ Len(v) \in Nat /\ str.len = Len(v) /\ Open(str, v)
      /\ MaxLen[4] \in Nat /\ MaxPrealloc \in Nat
    BY Basics, SizesOK DEF Holds, Types
<1>6. /\ p1 \in Seq(Byte) /\ Len(p1) = Len(v) + Len(a)
      /\ p2 \in Seq(Byte) /\ Len(p2) = Len(p1) + Len(b)
      /\ p3 \in Seq(Byte) /\ Len(p3) = Len(p2) + Len(c)
      /\ Len(a) \in Nat /\ Len(c) \in Nat
    <2>1. p1 \in Seq(Byte) /\ Len(p1) = Len(v) + Len(a)
        BY <1>5, ConcatProperties
    <2> HIDE DEF p1
    <2>2. p2 \in Seq(Byte) /\ Len(p2) = Len(p1) + Len(b)
        BY <2>1, ConcatProperties
    <2> HIDE DEF p2
    <2>q. QED BY <2>1, <2>2
<1>7. Len(p3) + MaxPrealloc < MaxLen[4]
    OBVIOUS
<1>8. Open(first, v)
    <2> DEFINE add == str.len + guess
    <2>1. add \in Nat /\ Len(v) + add + MaxPrealloc <= MaxLen[4]
        BY <1>5
    <2> HIDE DEF add
    <2>2. Open(MakeRoomFor(str, add), v)
        BY <1>5, <2>1, RoomMade
    <2>q. QED BY <2>2 DEF add
<1> HIDE DEF first, p3
<1>9. Open(done[1], p1)
    <2>1. Len(v) + 1 + MaxPrealloc <= MaxLen[4] /\ Len(v) + Len(a) + MaxPrealloc <= MaxLen[4]
        <3> HIDE DEF p1, p2
        <3>q. QED BY SMTT(30), <1>5, <1>6, <1>7
    <2>q. QED BY <1>4, <1>8, <2>1, CatPieceOpen
<1> HIDE DEF p1
<1>10. Open(done[2], p2)
    <2>1. Len(p1) + 1 + MaxPrealloc <= MaxLen[4] /\ Len(p1) + Len(b) + MaxPrealloc <= MaxLen[4]
        <3> HIDE DEF p2
        <3>q. QED BY SMTT(30), <1>5, <1>6, <1>7
    <2>q. QED BY <1>4, <1>9, <2>1, CatPieceOpen
<1> HIDE DEF p2
<1>11. Open(done[3], p3)
    <2>1. Len(p2) + 1 + MaxPrealloc <= MaxLen[4] /\ Len(p2) + Len(c) + MaxPrealloc <= MaxLen[4]
        <3>1. Len(p1) \in Nat /\ Len(p2) \in Nat
            BY <1>6
        <3>q. QED BY SMTT(30), <1>5, <1>6, <1>7, <3>1
    <2>q. QED BY <1>4, <1>10, <2>1, CatPieceOpen DEF p3
<1>12. Holds(EndWith(all, Len(p3), << >>), p3 \o << >>)
    <2>1. all = done[3]
        BY <1>2
    <2>2. Sound(done[3]) /\ Begins(done[3].mem, p3) /\ Len(p3) \in Nat /\ Len(p3) <= Alloc(done[3])
        BY <1>11, Basics DEF Open
    <2>3. << >> \in Seq(Byte) /\ Len(<< >>) = 0 /\ Len(p3) + 0 <= Alloc(done[3])
        BY <2>2
    <2>4. Holds(EndWith(done[3], Len(p3), << >>), p3 \o << >>)
        BY <2>2, <2>3, EndWithHolds
    <2>q. QED BY <2>1, <2>4
<1>13. all.len = Len(p3) /\ p3 \o << >> = p3
    BY <1>2, <1>6, <1>11, Basics, ConcatEmptySeq
<1>q. QED BY <1>1, <1>12, <1>13 DEF pieces, p3, p2, p1

(* The buffer of sdscatvprintf becomes large enough for what is printed.   *)
LEMMA BufferFits ==
    ASSUME NEW out, Len(out) \in Nat, NEW fmt \in Nat
    PROVE  Vsnprintf(out, Buffer(out, fmt)) = out
<1> DEFINE L == Len(out)
           first == IF 2 * fmt > StaticBuf THEN 2 * fmt ELSE StaticBuf
           Solves(f) == f = [i \in 0 .. L |-> IF i = 0 THEN first ELSE 2 * f[i - 1]]
           size == CHOOSE f : Solves(f)
           Enough(b) == /\ L <= b - 2
                        /\ \A i \in 0 .. L : size[i] < b => L > size[i] - 2
           Sizes == {size[i] : i \in 0 .. L}
<1>1. Buffer(out, fmt) = CHOOSE b \in Sizes : Enough(b)
    BY DEF Buffer
<1>0. L \in Nat
    OBVIOUS
<1>2. first \in Nat /\ first >= 2
    BY SizesOK
<1> HIDE DEF first, L
<1> USE <1>0
<1>3. Solves(size)
    <2> DEFINE Step == [q \in Nat \X (1 .. L) |-> 2 * q[1]]
    <2>1. Step \in [Nat \X (1 .. L) -> Nat]
        OBVIOUS
    <2>2. \A x \in Nat, i \in 1 .. L : Step[<<x, i>>] = 2 * x
        OBVIOUS
    <2> HIDE DEF Step
    <2>3. PICK h \in [0 .. L -> Nat] : Follows(h, L, first, Step)
        BY <1>0, <1>2, <2>1, StepsExist
    <2>4. \A i \in 0 .. L : h[i] = IF i = 0 THEN first ELSE 2 * h[i - 1]
        <3> TAKE i \in 0 .. L
        <3>1. CASE i = 0
            BY <2>3, <3>1 DEF Follows
        <3>2. CASE i # 0
            <4>1. i \in 1 .. L /\ i - 1 \in 0 .. L
                BY <3>2
            <4>2. h[i - 1] \in Nat
                BY <4>1
            <4>q. QED BY <2>2, <2>3, <3>2, <4>1, <4>2 DEF Follows
        <3>q. QED BY <3>1, <3>2
    <2>5. h = [i \in 0 .. L |-> h[i]]
        OBVIOUS
    <2>6. Solves(h)
        BY <2>4, <2>5
    <2> HIDE DEF Solves
    <2>q. QED BY <2>6
<1> HIDE DEF size
<1>4. size[0] = first /\ \A i \in 1 .. L : size[i] = 2 * size[i - 1]
    <2>1. \A i \in 0 .. L : size[i] = IF i = 0 THEN first ELSE 2 * size[i - 1]
        BY <1>3
    <2>2. 0 \in 0 .. L /\ \A i \in 1 .. L : i \in 0 .. L /\ i # 0
        OBVIOUS
    <2>q. QED BY <2>1, <2>2
<1> DEFINE P == {i \in 0 .. L : size[i] \in Nat /\ size[i] >= i + 2}
<1>5. 0 .. L \subseteq P
    <2>1. 0 \in P
        BY <1>2, <1>4
    <2>2. \A i \in 1 .. L : i - 1 \in P => i \in P
        BY <1>4
    <2> HIDE DEF P
    <2>q. QED BY <2>1, <2>2, Along
<1>6. \A i \in 0 .. L : size[i] \in Nat /\ size[i] >= i + 2
    BY <1>5
<1> DEFINE T == {b \in Sizes : L <= b - 2}
<1>7. T \subseteq Nat /\ T # {}
    <2>1. L \in 0 .. L
        OBVIOUS
    <2>2. size[L] \in Nat /\ size[L] >= L + 2
        BY <1>6, <2>1
    <2>3. size[L] \in T
        BY <2>1, <2>2
    <2>4. ASSUME NEW b \in T  PROVE b \in Nat
        BY <1>6
    <2> HIDE DEF T
    <2>q. QED BY <2>3, <2>4
<1> HIDE DEF T
<1>8. PICK b \in T : \A c \in T : b <= c
    BY <1>7, LeastNatural
<1>9. b \in Sizes /\ Enough(b)
    <2>1. b \in Sizes /\ L <= b - 2 /\ b \in Nat
        BY <1>7, <1>8 DEF T
    <2>2. ASSUME NEW i \in 0 .. L, size[i] < b  PROVE L > size[i] - 2
        <3>1. size[i] \notin T /\ size[i] \in Nat
            BY <1>6, <1>8, <2>1, <2>2
        <3>2. ~(L <= size[i] - 2)
            BY <3>1 DEF T
        <3>q. QED BY <3>1, <3>2
    <2>q. QED BY <2>1, <2>2
<1> DEFINE B == CHOOSE c \in Sizes : Enough(c)
<1>10. B \in Sizes /\ Enough(B)
    <2> HIDE DEF Sizes, Enough
    <2>q. QED BY <1>9
<1>11. L < B
    <2>1. B \in Nat /\ L <= B - 2
        <3> HIDE DEF B
        <3>q. QED BY <1>6, <1>10
    <2> HIDE DEF B
    <2>q. QED BY <2>1
<1>q. QED BY <1>1, <1>11 DEF Vsnprintf, L
-----------------------------------------------------------------------------
(* The functions that cut.                                                 *)

(* A part of the value, in memory and in the value.                        *)
LEMMA PartOf ==
    ASSUME NEW str, NEW v, Open(str, v), NEW a \in Nat \ {0}, NEW b \in Nat, b <= Len(v)
    PROVE  /\ SubSeq(str.mem, a, b) = SubSeq(v, a, b)
           /\ SubSeq(v, a, b) \in Seq(Byte)
           /\ Len(SubSeq(v, a, b)) = (IF a <= b THEN b - a + 1 ELSE 0)
           /\ Len(SubSeq(v, a, b)) <= Len(v)
           /\ \A i \in 1 .. b - a + 1 : SubSeq(v, a, b)[i] = v[a + i - 1]
<1> DEFINE x == SubSeq(v, a, b)  y == SubSeq(str.mem, a, b)
<1>1. v \in Seq(Byte) /\ Len(v) \in Nat /\ str.mem \in Seq(Bytes)
    BY Basics
<1>2. \A i \in a .. b : i \in 1 .. Len(v) /\ str.mem[i] = v[i]
    BY <1>1 DEF Open, Begins
<1>3. \A i \in a .. b : v[i] \in Byte
    BY <1>1, <1>2, ElementOfSeq
<1>4. /\ x \in Seq(Byte) /\ Len(x) = (IF a <= b THEN b - a + 1 ELSE 0)
      /\ \A i \in 1 .. b - a + 1 : x[i] = v[a + i - 1]
    BY <1>3, SubSeqProperties
<1>5. \A i \in a .. b : str.mem[i] \in Byte
    BY <1>2, <1>3
<1>6. /\ y \in Seq(Byte) /\ Len(y) = (IF a <= b THEN b - a + 1 ELSE 0)
      /\ \A i \in 1 .. b - a + 1 : y[i] = str.mem[a + i - 1]
    BY <1>5, SubSeqProperties
<1> HIDE DEF x, y
<1>7. \A i \in 1 .. b - a + 1 : a + i - 1 \in a .. b
    OBVIOUS
<1>8. \A i \in 1 .. Len(x) : i \in 1 .. b - a + 1
    BY <1>4
<1>9. y = x
    BY <1>2, <1>4, <1>6, <1>7, <1>8, SeqEqual
<1>10. Len(x) <= Len(v)
    BY <1>1, <1>4
<1>q. QED BY <1>4, <1>9, <1>10 DEF x, y

(* What is shorter fits where the string was.                              *)
LEMMA KeptHolds ==
    ASSUME NEW str, NEW v, Holds(str, v), NEW t \in Seq(Byte), Len(t) <= Len(v)
    PROVE  Holds(EndWith(str, 0, t), t)
<1>1. /\ Open(str, v) /\ Len(t) \in Nat /\ Len(v) \in Nat /\ Alloc(str) \in Nat
      /\ Len(v) <= Alloc(str) /\ Sound(str) /\ Begins(str.mem, << >>)
    BY Basics DEF Holds, Open
<1>2. Len(<< >>) = 0 /\ << >> \o t = t /\ Len(<< >>) + Len(t) <= Alloc(str)
    BY <1>1
<1>3. Holds(EndWith(str, Len(<< >>), t), << >> \o t)
    BY <1>1, <1>2, EndWithHolds
<1>q. QED BY <1>2, <1>3

(* Any beginning of the value can be made the string.                      *)
LEMMA CutHolds ==
    ASSUME NEW str, NEW v, Holds(str, v), NEW n \in Nat, n <= Len(v)
    PROVE  /\ Holds(EndWith(str, n, << >>), SubSeq(v, 1, n))
           /\ str.mem[n + 1] = NUL => Holds(SetLen(str, n), SubSeq(v, 1, n))
           /\ SubSeq(v, 1, n) \in Seq(Byte) /\ Len(SubSeq(v, 1, n)) = n
<1> DEFINE w == SubSeq(v, 1, n)
<1>1. /\ Open(str, v) /\ v \in Seq(Byte) /\ Len(v) \in Nat /\ Alloc(str) \in Nat
      /\ Len(v) <= Alloc(str) /\ Sound(str) /\ Begins(str.mem, v) /\ str.len = Len(v)
    BY Basics DEF Holds, Open
<1>2. w \in Seq(Byte) /\ Len(w) = n /\ \A i \in 1 .. n : w[i] = v[i]
    BY <1>1, FirstBytes
<1> HIDE DEF w
<1>3. Begins(str.mem, w)
    <2>1. \A i \in 1 .. n : i \in 1 .. Len(v)
        BY <1>1
    <2>q. QED BY <1>1, <1>2, <2>1 DEF Begins
<1>4. Holds(EndWith(str, n, << >>), w)
    <2>1. << >> \in Seq(Byte) /\ Len(<< >>) = 0 /\ Len(w) + 0 <= Alloc(str) /\ w \o << >> = w
        BY <1>1, <1>2, ConcatEmptySeq
    <2>2. Holds(EndWith(str, Len(w), << >>), w \o << >>)
        BY <1>1, <1>3, <2>1, EndWithHolds
    <2>q. QED BY <1>2, <2>1, <2>2
<1>5. ASSUME str.mem[n + 1] = NUL  PROVE Holds(SetLen(str, n), w)
    <2> DEFINE r == SetLen(str, n)
    <2>1. /\ str.type \in Types /\ str.alloc \in Nat /\ str.mem \in Seq(Bytes)
          /\ Len(str.mem) \in Nat /\ MaxLen[str.type] \in Nat
          /\ str = [type |-> str.type, len |-> str.len, alloc |-> str.alloc, mem |-> str.mem]
        BY <1>1, Widths DEF Sound
    <2>2. n <= MaxLen[str.type]
        BY <1>1, <2>1 DEF Sound
    <2>3. Field(str.type, n) = n
        BY <2>1, <2>2, FieldExact
    <2>4. r = [str EXCEPT !.len = n]
        BY <2>3 DEF SetLen
    <2> HIDE DEF r
    <2>5. r = [type |-> str.type, len |-> n, alloc |-> str.alloc, mem |-> str.mem]
        BY <2>1, <2>4
    <2>6. Sound(r)
        BY <1>1, <2>1, <2>2, <2>5 DEF Sound
    <2>q. QED BY <1>2, <1>3, <1>5, <2>5, <2>6 DEF Holds, Open, r
<1>q. QED BY <1>2, <1>4, <1>5 DEF w

(* strlen finds the first null byte, in the memory as in the value.        *)
LEMMA StrlenOf ==
    ASSUME NEW str, NEW v, Holds(str, v)
    PROVE  /\ Strlen(str.mem) \in Nat /\ Strlen(str.mem) <= Len(v)
           /\ Strlen(str.mem) = Strlen(v) /\ str.mem[Strlen(str.mem) + 1] = NUL
<1> DEFINE n == Len(v)
           Nuls(bytes) == {i \in 1 .. Len(CString(bytes)) : CString(bytes)[i] = NUL}
<1>1. /\ v \in Seq(Byte) /\ n \in Nat /\ str.mem \in Seq(Bytes) /\ n + 1 <= Len(str.mem)
      /\ Len(str.mem) \in Nat /\ (\A i \in 1 .. n : str.mem[i] = v[i]) /\ str.mem[n + 1] = NUL
    BY Basics DEF Holds, Open, Begins
<1>2. NUL \in Bytes /\ NUL \in Byte
    BY BytesOK DEF Bytes
<1> HIDE DEF n
<1>3. Len(CString(v)) = n + 1 /\ CString(v)[n + 1] = NUL /\ \A i \in 1 .. n : CString(v)[i] = v[i]
    BY <1>1, <1>2 DEF CString, n
<1>4. /\ Len(CString(str.mem)) = Len(str.mem) + 1
      /\ \A i \in 1 .. Len(str.mem) : CString(str.mem)[i] = str.mem[i]
    BY <1>1, <1>2 DEF CString
<1>5. n + 1 \in Nuls(v) /\ Nuls(v) \subseteq Nat
    <2>1. n + 1 \in 1 .. n + 1 /\ 1 .. n + 1 \subseteq Nat
        BY <1>1
    <2>q. QED BY <1>3, <2>1
<1>6. \A i \in 1 .. n + 1 : i \in Nuls(v) <=> i \in Nuls(str.mem)
    <2> TAKE i \in 1 .. n + 1
    <2>1. i \in 1 .. Len(str.mem) /\ i \in 1 .. Len(str.mem) + 1
        BY <1>1
    <2>2. CString(v)[i] = str.mem[i]
        <3>1. CASE i \in 1 .. n
            BY <1>1, <1>3, <3>1
        <3>2. CASE i = n + 1
            BY <1>1, <1>3, <3>2
        <3>q. QED BY <1>1, <3>1, <3>2
    <2>q. QED BY <1>3, <1>4, <2>1, <2>2
<1>7. Nuls(str.mem) \subseteq Nat
    BY <1>4, <1>1
<1>8. ASSUME NEW bytes, Nuls(bytes) # {}  PROVE Strlen(bytes) = Min(Nuls(bytes)) - 1
    BY <1>8 DEF Strlen, SelectInSeq
<1>9. \A i \in Nuls(v) : i \in 1 .. n + 1
    BY <1>3
<1>10. \A i \in Nuls(v) : CString(v)[i] = NUL
    OBVIOUS
<1> DEFINE V == Nuls(v)  M == Nuls(str.mem)
<1>11. /\ V # {} /\ Strlen(v) = Min(V) - 1
       /\ M # {} /\ Strlen(str.mem) = Min(M) - 1
    <2> HIDE DEF Nuls
    <2>1. n + 1 \in 1 .. n + 1
        BY <1>1
    <2>q. QED BY <1>5, <1>6, <1>8, <2>1
<1> HIDE DEF Nuls, V, M
<1>12. PICK m \in V : \A i \in V : m <= i
    BY <1>5, LeastNatural DEF V
<1>13. m \in 1 .. n + 1 /\ m \in M /\ \A i \in M : m <= i
    <2>1. m \in 1 .. n + 1 /\ m \in M
        BY <1>6, <1>9, <1>12 DEF V, M
    <2>2. ASSUME NEW i \in M  PROVE m <= i
        <3>1. i \in Nat
            BY <1>7 DEF M
        <3>2. CASE i <= n + 1
            <4>1. i # 0
                BY <1>7, <2>1, <3>1 DEF M, Nuls
            <4>2. i \in 1 .. n + 1
                BY <1>1, <3>1, <3>2, <4>1
            <4>q. QED BY <1>6, <1>12, <4>2 DEF V, M
        <3>3. CASE i > n + 1
            BY <1>1, <2>1, <3>1, <3>3
        <3>q. QED BY <1>1, <3>1, <3>2, <3>3
    <2>q. QED BY <2>1, <2>2
<1>14. Min(V) = m /\ Min(M) = m
    <2>1. Min(V) \in V /\ \A i \in V : Min(V) <= i
        BY <1>12 DEF Min
    <2>2. Min(M) \in M /\ \A i \in M : Min(M) <= i
        BY <1>13 DEF Min
    <2>3. Min(V) \in Nat /\ Min(M) \in Nat /\ m \in Nat
        BY <1>5, <1>7, <1>13, <2>1, <2>2 DEF V, M
    <2>4. Min(V) <= m /\ m <= Min(V) /\ Min(M) <= m /\ m <= Min(M)
        BY <1>12, <1>13, <2>1, <2>2
    <2> HIDE DEF V, M
    <2>q. QED BY <2>3, <2>4
<1>15. str.mem[m] = NUL
    <2>1. CString(v)[m] = NUL
        BY <1>10, <1>12 DEF V
    <2>2. CASE m \in 1 .. n
        BY <1>1, <1>3, <2>1, <2>2
    <2>3. CASE m = n + 1
        BY <1>1, <2>3
    <2>q. QED BY <1>1, <1>13, <2>2, <2>3
<1>16. Strlen(v) = m - 1 /\ Strlen(str.mem) = m - 1 /\ (m - 1) + 1 = m /\ m - 1 \in Nat /\ m - 1 <= n
    BY <1>1, <1>11, <1>13, <1>14
<1>q. QED BY <1>15, <1>16 DEF n

(* A part of a sequence is what stands between its ends.                   *)
LEMMA Middle ==
    ASSUME NEW v \in Seq(Byte), NEW i \in 0 .. Len(v), NEW j \in 0 .. Len(v), NEW w \in Seq(Byte)
    PROVE  v = SubSeq(v, 1, i) \o w \o SubSeq(v, j + 1, Len(v))
               <=> i <= j /\ w = SubSeq(v, i + 1, j)
<1> DEFINE n == Len(v)  k == Len(w)  a == SubSeq(v, 1, i)  c == SubSeq(v, j + 1, n)
           m == SubSeq(v, i + 1, j)
<1>1. n \in Nat /\ k \in Nat /\ \A x \in 1 .. n : v[x] \in Byte
    BY ElementOfSeq
<1> HIDE DEF n, k
<1>2. i \in Nat /\ j \in Nat /\ i <= n /\ j <= n
    BY <1>1 DEF n
<1>3. a \in Seq(Byte) /\ Len(a) = i /\ \A x \in 1 .. i : a[x] = v[x]
    <2>1. i <= Len(v)
        BY <1>2 DEF n
    <2>q. QED BY <1>2, <2>1, FirstBytes
<1>4. c \in Seq(Byte) /\ Len(c) = n - j /\ \A x \in 1 .. n - j : c[x] = v[j + x]
    <2>1. \A x \in j + 1 .. n : v[x] \in Byte
        BY <1>1, <1>2
    <2>2. /\ c \in Seq(Byte) /\ Len(c) = IF j + 1 <= n THEN n - (j + 1) + 1 ELSE 0
          /\ \A x \in 1 .. n - (j + 1) + 1 : c[x] = v[j + 1 + x - 1]
        BY <1>1, <1>2, <2>1, SubSeqProperties
    <2>3. n - (j + 1) + 1 = n - j /\ \A x \in 1 .. n - j : j + 1 + x - 1 = j + x
        BY <1>1, <1>2
    <2>q. QED BY <1>1, <1>2, <2>2, <2>3
<1>5. /\ m \in Seq(Byte) /\ Len(m) = (IF i <= j THEN j - i ELSE 0)
      /\ \A x \in 1 .. j - i : m[x] = v[i + x]
    <2>1. \A x \in i + 1 .. j : v[x] \in Byte
        BY <1>1, <1>2
    <2>2. /\ m \in Seq(Byte) /\ Len(m) = IF i + 1 <= j THEN j - (i + 1) + 1 ELSE 0
          /\ \A x \in 1 .. j - (i + 1) + 1 : m[x] = v[i + 1 + x - 1]
        BY <1>1, <1>2, <2>1, SubSeqProperties
    <2>3. j - (i + 1) + 1 = j - i /\ \A x \in 1 .. j - i : i + 1 + x - 1 = i + x
        BY <1>1, <1>2
    <2>q. QED BY <1>1, <1>2, <2>2, <2>3
<1> HIDE DEF a, c, m
<1> DEFINE ab == a \o w  all == ab \o c
<1>6. /\ ab \in Seq(Byte) /\ Len(ab) = i + k
      /\ (\A x \in 1 .. i : ab[x] = a[x]) /\ (\A x \in 1 .. k : ab[i + x] = w[x])
    BY SMTT(30), <1>1, <1>3 DEF k
<1> HIDE DEF ab
<1>7. /\ all \in Seq(Byte) /\ Len(all) = i + k + (n - j)
      /\ (\A x \in 1 .. i + k : all[x] = ab[x]) /\ (\A x \in 1 .. n - j : all[i + k + x] = c[x])
    <2>1. n - j \in Nat /\ i + k \in Nat
        BY <1>1, <1>2
    <2>2. /\ all \in Seq(Byte) /\ Len(all) = Len(ab) + Len(c)
          /\ \A x \in 1 .. Len(ab) + Len(c) : all[x] = IF x <= Len(ab) THEN ab[x] ELSE c[x - Len(ab)]
        BY <1>4, <1>6, ConcatProperties
    <2> HIDE DEF all
    <2>3. ASSUME NEW x \in 1 .. i + k  PROVE all[x] = ab[x]
        BY <1>4, <1>6, <2>1, <2>2
    <2>4. ASSUME NEW x \in 1 .. n - j  PROVE all[i + k + x] = c[x]
        <3> DEFINE y == i + k + x
        <3>1. y \in 1 .. Len(ab) + Len(c) /\ ~(y <= Len(ab)) /\ y - Len(ab) = x
            BY <1>4, <1>6, <2>1
        <3> HIDE DEF y
        <3>2. all[y] = c[x]
            BY <2>2, <3>1
        <3>q. QED BY <3>2 DEF y
    <2>q. QED BY <1>4, <1>6, <2>2, <2>3, <2>4
<1> HIDE DEF all
<1>8. ASSUME v = all  PROVE i <= j /\ w = m
    <2>1. k = j - i
        BY <1>1, <1>2, <1>7, <1>8 DEF n
    <2>2. ASSUME NEW x \in 1 .. k  PROVE w[x] = m[x]
        <3>1. i + x \in 1 .. i + k /\ x \in 1 .. j - i
            BY <1>1, <1>2, <2>1
        <3>q. QED BY <1>5, <1>6, <1>7, <1>8, <3>1
    <2>3. Len(m) = k
        BY <1>1, <1>2, <1>5, <2>1
    <2>4. w = m
        BY <1>5, <2>2, <2>3, SeqEqual DEF k
    <2>q. QED BY <1>1, <1>2, <2>1, <2>4
<1>9. ASSUME i <= j, w = m  PROVE v = all
    <2>1. k = j - i /\ Len(all) = Len(v)
        BY <1>1, <1>2, <1>5, <1>7, <1>9 DEF k, n
    <2>2. ASSUME NEW x \in 1 .. Len(all)  PROVE v[x] = all[x]
        <3>0. x \in 1 .. n
            BY <2>1 DEF n
        <3>1. CASE x \in 1 .. i
            <4>1. x \in 1 .. i + k
                BY <1>1, <1>2, <3>1
            <4>q. QED BY <1>3, <1>6, <1>7, <3>1, <4>1
        <3>2. CASE x \in i + 1 .. j
            <4>1. x - i \in 1 .. k /\ i + (x - i) = x
                BY <1>1, <1>2, <2>1, <3>2
            <4>2. PICK y \in 1 .. k : x = i + y
                BY <4>1
            <4>3. y \in 1 .. j - i /\ i + y \in 1 .. i + k
                BY <1>1, <1>2, <2>1
            <4>q. QED BY <1>5, <1>6, <1>7, <1>9, <4>2, <4>3
        <3>3. CASE x \in j + 1 .. n
            <4>1. x - j \in 1 .. n - j /\ j + (x - j) = x
                BY <1>1, <1>2, <3>3
            <4>2. PICK y \in 1 .. n - j : x = j + y
                BY <4>1
            <4>3. i + k + y = j + y
                BY <1>2, <2>1
            <4>4. all[i + k + y] = c[y]
                BY <1>7
            <4>5. c[y] = v[j + y]
                BY <1>4
            <4>q. QED BY <4>2, <4>3, <4>4, <4>5
        <3>4. x \in 1 .. i \/ x \in i + 1 .. j \/ x \in j + 1 .. n
            BY <1>1, <1>2, <3>0
        <3>q. QED BY <3>1, <3>2, <3>3, <3>4
    <2>q. QED BY <1>7, <2>1, <2>2, SeqEqual
<1>q. QED BY <1>8, <1>9 DEF all, ab, a, c, m, n

(* sdstrim takes from both ends what is in the set.                        *)
LEMMA TrimHolds ==
    ASSUME NEW str, NEW v, Holds(str, v), NEW cset
    PROVE  /\ Holds(Trim(str, cset), Trimmed(v, cset))
           /\ Trimmed(v, cset) \in Seq(Byte) /\ Len(Trimmed(v, cset)) <= Len(v)
<1> DEFINE n == Len(v)
           keep  == {i \in 1 .. n : ~In(v[i], cset)}
           first == CHOOSE i \in keep : \A j \in keep : i <= j
           last  == CHOOSE i \in keep : \A j \in keep : i >= j
           kept  == IF keep = {} THEN << >> ELSE SubSeq(v, first, last)
           Parts == {SubSeq(v, i, j) : i \in 1 .. n + 1, j \in 0 .. n}
           Fits(w) ==
               /\ w # << >> => ~In(w[1], cset) /\ ~In(w[Len(w)], cset)
               /\ \E i, j \in 0 .. n :
                     /\ v = SubSeq(v, 1, i) \o w \o SubSeq(v, j + 1, n)
                     /\ \A k \in 1 .. i : In(v[k], cset)
                     /\ \A k \in j + 1 .. n : In(v[k], cset)
<1>1. /\ Open(str, v) /\ v \in Seq(Byte) /\ n \in Nat /\ str.len = n
      /\ \A i \in 1 .. n : str.mem[i] = v[i]
    BY Basics DEF Holds, Open, Begins
<1> HIDE DEF n
<1>2. keep \in SUBSET (1 .. n) /\ keep \subseteq Nat
    BY <1>1
<1>4. Trim(str, cset) = EndWith(str, 0, IF keep = {} THEN << >> ELSE SubSeq(str.mem, first, last))
    <2> DEFINE K == {i \in 1 .. str.len : ~In(str.mem[i], cset)}
    <2>1. K = keep
        BY <1>1
    <2>2. Trim(str, cset) =
              EndWith(str, 0, IF K = {} THEN << >>
                              ELSE SubSeq(str.mem, CHOOSE i \in K : \A j \in K : i <= j,
                                                   CHOOSE i \in K : \A j \in K : i >= j))
        BY DEF Trim
    <2> HIDE DEF K, keep
    <2>q. QED BY <2>1, <2>2
<1>5. Trimmed(v, cset) = CHOOSE w \in Parts : Fits(w)
    BY DEF Trimmed, n
<1>6. \A i \in 1 .. n : i \in keep <=> ~In(v[i], cset)
    OBVIOUS
<1>7. ASSUME keep # {}
      PROVE  /\ first \in keep /\ \A j \in keep : first <= j
             /\ last \in keep /\ \A j \in keep : last >= j
             /\ first \in 1 .. n /\ last \in 1 .. n /\ first <= last
    <2> HIDE DEF keep
    <2>1. \E i \in keep : \A j \in keep : i <= j
        BY <1>2, <1>7, LeastNatural
    <2>2. first \in keep /\ \A j \in keep : first <= j
        BY <2>1
    <2>3. \E i \in keep : \A j \in keep : i >= j
        BY <1>1, <1>2, <1>7, MaxOfInterval
    <2>4. last \in keep /\ \A j \in keep : last >= j
        BY <2>3
    <2>q. QED BY <1>2, <2>2, <2>4
<1> HIDE DEF keep, first, last
<1>8. ASSUME keep # {}
      PROVE  /\ SubSeq(str.mem, first, last) = SubSeq(v, first, last)
             /\ SubSeq(v, first, last) \in Seq(Byte)
             /\ Len(SubSeq(v, first, last)) = last - first + 1
             /\ Len(SubSeq(v, first, last)) <= n
             /\ \A i \in 1 .. last - first + 1 : SubSeq(v, first, last)[i] = v[first + i - 1]
    <2>1. first \in Nat \ {0} /\ last \in Nat /\ last <= Len(v) /\ first <= last
        BY <1>1, <1>7, <1>8 DEF n
    <2>q. QED BY <1>1, <2>1, PartOf DEF n
<1>9. kept \in Seq(Byte) /\ Len(kept) <= n
    BY <1>1, <1>8
<1>10. kept \in Parts
    <2>1. CASE keep = {}
        <3>1. SubSeq(v, 1, 0) = << >>
            BY SubSeqEmpty
        <3>2. 1 \in 1 .. n + 1 /\ 0 \in 0 .. n
            BY <1>1
        <3>q. QED BY <2>1, <3>1, <3>2
    <2>2. CASE keep # {}
        <3>1. first \in 1 .. n + 1 /\ last \in 0 .. n
            BY <1>1, <1>7, <2>2
        <3>q. QED BY <2>2, <3>1
    <2> HIDE DEF kept, Parts
    <2>q. QED BY <2>1, <2>2
<1>11. Fits(kept)
    <2>1. CASE keep = {}
        <3>1. 0 \in 0 .. n /\ 0 + 1 = 1
            BY <1>1
        <3>2. SubSeq(v, 0 + 1, 0) = << >>
            BY SubSeqEmpty
        <3>3. v = SubSeq(v, 1, 0) \o << >> \o SubSeq(v, 0 + 1, n)
            BY <1>1, <3>1, <3>2, Middle DEF n
        <3>4. \A k \in 1 .. n : In(v[k], cset)
            BY <1>6, <2>1
        <3>5. \A k \in 1 .. 0 : In(v[k], cset)
            OBVIOUS
        <3>6. \E i, j \in 0 .. n :
                  /\ v = SubSeq(v, 1, i) \o << >> \o SubSeq(v, j + 1, n)
                  /\ \A k \in 1 .. i : In(v[k], cset)
                  /\ \A k \in j + 1 .. n : In(v[k], cset)
            BY <3>1, <3>3, <3>4, <3>5
        <3>q. QED BY <2>1, <3>6
    <2>2. CASE keep # {}
        <3>1. /\ first - 1 \in 0 .. n /\ last \in 0 .. n /\ first - 1 <= last /\ (first - 1) + 1 = first
            BY <1>1, <1>7, <2>2
        <3>2. kept = SubSeq(v, (first - 1) + 1, last)
            BY <2>2, <3>1
        <3>3. v = SubSeq(v, 1, first - 1) \o kept \o SubSeq(v, last + 1, n)
            <4> DEFINE a == first - 1
            <4> HIDE DEF kept, a
            <4>1. a \in 0 .. Len(v) /\ last \in 0 .. Len(v) /\ a <= last /\ kept = SubSeq(v, a + 1, last)
                BY <3>1, <3>2 DEF a, n
            <4>2. v = SubSeq(v, 1, a) \o kept \o SubSeq(v, last + 1, Len(v))
                BY <1>1, <1>9, <4>1, Middle
            <4>q. QED BY <4>2 DEF a, n
        <3>4. \A k \in 1 .. first - 1 : k \in 1 .. n /\ k \notin keep
            BY <1>1, <1>2, <1>7, <2>2
        <3>5. \A k \in last + 1 .. n : k \in 1 .. n /\ k \notin keep
            BY <1>1, <1>2, <1>7, <2>2
        <3>6. (\A k \in 1 .. first - 1 : In(v[k], cset)) /\ (\A k \in last + 1 .. n : In(v[k], cset))
            BY <1>6, <3>4, <3>5
        <3>7. ~In(kept[1], cset) /\ ~In(kept[Len(kept)], cset)
            <4>1. /\ 1 \in 1 .. last - first + 1 /\ last - first + 1 \in 1 .. last - first + 1
                  /\ first + 1 - 1 = first /\ first + (last - first + 1) - 1 = last
                BY <1>1, <1>7, <2>2
            <4>2. kept[1] = v[first] /\ kept[Len(kept)] = v[last]
                BY <1>8, <2>2, <4>1
            <4>q. QED BY <1>6, <1>7, <2>2, <4>2
        <3> HIDE DEF kept
        <3>q. QED BY <3>1, <3>3, <3>6, <3>7
    <2>q. QED BY <2>1, <2>2
<1>12. ASSUME NEW w \in Parts, Fits(w)  PROVE w = kept
    <2>0. w \in Seq(Byte)
        <3>1. PICK i \in 1 .. n + 1, j \in 0 .. n : w = SubSeq(v, i, j)
            OBVIOUS
        <3>2. i \in Nat \ {0} /\ j \in Nat /\ j <= Len(v)
            BY <1>1 DEF n
        <3>q. QED BY <1>1, <3>1, <3>2, PartOf
    <2> HIDE DEF Parts
    <2>1. PICK i \in 0 .. n, j \in 0 .. n :
              /\ v = SubSeq(v, 1, i) \o w \o SubSeq(v, j + 1, n)
              /\ \A k \in 1 .. i : In(v[k], cset)
              /\ \A k \in j + 1 .. n : In(v[k], cset)
        BY <1>12
    <2>2. i <= j /\ w = SubSeq(v, i + 1, j)
        BY <1>1, <2>0, <2>1, Middle DEF n
    <2>3. i \in Nat /\ j \in Nat /\ i <= n /\ j <= n
        BY <1>1
    <2>4. Len(w) = (IF i + 1 <= j THEN j - i ELSE 0) /\ \A x \in 1 .. j - i : w[x] = v[i + x]
        <3>1. i + 1 \in Nat \ {0} /\ j <= Len(v)
            BY <2>3 DEF n
        <3>2. /\ Len(w) = IF i + 1 <= j THEN j - (i + 1) + 1 ELSE 0
              /\ \A x \in 1 .. j - (i + 1) + 1 : w[x] = v[i + 1 + x - 1]
            BY <1>1, <2>2, <2>3, <3>1, PartOf
        <3>3. j - (i + 1) + 1 = j - i /\ \A x \in 1 .. j - i : i + 1 + x - 1 = i + x
            BY <2>3
        <3>q. QED BY <3>2, <3>3
    <2>5. \A k \in keep : k \in i + 1 .. j
        <3> TAKE k \in keep
        <3>1. k \in 1 .. n /\ ~In(v[k], cset)
            BY <1>2, <1>6
        <3>2. k \notin 1 .. i /\ k \notin j + 1 .. n
            BY <2>1, <3>1
        <3>q. QED BY <1>1, <2>3, <3>1, <3>2
    <2>6. CASE i = j
        <3>1. keep = {}
            BY <2>3, <2>5, <2>6
        <3>2. w = << >>
            BY <2>2, <2>3, <2>6, SubSeqEmpty
        <3>q. QED BY <3>1, <3>2
    <2>7. CASE i # j
        <3>1. Len(w) = j - i /\ 1 \in 1 .. j - i /\ j - i \in 1 .. j - i /\ i + (j - i) = j
              /\ i + 1 \in 1 .. n /\ j \in 1 .. n
            BY <1>1, <2>2, <2>3, <2>4, <2>7
        <3>2. w # << >> /\ w[1] = v[i + 1] /\ w[Len(w)] = v[j]
            <4>1. Len(w) # 0
                BY <3>1
            <4>q. QED BY <2>0, <2>4, <3>1, <4>1
        <3>3. ~In(v[i + 1], cset) /\ ~In(v[j], cset)
            BY <1>12, <3>2
        <3>4. i + 1 \in keep /\ j \in keep
            BY <1>6, <3>1, <3>3
        <3>5. keep # {} /\ first = i + 1 /\ last = j
            <4>1. keep # {}
                BY <3>4
            <4>2. first \in i + 1 .. j /\ first <= i + 1 /\ last \in i + 1 .. j /\ last >= j
                BY <1>7, <2>5, <3>4, <4>1
            <4>q. QED BY <2>3, <4>1, <4>2
        <3>q. QED BY <2>2, <3>5
    <2>q. QED BY <2>6, <2>7
<1>13. Trimmed(v, cset) = kept
    <2> HIDE DEF Parts, Fits, kept
    <2>q. QED BY <1>5, <1>10, <1>11, <1>12
<1>14. Trim(str, cset) = EndWith(str, 0, kept)
    BY <1>4, <1>8
<1> HIDE DEF kept
<1>15. Holds(EndWith(str, 0, kept), kept)
    BY <1>9, KeptHolds DEF n
<1>q. QED BY <1>9, <1>13, <1>14, <1>15 DEF n

(* sdsrange keeps the bytes between two positions.                         *)
LEMMA RangeHolds ==
    ASSUME NEW str, NEW v, Holds(str, v), NEW from \in Int, NEW to \in Int
    PROVE  /\ Holds(RangeOf(str, from, to), Between(v, from, to))
           /\ Between(v, from, to) \in Seq(Byte) /\ Len(Between(v, from, to)) <= Len(v)
<1> DEFINE n == Len(v)
           start  == Position(from, n)
           p      == Position(to, n)
           end    == IF p >= n THEN n - 1 ELSE p
           newlen == IF start > end THEN 0 ELSE end - start + 1
           in     == {i \in 1 .. n : start <= i - 1 /\ i - 1 <= p}
<1>1. Open(str, v) /\ v \in Seq(Byte) /\ n \in Nat /\ str.len = n
    BY Basics DEF Holds
<1> HIDE DEF n
<1>2. start \in Nat /\ p \in Nat
    BY <1>1 DEF Position
<1>3. Between(v, from, to) = IF in = {} THEN << >> ELSE SubSeq(v, Min(in), Max(in))
    BY DEF Between, n
<1>4. RangeOf(str, from, to) = IF n = 0 THEN str
                               ELSE EndWith(str, 0, SubSeq(str.mem, start + 1, start + newlen))
    BY <1>1 DEF RangeOf
<1> HIDE DEF start, p
<1>5. CASE n = 0
    <2>1. in = {}
        BY <1>5
    <2>2. v = << >>
        BY <1>1, <1>5, EmptySeq DEF n
    <2>q. QED BY <1>1, <1>3, <1>4, <1>5, <2>1, <2>2 DEF n
<1>6. CASE n # 0 /\ start > end
    <2>1. in = {}
        BY <1>1, <1>2, <1>6
    <2>2. newlen = 0
        BY <1>6
    <2>3. SubSeq(str.mem, start + 1, start + 0) = << >>
        BY <1>2, SubSeqEmpty
    <2>4. RangeOf(str, from, to) = EndWith(str, 0, << >>) /\ Between(v, from, to) = << >>
        BY <1>3, <1>4, <1>6, <2>1, <2>2, <2>3
    <2>5. << >> \in Seq(Byte) /\ Len(<< >>) <= Len(v)
        BY <1>1 DEF n
    <2>q. QED BY <2>4, <2>5, KeptHolds
<1>7. CASE n # 0 /\ start <= end
    <2>1. /\ end \in Nat /\ newlen = end - start + 1 /\ start + newlen = end + 1 /\ end <= n - 1
        BY <1>1, <1>2, <1>7
    <2>2. in = start + 1 .. end + 1
        BY <1>1, <1>2, <1>7
    <2>3. start + 1 \in in /\ end + 1 \in in /\ in \subseteq Nat
          /\ \A i \in in : start + 1 <= i /\ i <= end + 1
        BY <1>2, <1>7, <2>1, <2>2
    <2> HIDE DEF in, newlen, end
    <2>4. Min(in) = start + 1 /\ Max(in) = end + 1
        <3>1. Min(in) \in in /\ \A i \in in : Min(in) <= i
            <4>1. \E x \in in : \A y \in in : x <= y
                BY <2>3
            <4>q. QED BY <4>1 DEF Min
        <3>2. Max(in) \in in /\ \A i \in in : Max(in) >= i
            <4>1. \E x \in in : \A y \in in : x >= y
                BY <2>3
            <4>q. QED BY <4>1 DEF Max
        <3>3. Min(in) \in Nat /\ Max(in) \in Nat /\ Min(in) <= start + 1 /\ Max(in) >= end + 1
              /\ start + 1 <= Min(in) /\ Max(in) <= end + 1
            BY <2>3, <3>1, <3>2
        <3>q. QED BY <1>2, <2>1, <3>3
    <2> DEFINE a == start + 1  b == end + 1  t == SubSeq(v, a, b)
    <2>5. a \in Nat \ {0} /\ b \in Nat /\ b <= Len(v)
        BY <1>1, <1>2, <2>1 DEF n
    <2>6. /\ RangeOf(str, from, to) = EndWith(str, 0, SubSeq(str.mem, a, b))
          /\ Between(v, from, to) = t
        BY <1>3, <1>4, <1>7, <2>1, <2>3, <2>4
    <2> HIDE DEF a, b
    <2>7. SubSeq(str.mem, a, b) = t /\ t \in Seq(Byte) /\ Len(t) <= Len(v)
        BY <1>1, <2>5, PartOf
    <2> HIDE DEF t
    <2>8. Holds(EndWith(str, 0, t), t)
        BY <2>7, KeptHolds
    <2>q. QED BY <2>6, <2>7, <2>8
<1>8. start \in Int /\ end \in Int
    BY <1>1, <1>2
<1>q. QED BY <1>5, <1>6, <1>7, <1>8
-----------------------------------------------------------------------------
(* The string of a program.                                                *)

(* The string has the value promised, and the value is not too long.       *)
StringInv == Holds(s, value) /\ Len(value) <= MaxString

(* A new string of a length within the bound.                              *)
LEMMA NewString ==
    ASSUME NEW init \in Seq(Byte), Len(init) <= MaxString  PROVE Holds(Newlen(init), init)
<1>1. Len(init) \in Nat /\ MaxString \in Nat /\ MaxPrealloc \in Nat /\ MaxLen[4] \in Nat
      /\ 2 * MaxString + MaxPrealloc + 3 <= MaxLen[4]
    BY Widths DEF Types
<1>q. QED BY <1>1, NewlenHolds

(* A program's string is new at first.                                     *)
LEMMA StringInit == Init => StringInv
<1> SUFFICES ASSUME NEW init \in Args, s = Newlen(init), value = init  PROVE StringInv
    BY DEF Init
<1>1. init \in Seq(Byte) /\ Len(init) <= MaxString
    BY BytesOK, SizesOK
<1>q. QED BY <1>1, NewString DEF StringInv

(* The bytes of a string are its value.                                    *)
LEMMA ContentIs ==
    ASSUME NEW str, NEW v, Holds(str, v)
    PROVE  Content(str) = v
<1>1. /\ Open(str, v) /\ str.len = Len(v) /\ v \in Seq(Byte) /\ Len(v) \in Nat
      /\ str.mem \in Seq(Bytes) /\ Len(v) <= Len(str.mem)
    BY Basics DEF Holds
<1>2. /\ SubSeq(str.mem, 1, Len(v)) \in Seq(Bytes)
      /\ Len(SubSeq(str.mem, 1, Len(v))) = Len(v)
      /\ \A i \in 1 .. Len(v) : SubSeq(str.mem, 1, Len(v))[i] = str.mem[i]
    BY <1>1, FirstBytes
<1>3. v \in Seq(Bytes) /\ \A i \in 1 .. Len(v) : str.mem[i] = v[i]
    BY <1>1 DEF Open, Begins, Bytes
<1>q. QED BY <1>1, <1>2, <1>3, SeqEqual DEF Content

(* Each function, called on a string that has its value, makes the one     *)
(* that its comment promises.                                              *)
LEMMA StringStep == StringInv /\ [Next]_vars => StringInv'
<1> SUFFICES ASSUME StringInv, [Next]_vars  PROVE StringInv'
    OBVIOUS
<1> USE DEF StringInv
<1>0. /\ Holds(s, value) /\ Open(s, value) /\ value \in Seq(Byte) /\ Len(value) \in Nat
      /\ Len(value) <= MaxString /\ s.len = Len(value)
      /\ MaxString \in Nat /\ MaxPrealloc \in Nat /\ MaxLen[4] \in Nat
      /\ 2 * MaxString + MaxPrealloc + 3 <= MaxLen[4]
    BY Basics, Widths DEF Holds, Types
<1>a. ASSUME NEW t \in Args  PROVE t \in Seq(Byte) /\ Len(t) \in Nat /\ Len(t) <= MaxString
    BY BytesOK, SizesOK
<1>b. ASSUME NEW t \in Seq(Byte), Len(value \o t) <= MaxString
      PROVE  Holds(Catlen(s, t), value \o t)
    <2>1. Len(value \o t) = Len(value) + Len(t) /\ Len(t) \in Nat
        BY <1>0
    <2>2. Len(value) + Len(t) + MaxPrealloc <= MaxLen[4]
        BY <1>0, <1>b, <2>1
    <2>q. QED BY <1>0, <2>2, CatlenHolds
<1>1. ASSUME NEW t \in Args, New(t)  PROVE StringInv'
    BY <1>a, <1>1, NewString DEF New, Becomes
<1>2. ASSUME NEW t \in Args, Cat(t)  PROVE StringInv'
    BY <1>a, <1>b, <1>2 DEF Cat, Becomes
<1>3. ASSUME NEW t \in Args, Copy(t)  PROVE StringInv'
    <2>1. Len(t) + MaxPrealloc <= MaxLen[4]
        BY <1>0, <1>a
    <2>q. QED BY <1>0, <1>a, <1>3, <2>1, CpylenHolds DEF Copy, Becomes
<1>4. ASSUME NEW n \in 0 .. MaxString, Zero(n)  PROVE StringInv'
    <2>1. n \in Nat /\ n + MaxPrealloc <= MaxLen[4] /\ Len(value) + MaxPrealloc <= MaxLen[4]
        BY <1>0
    <2>q. QED BY <1>0, <1>4, <2>1, GrowzeroHolds DEF Zero, Becomes
<1>5. ASSUME NEW n \in 0 .. MaxString, Cut(n)  PROVE StringInv'
    <2> DEFINE m == Len(value) - n
    <2>1. n <= Len(value)
        <3>1. n = 0 \/ -n < 0
            BY <1>0
        <3>2. CASE -n < 0
            <4>1. -n < 0 /\ ~(-n > 0) /\ ~(-n >= 0) /\ -(-n) = n
                BY <1>0, <3>2
            <4>q. QED BY <1>0, <1>5, <4>1 DEF Cut, MayIncr
        <3>q. QED BY <1>0, <3>1, <3>2
    <2>2. m \in Nat /\ m <= Len(value) /\ Len(value) + (-n) = m
        BY <1>0, <2>1
    <2>3. IncrLen(s, -n) = EndWith(s, m, << >>)
        BY <1>0, <2>2 DEF IncrLen
    <2>4. s' = EndWith(s, m, << >>) /\ value' = SubSeq(value, 1, m)
        BY <1>5, <2>3 DEF Cut, Becomes
    <2> HIDE DEF m
    <2>5. Holds(EndWith(s, m, << >>), SubSeq(value, 1, m)) /\ Len(SubSeq(value, 1, m)) = m
        BY <1>0, <2>2, CutHolds
    <2>q. QED BY <1>0, <2>2, <2>4, <2>5
<1>6. ASSUME NEW t \in Args, NEW n \in 0 .. 2, Printf(t, n)  PROVE StringInv'
    <2>1. t \in Seq(Byte) /\ Len(t) \in Nat /\ n \in Nat
        BY <1>a
    <2>2. Catprintf(s, t, n) = Catlen(s, t)
        BY <2>1, BufferFits DEF Catprintf
    <2>q. QED BY <1>b, <1>6, <2>1, <2>2 DEF Printf, Becomes
<1>7. ASSUME NEW t \in Args, NEW c \in Byte \ {NUL}, NEW n \in {0, 2}, Format(t, c, n)
      PROVE  StringInv'
    <2> DEFINE w == ((value \o t) \o <<c>>) \o t
    <2>1. /\ t \in Seq(Byte) /\ <<c>> \in Seq(Byte) /\ Len(<<c>>) = 1 /\ n \in Nat /\ n <= 2
        BY <1>a
    <2>2. s' = Catfmt(s, <<t, <<c>>, t>>, n) /\ value' = w /\ Len(w) <= MaxString
        BY <1>7 DEF Format, Becomes
    <2>3. Len(w) \in Nat
        BY <1>0, <2>1
    <2>4. 2 * Len(value) + n + MaxPrealloc <= MaxLen[4]
        BY <1>0, <2>1
    <2>5. Len(w) + MaxPrealloc < MaxLen[4]
        <3> HIDE DEF w
        <3>q. QED BY <1>0, <2>2, <2>3
    <2>6. Holds(Catfmt(s, <<t, <<c>>, t>>, n), w)
        BY <1>0, <2>1, <2>4, <2>5, CatfmtHolds
    <2> HIDE DEF w
    <2>q. QED BY <2>2, <2>6
<1>8. ASSUME NEW t \in Args, NEW n \in 1 .. 3, Read(n, t)  PROVE StringInv'
    <2> DEFINE room == MakeRoomFor(s, n)
               full == [room EXCEPT !.mem = Put(@, room.len, t)]
    <2>1. n \in Nat /\ Len(value) + n + MaxPrealloc <= MaxLen[4]
        BY <1>0
    <2>2. t \in Seq(Byte) /\ Len(t) <= n
        BY <1>8, <1>a DEF Read
    <2>3. s' = IncrLen(full, Len(t)) /\ value' = value \o t /\ Len(value \o t) <= MaxString
        BY <1>8 DEF Read, Becomes
    <2>4. Holds(IncrLen(full, Len(t)), value \o t)
        BY <1>0, <2>1, <2>2, ReadHolds
    <2>q. QED BY <2>3, <2>4
<1>9. ASSUME NEW c \in Seps, TrimSet(c)  PROVE StringInv'
    <2>1. s' = Trim(s, c) /\ value' = Trimmed(value, c) /\ Len(Trimmed(value, c)) <= MaxString
        BY <1>9 DEF TrimSet, Becomes
    <2>q. QED BY <1>0, <2>1, TrimHolds
<1>10. ASSUME NEW i \in Positions, NEW j \in Positions, Part(i, j)  PROVE StringInv'
    <2>1. i \in Int /\ j \in Int
        BY BytesOK
    <2>2. s' = RangeOf(s, i, j) /\ value' = Between(value, i, j)
          /\ Len(Between(value, i, j)) <= MaxString
        BY <1>10 DEF Part, Becomes
    <2>q. QED BY <1>0, <2>1, <2>2, RangeHolds
<1>11. CASE Dup
    <2>1. Content(s) = value
        BY <1>0, ContentIs
    <2>q. QED BY <1>0, <1>11, <2>1, NewString DEF Dup, Becomes
<1>12. CASE Shrink
    <2>1. Len(value) <= MaxLen[4]
        BY <1>0
    <2>q. QED BY <1>0, <1>12, <2>1, RemoveHolds DEF Shrink, Becomes
<1>13. CASE Empty
    <2>1. << >> \in Seq(Byte) /\ Len(<< >>) = 0 /\ Len(<< >>) <= Len(value)
        BY <1>0
    <2> DEFINE e == << >>
    <2> HIDE DEF e
    <2>2. Holds(EndWith(s, 0, e), e)
        BY <1>0, <2>1, KeptHolds DEF e
    <2>q. QED BY <1>0, <1>13, <2>1, <2>2 DEF Empty, Becomes, Clear, e
<1>14. CASE Update
    <2> DEFINE n == Strlen(s.mem)
    <2>1. n \in Nat /\ n <= Len(value) /\ Strlen(value) = n /\ s.mem[n + 1] = NUL
        BY <1>0, StrlenOf
    <2>2. s' = SetLen(s, n) /\ value' = SubSeq(value, 1, n)
        BY <1>14, <2>1 DEF Update, Becomes, Updatelen
    <2> HIDE DEF n
    <2>3. Holds(SetLen(s, n), SubSeq(value, 1, n)) /\ Len(SubSeq(value, 1, n)) = n
        BY <1>0, <2>1, CutHolds
    <2>q. QED BY <1>0, <2>1, <2>2, <2>3
<1>15. CASE UNCHANGED vars
    BY <1>15 DEF vars
<1>q. QED BY <1>1, <1>2, <1>3, <1>4, <1>5, <1>6, <1>7, <1>8, <1>9, <1>10, <1>11, <1>12,
             <1>13, <1>14, <1>15 DEF Next

(* Whatever functions a program calls, and in whatever order, its string   *)
(* has the value that these functions promise.                             *)
THEOREM StringInvariant == Spec => []StringInv
BY StringInit, StringStep, PTL DEF Spec

(* A string stays within its memory: whatever functions were called, the   *)
(* header tells the length and the room that there is, and no write was    *)
(* outside of the block (sdsMakeRoomFor and all that rely on it).          *)
THEOREM StringsStayInMemory == Spec => []TypeOK
<1>1. StringInv => TypeOK
    BY DEF StringInv, Holds, Open, Sound, Begins, TypeOK, Bytes
<1>q. QED BY <1>1, StringInvariant, PTL

(* A string is what the comments on its functions promise, and a null byte *)
(* follows it.                                                             *)
THEOREM StringsAreWhatIsPromised == Spec => []Represents
<1>1. StringInv => Represents
    <2> SUFFICES ASSUME StringInv  PROVE Represents
        OBVIOUS
    <2>1. Open(s, value) /\ s.mem[Len(value) + 1] = NUL /\ s.len = Len(value)
        BY DEF StringInv, Holds, Open
    <2>2. /\ value \in Seq(Byte) /\ Len(value) \in Nat /\ s.mem \in Seq(Bytes)
          /\ Len(value) + 1 <= Len(s.mem) /\ Len(s.mem) \in Nat
        BY <2>1, Basics
    <2>3. Content(s) = value
        BY ContentIs DEF StringInv
    <2>q. QED BY <2>1, <2>2, <2>3 DEF Represents
<1>q. QED BY <1>1, StringInvariant, PTL

(* The assertions of sdsIncrLen hold wherever sdsMakeRoomFor made the room *)
(* for what was then written.                                              *)
THEOREM RoomIsMade == Spec => []RoomAsPromised
<1>1. StringInv => RoomAsPromised
    <2> SUFFICES ASSUME StringInv, NEW n \in 1 .. MaxString, NEW k \in 1 .. n
                 PROVE  MayIncr(MakeRoomFor(s, n), k)
        BY DEF RoomAsPromised
    <2>0. 4 \in Types
        BY DEF Types
    <2>1. /\ Open(s, value) /\ Len(value) \in Nat /\ Len(value) <= MaxString /\ n \in Nat /\ n > 0
          /\ k \in Nat /\ k <= n /\ MaxString \in Nat /\ MaxPrealloc \in Nat /\ MaxLen[4] \in Nat
          /\ 2 * MaxString + MaxPrealloc + 3 <= MaxLen[4] /\ n <= MaxString
        BY SMTT(30), <2>0, Basics, Widths DEF StringInv, Holds
    <2>2. Len(value) + n + MaxPrealloc <= MaxLen[4]
        BY <2>1
    <2> DEFINE r == MakeRoomFor(s, n)
    <2>3. Avail(r) \in Nat /\ Avail(r) >= n /\ r.type # 0
        BY <2>1, <2>2, RoomMade
    <2> HIDE DEF r
    <2>4. r.alloc - r.len >= k
        BY <2>1, <2>3 DEF Avail
    <2>q. QED BY <2>1, <2>3, <2>4 DEF MayIncr, r
<1>q. QED BY <1>1, StringInvariant, PTL
-----------------------------------------------------------------------------
(* Splitting and joining.                                                  *)

(* A part of a sequence, and what it holds.                                *)
LEMMA Segment ==
    ASSUME NEW v \in Seq(Byte), NEW a \in Nat, NEW e \in Nat, a <= e, e <= Len(v)
    PROVE  /\ SubSeq(v, a + 1, e) \in Seq(Byte) /\ Len(SubSeq(v, a + 1, e)) = e - a
           /\ \A x \in 1 .. e - a : SubSeq(v, a + 1, e)[x] = v[a + x]
<1> DEFINE w == SubSeq(v, a + 1, e)
<1>1. \A x \in a + 1 .. e : v[x] \in Byte
    <2>1. Len(v) \in Nat /\ \A x \in 1 .. Len(v) : v[x] \in Byte
        BY ElementOfSeq
    <2>2. \A x \in a + 1 .. e : x \in 1 .. Len(v)
        BY <2>1
    <2>q. QED BY <2>1, <2>2
<1>2. /\ w \in Seq(Byte) /\ Len(w) = IF a + 1 <= e THEN e - (a + 1) + 1 ELSE 0
      /\ \A x \in 1 .. e - (a + 1) + 1 : w[x] = v[a + 1 + x - 1]
    BY <1>1, SubSeqProperties
<1>3. e - (a + 1) + 1 = e - a /\ \A x \in 1 .. e - a : a + 1 + x - 1 = a + x
    OBVIOUS
<1> HIDE DEF w
<1>q. QED BY <1>2, <1>3 DEF w

(* A part of a part.                                                       *)
LEMMA SegmentOfSegment ==
    ASSUME NEW v \in Seq(Byte), NEW a \in Nat, NEW e \in Nat, a <= e, e <= Len(v),
           NEW i \in Nat, NEW k \in Nat, i + k <= e - a
    PROVE  SubSeq(SubSeq(v, a + 1, e), i + 1, i + k) = SubSeq(v, (a + i) + 1, (a + i) + k)
<1> DEFINE w == SubSeq(v, a + 1, e)  x == SubSeq(w, i + 1, i + k)
           y == SubSeq(v, (a + i) + 1, (a + i) + k)
<1>1. w \in Seq(Byte) /\ Len(w) = e - a /\ \A z \in 1 .. e - a : w[z] = v[a + z]
    BY Segment
<1> HIDE DEF w
<1>2. x \in Seq(Byte) /\ Len(x) = k /\ \A z \in 1 .. k : x[z] = w[i + z]
    <2>1. i + k \in Nat /\ i <= i + k /\ i + k <= Len(w) /\ i + k - i = k
        BY <1>1
    <2>q. QED BY <1>1, <2>1, Segment
<1>3. y \in Seq(Byte) /\ Len(y) = k /\ \A z \in 1 .. k : y[z] = v[a + i + z]
    <2> DEFINE c == a + i  d == (a + i) + k
    <2>1. c \in Nat /\ d \in Nat /\ c <= d /\ d <= Len(v) /\ d - c = k
        OBVIOUS
    <2>2. \A z \in 1 .. k : c + z = a + i + z
        OBVIOUS
    <2> HIDE DEF c, d
    <2>3. SubSeq(v, c + 1, d) \in Seq(Byte) /\ Len(SubSeq(v, c + 1, d)) = k
          /\ \A z \in 1 .. k : SubSeq(v, c + 1, d)[z] = v[c + z]
        BY <2>1, Segment, SMTT(30)
    <2>q. QED BY <2>2, <2>3 DEF c, d
<1> HIDE DEF x, y
<1>4. \A z \in 1 .. k : i + z \in 1 .. e - a /\ a + (i + z) = a + i + z
    OBVIOUS
<1>5. x = y
    BY ZenonT(30), <1>1, <1>2, <1>3, <1>4, SeqEqual
<1>q. QED BY <1>5 DEF x, y, w

(* Adjacent parts.                                                         *)
LEMMA Adjacent ==
    ASSUME NEW v \in Seq(Byte), NEW a \in Nat, NEW e \in Nat, a <= e, e <= Len(v)
    PROVE  SubSeq(v, 1, a) \o SubSeq(v, a + 1, e) = SubSeq(v, 1, e)
<1> DEFINE x == SubSeq(v, 1, a)  y == SubSeq(v, a + 1, e)  z == SubSeq(v, 1, e)  xy == x \o y
<1>1. x \in Seq(Byte) /\ Len(x) = a /\ \A i \in 1 .. a : x[i] = v[i]
    <2>1. a <= Len(v)
        OBVIOUS
    <2>q. QED BY <2>1, FirstBytes
<1>2. y \in Seq(Byte) /\ Len(y) = e - a /\ \A i \in 1 .. e - a : y[i] = v[a + i]
    BY Segment
<1>3. z \in Seq(Byte) /\ Len(z) = e /\ \A i \in 1 .. e : z[i] = v[i]
    BY FirstBytes
<1> HIDE DEF x, y, z
<1>4. /\ xy \in Seq(Byte) /\ Len(xy) = Len(x) + Len(y)
      /\ \A i \in 1 .. Len(x) + Len(y) : xy[i] = IF i <= Len(x) THEN x[i] ELSE y[i - Len(x)]
    BY <1>1, <1>2, ConcatProperties
<1> HIDE DEF xy
<1>5. Len(x) + Len(y) = e
    BY <1>1, <1>2
<1>6. ASSUME NEW i \in 1 .. e  PROVE xy[i] = z[i]
    <2>1. CASE i <= a
        BY <1>1, <1>3, <1>4, <1>5, <2>1
    <2>2. CASE ~(i <= a)
        <3>1. i - a \in 1 .. e - a /\ a + (i - a) = i
            BY <2>2
        <3>2. xy[i] = y[i - a]
            BY <1>1, <1>4, <1>5, <2>2
        <3>3. y[i - a] = v[a + (i - a)]
            BY <1>2, <3>1
        <3>q. QED BY <1>3, <3>1, <3>2, <3>3
    <2>q. QED BY <2>1, <2>2
<1>7. xy = z
    BY <1>3, <1>4, <1>5, <1>6, SeqEqual
<1>q. QED BY <1>7 DEF x, y, z, xy

(* The values of the variables of sdssplitlen.                             *)
SplitStates == [start : Nat, slots : Nat, tokens : Seq(Seq(Byte)), safe : BOOLEAN]

(* The tokens before place m are the parts of str between its separators:  *)
(* token i begins at b[i], and the next one a separator after its end.     *)
Cuts(b, m, tokens, str, sep) ==
    /\ b \in [1 .. m + 1 -> 0 .. Len(str)] /\ b[1] = 0
    /\ \A i \in 1 .. m :
          /\ b[i] + Len(sep) <= b[i + 1]
          /\ tokens[i] = SubSeq(str, b[i] + 1, b[i + 1] - Len(sep))
          /\ SubSeq(str, (b[i + 1] - Len(sep)) + 1, b[i + 1]) = sep
          /\ ~Occurs(sep, tokens[i])

(* The loop at j: str is cut up to start, between there and j there is no  *)
(* separator, and there is room for one more token.                        *)
Searched(f, j, str, sep) ==
    /\ f \in SplitStates
    /\ f.safe /\ Len(f.tokens) + 1 <= f.slots
    /\ \E b : Cuts(b, Len(f.tokens), f.tokens, str, sep) /\ b[Len(f.tokens) + 1] = f.start
    /\ \A p \in f.start .. j - 1 : SubSeq(str, p + 1, p + Len(sep)) # sep

(* A part in which no separator begins holds none.                         *)
LEMMA NoSeparator ==
    ASSUME NEW str \in Seq(Byte), NEW sep \in Seq(Byte), NEW a \in Nat, NEW e \in Nat,
           a <= e, e <= Len(str),
           \A p \in a .. e - Len(sep) : SubSeq(str, p + 1, p + Len(sep)) # sep
    PROVE  ~Occurs(sep, SubSeq(str, a + 1, e))
<1> DEFINE w == SubSeq(str, a + 1, e)  L == Len(sep)
<1>1. L \in Nat /\ Len(w) = e - a
    BY Segment
<1> HIDE DEF L
<1>2. ASSUME NEW i \in 0 .. (e - a) - L  PROVE SubSeq(w, i + 1, i + L) # sep
    <2>1. i \in Nat /\ i + L <= e - a /\ a + i \in a .. e - L
        BY <1>1
    <2>2. SubSeq(w, i + 1, i + L) = SubSeq(str, (a + i) + 1, (a + i) + L)
        BY <1>1, <2>1, SegmentOfSegment
    <2>q. QED BY <2>1, <2>2 DEF L
<1> HIDE DEF w
<1>q. QED BY <1>1, <1>2 DEF Occurs, w, L

(* An iteration of the loop keeps the types.                               *)
LEMMA SplitTyped ==
    ASSUME NEW str \in Seq(Byte), NEW sep \in Seq(Byte), NEW f \in SplitStates,
           NEW j \in Nat, j <= Len(str)
    PROVE  SplitAt(str, sep, f, j) \in SplitStates
<1> DEFINE slots == Slots(f.slots, Len(f.tokens))
           w == SubSeq(str, f.start + 1, j)
<1>1. /\ f.start \in Nat /\ f.slots \in Nat /\ f.tokens \in Seq(Seq(Byte)) /\ f.safe \in BOOLEAN
      /\ Len(f.tokens) \in Nat /\ Len(sep) \in Nat
    BY DEF SplitStates
<1>2. slots \in Nat
    BY <1>1 DEF Slots
<1>3. CASE j < f.start
    <2>1. ~(j >= f.start)
        BY <1>1, <1>3
    <2>q. QED BY <1>3, <2>1 DEF SplitAt
<1>4. CASE j >= f.start /\ SubSeq(str, j + 1, j + Len(sep)) # sep
    <2>1. SplitAt(str, sep, f, j) = [f EXCEPT !.slots = slots]
        BY <1>1, <1>4 DEF SplitAt
    <2> HIDE DEF slots
    <2>q. QED BY <1>2, <2>1 DEF SplitStates
<1>5. CASE j >= f.start /\ ~(SubSeq(str, j + 1, j + Len(sep)) # sep)
    <2>1. SplitAt(str, sep, f, j) =
              [start |-> j + Len(sep), slots |-> slots, tokens |-> Append(f.tokens, w),
               safe |-> f.safe /\ Len(f.tokens) < slots]
        BY <1>1, <1>5 DEF SplitAt
    <2>2. w \in Seq(Byte)
        BY <1>1, <1>5, Segment
    <2> HIDE DEF slots, w
    <2>3. Append(f.tokens, w) \in Seq(Seq(Byte)) /\ j + Len(sep) \in Nat
        BY <1>1, <2>2
    <2>q. QED BY <1>2, <2>1, <2>3 DEF SplitStates
<1>q. QED BY <1>1, <1>3, <1>4, <1>5

(* An iteration of the loop.                                               *)
LEMMA SplitStep ==
    ASSUME NEW str \in Seq(Byte), NEW sep \in Seq(Byte), Len(sep) > 0, NEW f, NEW j \in Nat,
           j + Len(sep) <= Len(str), Searched(f, j, str, sep)
    PROVE  Searched(SplitAt(str, sep, f, j), j + 1, str, sep)
<1> DEFINE slots == Slots(f.slots, Len(f.tokens))
           w == SubSeq(str, f.start + 1, j)
           m == Len(f.tokens)
           L == Len(sep)
           r == SplitAt(str, sep, f, j)
<1>1. /\ f \in SplitStates /\ f.start \in Nat /\ f.slots \in Nat /\ f.tokens \in Seq(Seq(Byte))
      /\ f.safe = TRUE /\ m \in Nat /\ L \in Nat /\ L > 0 /\ m + 1 <= f.slots
      /\ \A p \in f.start .. j - 1 : SubSeq(str, p + 1, p + L) # sep
    BY DEF SplitStates, Searched
<1>2. PICK b : Cuts(b, m, f.tokens, str, sep) /\ b[m + 1] = f.start
    BY DEF Searched
<1>3. slots \in Nat /\ m + 2 <= slots
    BY SMTT(30), <1>1 DEF Slots
<1>t. r \in SplitStates
    <2>1. j <= Len(str)
        BY <1>1
    <2>q. QED BY <1>1, <2>1, SplitTyped
<1> HIDE DEF r, slots
<1>4. CASE j < f.start
    <2>1. r = f
        <3>1. ~(j >= f.start)
            BY <1>1, <1>4
        <3>q. QED BY <1>4, <3>1 DEF SplitAt, r
    <2>2. \A p \in f.start .. j : SubSeq(str, p + 1, p + L) # sep
        BY <1>1, <1>4
    <2>3. (j + 1) - 1 = j
        OBVIOUS
    <2>q. QED BY <1>1, <1>2, <2>1, <2>2, <2>3 DEF Searched, r
<1>5. CASE j >= f.start /\ SubSeq(str, j + 1, j + L) # sep
    <2>1. r = [f EXCEPT !.slots = slots]
        BY <1>1, <1>5 DEF SplitAt, r, slots
    <2>2. r.start = f.start /\ r.slots = slots /\ r.tokens = f.tokens /\ r.safe = TRUE
        BY <1>1, <2>1 DEF SplitStates
    <2>3. \A p \in f.start .. (j + 1) - 1 : p = j \/ p \in f.start .. j - 1
        BY <1>1
    <2>4. \A p \in f.start .. (j + 1) - 1 : SubSeq(str, p + 1, p + L) # sep
        BY <1>1, <1>5, <2>3
    <2>5. m + 1 <= slots
        BY <1>1, <1>3
    <2>q. QED BY <1>1, <1>2, <1>t, <2>2, <2>4, <2>5 DEF Searched, r
<1>6. CASE j >= f.start /\ ~(SubSeq(str, j + 1, j + L) # sep)
    <2>1. r = [start |-> j + L, slots |-> slots, tokens |-> Append(f.tokens, w),
               safe |-> f.safe /\ m < slots]
        BY <1>1, <1>6 DEF SplitAt, r, slots
    <2>2. w \in Seq(Byte)
        BY <1>1, <1>6, Segment
    <2>3. ~Occurs(sep, w)
        <3>1. \A p \in f.start .. j - L : p \in f.start .. j - 1
            BY <1>1
        <3>2. f.start <= j /\ j <= Len(str)
            BY <1>1, <1>6
        <3>q. QED BY <1>1, <3>1, <3>2, NoSeparator
    <2> HIDE DEF w
    <2>4. r.start = j + L /\ r.slots = slots /\ r.tokens = Append(f.tokens, w) /\ r.safe = TRUE
        <3>1. m < slots
            BY <1>1, <1>3
        <3>2. (f.safe /\ m < slots) = TRUE
            BY <1>1, <3>1
        <3>q. QED BY <2>1, <3>2
    <2> DEFINE c == [i \in 1 .. m + 2 |-> IF i <= m + 1 THEN b[i] ELSE j + L]
               ts == Append(f.tokens, w)
    <2>5. /\ ts \in Seq(Seq(Byte)) /\ Len(ts) = m + 1 /\ ts[m + 1] = w
          /\ \A i \in 1 .. m : ts[i] = f.tokens[i]
        BY <1>1, <2>2, AppendProperties
    <2> HIDE DEF ts, m, L
    <2>6. /\ c[m + 2] = j + L /\ \A i \in 1 .. m + 1 : c[i] = b[i]
        BY <1>1
    <2>7. c \in [1 .. m + 2 -> 0 .. Len(str)]
        <3>1. j + L \in 0 .. Len(str)
            BY <1>1 DEF L
        <3>2. \A i \in 1 .. m + 1 : b[i] \in 0 .. Len(str)
            BY <1>2 DEF Cuts
        <3>q. QED BY <1>1, <3>1, <3>2
    <2> HIDE DEF c
    <2>8. ASSUME NEW i \in 1 .. m + 1
          PROVE  /\ c[i] + L <= c[i + 1]
                 /\ ts[i] = SubSeq(str, c[i] + 1, c[i + 1] - L)
                 /\ SubSeq(str, (c[i + 1] - L) + 1, c[i + 1]) = sep
                 /\ ~Occurs(sep, ts[i])
        <3>1. CASE i \in 1 .. m
            <4>1. i + 1 \in 1 .. m + 1
                BY <1>1, <3>1
            <4>2. c[i] = b[i] /\ c[i + 1] = b[i + 1] /\ ts[i] = f.tokens[i]
                BY <2>5, <2>6, <3>1, <4>1
            <4>3. /\ b[i] + L <= b[i + 1]
                  /\ f.tokens[i] = SubSeq(str, b[i] + 1, b[i + 1] - L)
                  /\ SubSeq(str, (b[i + 1] - L) + 1, b[i + 1]) = sep
                  /\ ~Occurs(sep, f.tokens[i])
                BY <1>2, <3>1 DEF Cuts, L
            <4>q. QED BY <4>2, <4>3
        <3>2. CASE i = m + 1
            <4>1. i + 1 = m + 2 /\ c[i] = f.start /\ c[i + 1] = j + L /\ (j + L) - L = j
                  /\ f.start + L <= j + L
                BY <1>1, <1>2, <1>6, <2>6, <3>2
            <4>2. SubSeq(str, j + 1, j + L) = sep
                BY <1>6
            <4>q. QED BY <2>3, <2>5, <3>2, <4>1, <4>2 DEF w
        <3>q. QED BY <1>1, <3>1, <3>2
    <2>9. Cuts(c, m + 1, ts, str, sep) /\ c[(m + 1) + 1] = j + L
        <3>1. (m + 1) + 1 = m + 2 /\ 1 \in 1 .. m + 1
            BY <1>1
        <3>2. c[1] = 0
            BY <1>2, <2>6, <3>1 DEF Cuts
        <3>q. QED BY <2>6, <2>7, <2>8, <3>1, <3>2 DEF Cuts, L
    <2>10. \A p \in j + L .. (j + 1) - 1 : FALSE
        BY <1>1
    <2>11. Len(r.tokens) = m + 1 /\ (m + 1) + 1 <= slots
        BY <1>1, <1>3, <2>4, <2>5 DEF ts, m
    <2>q. QED BY <1>t, <2>4, <2>9, <2>10, <2>11 DEF Searched, r, ts
<1>q. QED BY <1>1, <1>4, <1>5, <1>6

(* What sdssplitlen returns: str, cut at its separators.                   *)
LEMMA SplitIsCut ==
    ASSUME NEW str \in Seq(Byte), str # << >>, NEW sep \in Seq(Byte), Len(sep) > 0
    PROVE  \E m \in Nat : \E b :
               LET split == Splitlen(str, sep)
               IN  /\ split.safe /\ split.tokens \in Seq(Seq(Byte)) /\ Len(split.tokens) = m + 1
                   /\ Cuts(b, m, split.tokens, str, sep)
                   /\ split.tokens[m + 1] = SubSeq(str, b[m + 1] + 1, Len(str))
                   /\ ~Occurs(sep, split.tokens[m + 1])
<1> DEFINE n == Len(str)  L == Len(sep)
           none == [start |-> 0, slots |-> 5, tokens |-> << >>, safe |-> TRUE]
           tries == IF n < L THEN 0 ELSE n - (L - 1)
           Solves(f) == f = [j \in 0 .. tries |->
                                IF j = 0 THEN none ELSE SplitAt(str, sep, f[j - 1], j - 1)]
           after == CHOOSE f : Solves(f)
           found == after[tries]
           last  == SubSeq(str, found.start + 1, n)
           split == [found EXCEPT !.tokens = Append(@, last),
                                  !.safe = @ /\ Len(found.tokens) < found.slots]
<1>1. n \in Nat /\ L \in Nat /\ L > 0 /\ n # 0
    BY EmptySeq
<1>2. Splitlen(str, sep) = split
    BY <1>1 DEF Splitlen
<1> HIDE DEF split
<1>3. tries \in Nat /\ \A j \in 1 .. tries : j - 1 \in Nat /\ (j - 1) + L <= n
    BY <1>1
<1>4. \A p \in Nat : p + L <= n => p <= tries - 1
    BY <1>1
<1> HIDE DEF tries
<1>5. none \in SplitStates /\ Searched(none, 0, str, sep)
    <2>1. none \in SplitStates /\ Len(none.tokens) = 0
        BY EmptySeq DEF SplitStates
    <2> DEFINE b == [i \in 1 .. 1 |-> 0]
    <2>2. Cuts(b, 0, << >>, str, sep) /\ b[0 + 1] = 0
        BY <1>1 DEF Cuts
    <2> HIDE DEF b
    <2>3. \A p \in 0 .. 0 - 1 : FALSE
        OBVIOUS
    <2>q. QED BY <2>1, <2>2, <2>3 DEF Searched
<1> HIDE DEF none, n, L
<1>6. Solves(after)
    <2> DEFINE Step == [q \in SplitStates \X (1 .. tries) |-> SplitAt(str, sep, q[1], q[2] - 1)]
    <2>1. \A x \in SplitStates, j \in 1 .. tries :
              /\ Step[<<x, j>>] = SplitAt(str, sep, x, j - 1)
              /\ SplitAt(str, sep, x, j - 1) \in SplitStates
        <3>1. ASSUME NEW x \in SplitStates, NEW j \in 1 .. tries
              PROVE  SplitAt(str, sep, x, j - 1) \in SplitStates
            <4>1. j - 1 \in Nat /\ j - 1 <= Len(str)
                BY <1>1, <1>3 DEF n
            <4>q. QED BY <4>1, SplitTyped
        <3>q. QED BY <3>1
    <2>2. Step \in [SplitStates \X (1 .. tries) -> SplitStates]
        BY <2>1
    <2> HIDE DEF Step
    <2>3. PICK h \in [0 .. tries -> SplitStates] : Follows(h, tries, none, Step)
        BY <1>3, <1>5, <2>2, StepsExist
    <2>4. \A j \in 0 .. tries : h[j] = IF j = 0 THEN none ELSE SplitAt(str, sep, h[j - 1], j - 1)
        <3> TAKE j \in 0 .. tries
        <3>1. CASE j = 0
            BY <2>3, <3>1 DEF Follows
        <3>2. CASE j # 0
            <4>1. j \in 1 .. tries /\ j - 1 \in 0 .. tries
                BY <1>3, <3>2
            <4>2. h[j] = Step[<<h[j - 1], j>>] /\ h[j - 1] \in SplitStates
                BY <2>3, <4>1 DEF Follows
            <4>q. QED BY <2>1, <3>2, <4>1, <4>2
        <3>q. QED BY <3>1, <3>2
    <2>5. h = [j \in 0 .. tries |-> h[j]]
        OBVIOUS
    <2>6. Solves(h)
        BY <2>4, <2>5
    <2> HIDE DEF Solves
    <2>q. QED BY <2>6
<1> HIDE DEF after
<1>7. after[0] = none /\ \A j \in 1 .. tries : after[j] = SplitAt(str, sep, after[j - 1], j - 1)
    <2>1. \A j \in 0 .. tries : after[j] = IF j = 0 THEN none
                                           ELSE SplitAt(str, sep, after[j - 1], j - 1)
        BY <1>6
    <2>2. 0 \in 0 .. tries /\ \A j \in 1 .. tries : j \in 0 .. tries /\ j # 0
        BY <1>3
    <2>q. QED BY <2>1, <2>2
<1> DEFINE P == {j \in 0 .. tries : Searched(after[j], j, str, sep)}
<1>8. 0 .. tries \subseteq P
    <2>1. 0 \in P
        BY <1>3, <1>5, <1>7
    <2>2. ASSUME NEW j \in 1 .. tries, j - 1 \in P  PROVE j \in P
        <3>1. /\ j - 1 \in Nat /\ (j - 1) + Len(sep) <= Len(str) /\ (j - 1) + 1 = j /\ j \in 0 .. tries
            BY <1>3 DEF n, L
        <3>2. Searched(after[j - 1], j - 1, str, sep)
            BY <2>2
        <3>3. Searched(SplitAt(str, sep, after[j - 1], j - 1), (j - 1) + 1, str, sep)
            BY <1>1, <3>1, <3>2, SplitStep DEF L
        <3>q. QED BY <1>7, <3>1, <3>3
    <2> HIDE DEF P
    <2>q. QED BY <1>3, <2>1, <2>2, Along
<1>9. Searched(found, tries, str, sep)
    <2>1. tries \in P
        BY <1>3, <1>8
    <2>q. QED BY <2>1
<1> HIDE DEF found
<1> DEFINE m == Len(found.tokens)
<1>10. /\ found \in SplitStates /\ found.start \in Nat /\ found.slots \in Nat
       /\ found.tokens \in Seq(Seq(Byte)) /\ found.safe = TRUE /\ m \in Nat /\ m < found.slots
       /\ \A p \in found.start .. tries - 1 : SubSeq(str, p + 1, p + L) # sep
    <2>1. /\ found \in SplitStates /\ found.start \in Nat /\ found.slots \in Nat
          /\ found.tokens \in Seq(Seq(Byte)) /\ found.safe \in BOOLEAN /\ m \in Nat
        BY <1>9 DEF Searched, SplitStates
    <2>2. found.safe = TRUE /\ m + 1 <= found.slots
        BY <1>9, <2>1 DEF Searched
    <2>3. \A p \in found.start .. tries - 1 : SubSeq(str, p + 1, p + L) # sep
        BY <1>9 DEF Searched, L
    <2>q. QED BY <2>1, <2>2, <2>3
<1>11. PICK b : Cuts(b, m, found.tokens, str, sep) /\ b[m + 1] = found.start
    BY <1>9 DEF Searched
<1>12. found.start <= n
    <2>1. m + 1 \in 1 .. m + 1
        BY <1>10
    <2>q. QED BY SMTT(30), <1>1, <1>11, <2>1 DEF Cuts, n
<1>13. last \in Seq(Byte) /\ ~Occurs(sep, last)
    <2>1. last \in Seq(Byte)
        BY <1>1, <1>10, <1>12, Segment DEF n
    <2>2. \A p \in found.start .. n - L : SubSeq(str, p + 1, p + L) # sep
        <3> TAKE p \in found.start .. n - L
        <3>1. p \in Nat /\ p + L <= n /\ found.start <= p
            BY <1>1, <1>10
        <3>2. p \in found.start .. tries - 1
            BY <1>3, <1>4, <1>10, <3>1
        <3>q. QED BY <1>10, <3>2
    <2> DEFINE a == found.start
    <2>3. a \in Nat /\ n \in Nat /\ a <= n /\ n <= n /\ \A p \in a .. n - L : SubSeq(str, p + 1, p + L) # sep
        BY <1>1, <1>10, <1>12, <2>2
    <2> HIDE DEF a
    <2>4. ~Occurs(sep, SubSeq(str, a + 1, n))
        BY <2>3, NoSeparator DEF n, L
    <2>q. QED BY <2>1, <2>4 DEF a
<1> HIDE DEF last
<1>14. split = [start |-> found.start, slots |-> found.slots, tokens |-> Append(found.tokens, last),
                safe |-> TRUE]
    <2>1. (found.safe /\ Len(found.tokens) < found.slots) = TRUE
        BY <1>10
    <2>2. found = [start |-> found.start, slots |-> found.slots, tokens |-> found.tokens,
                   safe |-> found.safe]
        BY <1>10 DEF SplitStates
    <2>3. split = [start |-> found.start, slots |-> found.slots, tokens |-> Append(found.tokens, last),
                   safe |-> found.safe /\ Len(found.tokens) < found.slots]
        <3> DEFINE ok == found.safe /\ Len(found.tokens) < found.slots
                   x  == Append(found.tokens, last)
        <3>1. split = [found EXCEPT !.tokens = x, !.safe = ok]
            BY Zenon DEF split
        <3> HIDE DEF ok, x
        <3>2. split = [start |-> found.start, slots |-> found.slots, tokens |-> x, safe |-> ok]
            BY <2>2, <3>1
        <3>q. QED BY <3>2 DEF ok, x
    <2>q. QED BY <2>1, <2>3
<1> DEFINE ts == split.tokens
<1>15. split.safe = TRUE /\ ts = Append(found.tokens, last)
    BY <1>14
<1> HIDE DEF ts
<1>16. /\ ts \in Seq(Seq(Byte)) /\ Len(ts) = m + 1 /\ ts[m + 1] = last
       /\ \A i \in 1 .. m : ts[i] = found.tokens[i]
    BY <1>10, <1>13, <1>15, AppendProperties
<1> HIDE DEF m
<1>17. Cuts(b, m, ts, str, sep)
    BY <1>11, <1>16 DEF Cuts
<1>18. last = SubSeq(str, b[m + 1] + 1, Len(str))
    BY <1>11 DEF last, n
<1>19. m \in Nat
    BY <1>10 DEF m
<1>q. QED BY <1>2, <1>13, <1>15, <1>16, <1>17, <1>18, <1>19 DEF ts

(* What is cut at separators and joined with them is what it was.          *)
LEMMA JoinIsWhole ==
    ASSUME NEW str \in Seq(Byte), Len(str) <= MaxString, NEW sep \in Seq(Byte),
           NEW m \in Nat, NEW b, NEW tokens \in Seq(Seq(Byte)), Len(tokens) = m + 1,
           Cuts(b, m, tokens, str, sep), tokens[m + 1] = SubSeq(str, b[m + 1] + 1, Len(str))
    PROVE  Holds(Joinsds(tokens, sep), str)
<1> DEFINE n == Len(str)  L == Len(sep)
           After(i) == IF i # m + 1 THEN sep ELSE << >>
           Both(x, i) == Catlen(Catlen(x, tokens[i]), After(i))
           Strings == [type : Types, len : Nat, alloc : Nat, mem : Seq(Bytes)]
           first == Newlen(<< >>)
           Solves(f) == f = [j \in 0 .. m + 1 |-> IF j = 0 THEN first ELSE Both(f[j - 1], j)]
           join == CHOOSE f : Solves(f)
           End(i) == IF i = m + 1 THEN n ELSE b[i + 1]
           w(i) == SubSeq(str, 1, End(i))
<1>1. Joinsds(tokens, sep) = join[m + 1]
    BY DEF Joinsds
<1>2. n \in Nat /\ L \in Nat /\ m + 1 \in Nat
    OBVIOUS
<1> HIDE DEF n, L
<1>3. /\ \A i \in 0 .. m + 1 : End(i) \in Nat /\ End(i) <= n
      /\ End(0) = 0 /\ End(m + 1) = n
    <2>1. 0 # m + 1 /\ 0 + 1 = 1
        OBVIOUS
    <2>2. ASSUME NEW i \in 0 .. m + 1, i # m + 1  PROVE b[i + 1] \in 0 .. n
        <3>1. i + 1 \in 1 .. m + 1
            BY <2>2
        <3>q. QED BY <3>1 DEF Cuts, n
    <2>3. b[1] = 0
        BY DEF Cuts
    <2>q. QED BY <1>2, <2>1, <2>2, <2>3
<1>4. w(0) = << >> /\ w(m + 1) = str
    <2>1. SubSeq(str, 1, 0) = << >>
        BY SubSeqEmpty
    <2>2. SubSeq(str, 1, Len(str)) = str
        BY FirstBytes, SeqEqual
    <2>q. QED BY <1>3, <2>1, <2>2 DEF n
<1>5. \A i \in 0 .. m + 1 : w(i) \in Seq(Byte) /\ Len(w(i)) = End(i)
    <2> TAKE i \in 0 .. m + 1
    <2> DEFINE e == End(i)
    <2>1. e \in Nat /\ e <= Len(str)
        BY <1>3 DEF n
    <2> HIDE DEF e
    <2>2. SubSeq(str, 1, e) \in Seq(Byte) /\ Len(SubSeq(str, 1, e)) = e
        BY <2>1, FirstBytes
    <2>q. QED BY <2>2 DEF e
<1>6. ASSUME NEW i \in 1 .. m + 1
      PROVE  /\ tokens[i] \in Seq(Byte) /\ After(i) \in Seq(Byte)
             /\ w(i) = (w(i - 1) \o tokens[i]) \o After(i)
    <2>1. tokens[i] \in Seq(Byte) /\ After(i) \in Seq(Byte)
        BY ElementOfSeq
    <2>2. i - 1 # m + 1 /\ (i - 1) + 1 = i /\ End(i - 1) = b[i]
        OBVIOUS
    <2>3. b[i] \in Nat /\ b[i] <= n
        BY <1>2 DEF Cuts, n
    <2>4. CASE i = m + 1
        <3>1. SubSeq(str, 1, b[i]) \o SubSeq(str, b[i] + 1, Len(str)) = SubSeq(str, 1, Len(str))
            <4> DEFINE a == b[i]
            <4>1. a \in Nat /\ a <= Len(str) /\ Len(str) \in Nat /\ Len(str) <= Len(str)
                BY <1>2, <2>3 DEF n
            <4> HIDE DEF a
            <4>2. SubSeq(str, 1, a) \o SubSeq(str, a + 1, Len(str)) = SubSeq(str, 1, Len(str))
                BY <4>1, Adjacent
            <4>q. QED BY <4>2 DEF a
        <3>2. w(i - 1) \o tokens[i] = w(i)
            BY <1>3, <2>2, <2>4, <3>1 DEF n
        <3>3. w(i) \o << >> = w(i)
            BY <1>5, <2>4, ConcatEmptySeq
        <3>q. QED BY <2>1, <2>4, <3>2, <3>3
    <2>5. CASE i # m + 1
        <3> DEFINE a == b[i]  e == b[i + 1]  c == e - L
        <3>0. i \in 1 .. m /\ i + 1 \in 1 .. m + 1
            BY <2>5
        <3>1. /\ a + L <= e /\ e \in 0 .. n /\ tokens[i] = SubSeq(str, a + 1, c)
              /\ SubSeq(str, c + 1, e) = sep
            BY <3>0 DEF Cuts, L, n
        <3>2. a \in Nat /\ c \in Nat /\ e \in Nat /\ a <= c /\ c <= e /\ c <= Len(str) /\ e <= Len(str)
            <4>1. a \in Nat /\ e \in Nat /\ e <= n
                BY <1>2, <2>3, <3>1
            <4>2. a + L <= e
                BY <3>1
            <4> HIDE DEF a, e
            <4>q. QED BY <1>2, <4>1, <4>2 DEF n
        <3>3. w(i - 1) = SubSeq(str, 1, a) /\ w(i) = SubSeq(str, 1, e)
            BY <2>2, <2>5
        <3> HIDE DEF a, c, e
        <3>4. SubSeq(str, 1, a) \o SubSeq(str, a + 1, c) = SubSeq(str, 1, c)
            BY <3>2, Adjacent
        <3>5. SubSeq(str, 1, c) \o SubSeq(str, c + 1, e) = SubSeq(str, 1, e)
            BY <3>2, Adjacent
        <3>6. After(i) = sep
            BY <2>5
        <3> HIDE DEF w, After
        <3>q. QED BY <2>1, <3>1, <3>3, <3>4, <3>5, <3>6
    <2>q. QED BY <2>4, <2>5
<1> HIDE DEF w, After, End
<1>7. ASSUME NEW i \in 1 .. m + 1, NEW x, Holds(x, w(i - 1))  PROVE Holds(Both(x, i), w(i))
    <2>0. 4 \in Types
        BY DEF Types
    <2> DEFINE u == w(i - 1)  t == tokens[i]  z == After(i)
    <2>1. /\ u \in Seq(Byte) /\ t \in Seq(Byte) /\ z \in Seq(Byte) /\ w(i) = (u \o t) \o z
          /\ Len(w(i)) <= MaxString
        <3>1. i - 1 \in 0 .. m + 1 /\ i \in 0 .. m + 1
            OBVIOUS
        <3>2. Len(w(i)) <= Len(str) /\ Len(w(i)) \in Nat
            BY <1>3, <1>5, <3>1 DEF n
        <3>3. MaxString \in Nat /\ Len(str) \in Nat
            BY Widths
        <3>4. Len(w(i)) <= MaxString
            BY <3>2, <3>3
        <3>q. QED BY <1>5, <1>6, <3>1, <3>4
    <2> HIDE DEF u, t, z
    <2>2. /\ u \o t \in Seq(Byte) /\ Len(u \o t) = Len(u) + Len(t)
          /\ Len(w(i)) = Len(u) + Len(t) + Len(z)
          /\ Len(u) \in Nat /\ Len(t) \in Nat /\ Len(z) \in Nat
        BY <2>1
    <2>3. /\ Len(u) + Len(t) + MaxPrealloc <= MaxLen[4]
          /\ Len(u \o t) + Len(z) + MaxPrealloc <= MaxLen[4]
        <3>1. /\ MaxLen[4] \in Nat /\ MaxPrealloc \in Nat /\ MaxString \in Nat
              /\ 2 * MaxString + MaxPrealloc + 3 <= MaxLen[4]
            BY <2>0, Widths
        <3>2. Len(u) + Len(t) + Len(z) <= MaxString
            BY <2>1, <2>2
        <3> DEFINE p == Len(u)  q == Len(t)  r == Len(z)
        <3>3. p \in Nat /\ q \in Nat /\ r \in Nat /\ p + q + r <= MaxString /\ Len(u \o t) = p + q
            BY <2>2, <3>2
        <3> HIDE DEF p, q, r
        <3>4. p + q + MaxPrealloc <= MaxLen[4] /\ (p + q) + r + MaxPrealloc <= MaxLen[4]
            BY SMTT(30), <3>1, <3>3
        <3>q. QED BY <3>3, <3>4 DEF p, q, r
    <2>4. Holds(Catlen(x, t), u \o t)
        BY <1>7, <2>1, <2>3, CatlenHolds DEF u
    <2>5. Holds(Catlen(Catlen(x, t), z), (u \o t) \o z)
        BY <2>1, <2>2, <2>3, <2>4, CatlenHolds
    <2>q. QED BY <2>1, <2>5 DEF t, z
<1>8. Holds(first, w(0))
    <2>1. << >> \in Seq(Byte) /\ Len(<< >>) = 0 /\ 0 <= MaxString
        BY Widths
    <2> DEFINE e == << >>
    <2> HIDE DEF e
    <2>2. Holds(Newlen(e), e)
        BY <2>1, NewString DEF e
    <2>q. QED BY <1>4, <2>2 DEF e
<1>9. \A x, v : Holds(x, v) => x \in Strings
    BY DEF Holds, Open, Sound
<1> HIDE DEF Strings, first, Both
<1>10. Solves(join)
    <2> DEFINE Step == [q \in Strings \X (1 .. m + 1) |->
                           IF Both(q[1], q[2]) \in Strings THEN Both(q[1], q[2]) ELSE q[1]]
    <2>1. \A x \in Strings, i \in 1 .. m + 1 :
              Step[<<x, i>>] = IF Both(x, i) \in Strings THEN Both(x, i) ELSE x
        OBVIOUS
    <2>2. Step \in [Strings \X (1 .. m + 1) -> Strings]
        OBVIOUS
    <2> HIDE DEF Step
    <2>3. first \in Strings
        BY <1>8, <1>9
    <2>4. PICK h \in [0 .. m + 1 -> Strings] : Follows(h, m + 1, first, Step)
        BY <1>2, <2>2, <2>3, StepsExist
    <2> DEFINE P == {i \in 0 .. m + 1 : Holds(h[i], w(i))}
    <2>5. 0 \in P
        BY <1>8, <2>4 DEF Follows
    <2>6. ASSUME NEW i \in 1 .. m + 1, i - 1 \in P  PROVE i \in P /\ h[i] = Both(h[i - 1], i)
        <3>1. h[i] = Step[<<h[i - 1], i>>] /\ i - 1 \in 0 .. m + 1 /\ i \in 0 .. m + 1
            BY <2>4 DEF Follows
        <3>2. Holds(h[i - 1], w(i - 1)) /\ h[i - 1] \in Strings
            BY <2>6, <3>1
        <3>3. Holds(Both(h[i - 1], i), w(i))
            BY <1>7, <3>2
        <3>4. h[i] = Both(h[i - 1], i)
            BY <1>9, <2>1, <3>1, <3>2, <3>3
        <3>q. QED BY <3>1, <3>3, <3>4
    <2>7. 0 .. m + 1 \subseteq P
        <3>1. \A i \in 1 .. m + 1 : i - 1 \in P => i \in P
            BY <2>6
        <3> HIDE DEF P
        <3>q. QED BY <1>2, <2>5, <3>1, Along
    <2>8. \A j \in 0 .. m + 1 : h[j] = IF j = 0 THEN first ELSE Both(h[j - 1], j)
        <3> TAKE j \in 0 .. m + 1
        <3>1. CASE j = 0
            BY <2>4, <3>1 DEF Follows
        <3>2. CASE j # 0
            <4>1. j \in 1 .. m + 1 /\ j - 1 \in 0 .. m + 1
                BY <3>2
            <4>2. j - 1 \in P
                BY <2>7, <4>1
            <4> HIDE DEF P
            <4>q. QED BY <2>6, <3>2, <4>1, <4>2
        <3>q. QED BY <3>1, <3>2
    <2>9. h = [j \in 0 .. m + 1 |-> h[j]]
        OBVIOUS
    <2>10. Solves(h)
        BY <2>8, <2>9
    <2> HIDE DEF Solves
    <2>q. QED BY <2>10
<1> HIDE DEF join
<1>11. join[0] = first /\ \A j \in 1 .. m + 1 : join[j] = Both(join[j - 1], j)
    <2>1. \A j \in 0 .. m + 1 : join[j] = IF j = 0 THEN first ELSE Both(join[j - 1], j)
        BY <1>10
    <2>2. 0 \in 0 .. m + 1 /\ \A j \in 1 .. m + 1 : j \in 0 .. m + 1 /\ j # 0
        OBVIOUS
    <2>q. QED BY <2>1, <2>2
<1> DEFINE P == {i \in 0 .. m + 1 : Holds(join[i], w(i))}
<1>12. 0 .. m + 1 \subseteq P
    <2>1. 0 \in P
        BY <1>8, <1>11
    <2>2. ASSUME NEW i \in 1 .. m + 1, i - 1 \in P  PROVE i \in P
        <3>1. Holds(join[i - 1], w(i - 1)) /\ i \in 0 .. m + 1
            BY <2>2
        <3>q. QED BY <1>7, <1>11, <3>1
    <2> HIDE DEF P
    <2>q. QED BY <1>2, <2>1, <2>2, Along
<1>13. m + 1 \in P
    BY <1>12
<1>q. QED BY <1>1, <1>4, <1>13

(* Splitting a string and joining the tokens gives the string, no token    *)
(* holds the separator, and no token is written out of the array           *)
(* (sdssplitlen, sdsjoinsds).                                              *)
THEOREM SplitAndJoin == Spec => []SplitJoin
<1>1. StringInv => SplitJoin
    <2> SUFFICES ASSUME StringInv, NEW sep \in Seps \ {<< >>}
                 PROVE  LET split == Splitlen(value, sep)
                        IN  /\ split.safe
                            /\ Content(Joinsds(split.tokens, sep)) = value
                            /\ \A i \in DOMAIN split.tokens : ~Occurs(sep, split.tokens[i])
        BY DEF SplitJoin
    <2> DEFINE split == Splitlen(value, sep)
    <2>1. value \in Seq(Byte) /\ Len(value) <= MaxString
        BY Basics DEF StringInv, Holds
    <2>2. sep \in Seq(Byte) /\ Len(sep) > 0
        <3>1. sep \in Seq(Byte \ {NUL}) /\ sep # << >>
            BY BytesOK
        <3>2. Len(sep) \in Nat \ {0}
            BY <3>1, EmptySeq
        <3>q. QED BY <3>1, <3>2
    <2>3. CASE value = << >>
        <3>1. split = [start |-> 0, slots |-> 5, tokens |-> << >>, safe |-> TRUE]
            BY <2>3 DEF Splitlen
        <3>2. Joinsds(<< >>, sep) = Newlen(<< >>)
            <4> DEFINE Solves(f) == f = [j \in 0 .. Len(<< >>) |-> IF j = 0 THEN Newlen(<< >>)
                           ELSE Catlen(Catlen(f[j - 1], << >>[j]),
                                       IF j # Len(<< >>) THEN sep ELSE << >>)]
                       join == CHOOSE f : Solves(f)
            <4>1. Joinsds(<< >>, sep) = join[Len(<< >>)]
                BY DEF Joinsds
            <4>2. Len(<< >>) = 0
                OBVIOUS
            <4>3. \E f : Solves(f)
                <5> DEFINE g == [j \in 0 .. 0 |-> Newlen(<< >>)]
                <5>1. g = [j \in 0 .. Len(<< >>) |-> IF j = 0 THEN Newlen(<< >>)
                           ELSE Catlen(Catlen(g[j - 1], << >>[j]),
                                       IF j # Len(<< >>) THEN sep ELSE << >>)]
                    BY <4>2
                <5>q. QED BY <5>1
            <4>4. Solves(join)
                BY <4>3
            <4> HIDE DEF join
            <4>q. QED BY <4>1, <4>2, <4>4
        <3>3. Holds(Newlen(<< >>), << >>)
            <4> DEFINE e == << >>
            <4>1. e \in Seq(Byte) /\ Len(e) = 0 /\ 0 <= MaxString
                BY Widths
            <4> HIDE DEF e
            <4>2. Holds(Newlen(e), e)
                BY <4>1, NewString
            <4>q. QED BY <4>2 DEF e
        <3>4. Content(Newlen(<< >>)) = << >>
            BY <3>3, ContentIs
        <3>q. QED BY <2>3, <3>1, <3>2, <3>4
    <2>4. CASE value # << >>
        <3>p. PICK m \in Nat : \E b :
                  /\ split.safe /\ split.tokens \in Seq(Seq(Byte)) /\ Len(split.tokens) = m + 1
                  /\ Cuts(b, m, split.tokens, value, sep)
                  /\ split.tokens[m + 1] = SubSeq(value, b[m + 1] + 1, Len(value))
                  /\ ~Occurs(sep, split.tokens[m + 1])
            BY <2>1, <2>2, <2>4, SplitIsCut
        <3>1. PICK b :
                  /\ split.safe /\ split.tokens \in Seq(Seq(Byte)) /\ Len(split.tokens) = m + 1
                  /\ Cuts(b, m, split.tokens, value, sep)
                  /\ split.tokens[m + 1] = SubSeq(value, b[m + 1] + 1, Len(value))
                  /\ ~Occurs(sep, split.tokens[m + 1])
            BY <3>p
        <3> HIDE DEF split
        <3>2. Holds(Joinsds(split.tokens, sep), value)
            BY <2>1, <2>2, <3>1, JoinIsWhole
        <3>3. Content(Joinsds(split.tokens, sep)) = value
            BY <3>2, ContentIs
        <3>4. ASSUME NEW i \in DOMAIN split.tokens  PROVE ~Occurs(sep, split.tokens[i])
            <4>1. i \in 1 .. m + 1
                BY <3>1
            <4>2. CASE i = m + 1
                BY <3>1, <4>2
            <4>3. CASE i # m + 1
                <5>1. i \in 1 .. m
                    BY <4>1, <4>3
                <5>q. QED BY <3>1, <5>1 DEF Cuts
            <4>q. QED BY <4>2, <4>3
        <3>q. QED BY <3>1, <3>3, <3>4 DEF split
    <2>q. QED BY <2>3, <2>4
<1>q. QED BY <1>1, StringInvariant, PTL
=============================================================================
