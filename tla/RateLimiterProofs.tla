------------------------- MODULE RateLimiterProofs -------------------------
(***************************************************************************)
(* What TLAPS proves of RateLimiter, for every set of backends, mappings   *)
(* and users, every plan, every number of requests and every interleaving. *)
(***************************************************************************)
EXTENDS RateLimiter, FiniteSetTheorems, TLAPS

(* Counting the periods of two intervals apart never yields more of them   *)
(* than counting those of the whole.                                       *)
LEMMA DivSuperadditive ==
    ASSUME NEW p \in Nat \ {0}, NEW x \in Nat, NEW y \in Nat
    PROVE  (x \div p) + (y \div p) <= (x + y) \div p
<1> DEFINE qx == x \div p
           qy == y \div p
           q  == (x + y) \div p
<1>1. /\ qx \in Int /\ p * qx <= x
      /\ qy \in Int /\ p * qy <= y
  BY SMT
<1>2. q \in Int /\ x + y < p * (q + 1)
  BY SMT
<1>3. p * (qx + qy) < p * (q + 1)
  BY <1>1, <1>2, SMT
<1>4. qx + qy < q + 1
  BY <1>1, <1>2, <1>3, SMT
<1> QED  BY <1>1, <1>2, <1>4, SMT

(* A longer period fits no more often into an interval.                    *)
LEMMA DivAntitone ==
    ASSUME NEW p \in Nat \ {0}, NEW q \in Nat \ {0}, p <= q, NEW x \in Nat
    PROVE  /\ x \div q <= x \div p
           /\ x \div q \in Nat
           /\ x \div p <= x
BY SMT

(* TIMEVALDIFF is a number of milliseconds, also of an earlier time.       *)
LEMMA TimevalInteger ==
    ASSUME NEW s \in Int, NEW e \in Int  PROVE TIMEVALDIFF(e, s) \in Int
<1>1. \A x \in Int, y \in {1000, 1000000} : x \div y \in Int /\ x % y \in Int
  OBVIOUS
<1>2. /\ TvSec(e) - TvSec(s) \in Int
      /\ TvUsec(e) - TvUsec(s) \in Int
  BY <1>1 DEF TvSec, TvUsec, UsecPerSec
<1>3. \A x \in Int : CDiv(x, UsecPerMsec) \in Int
  BY SMT DEF CDiv, UsecPerMsec
<1> QED  BY <1>2, <1>3, SMT DEF TIMEVALDIFF

(* TIMEVALDIFF of a later time is a natural number that VirtualMsec, which *)
(* telescopes, bounds from above.                                          *)
LEMMA TimevalBounds ==
    ASSUME NEW s \in Nat, NEW e \in Nat, s <= e
    PROVE  /\ TIMEVALDIFF(e, s) \in Nat
           /\ TIMEVALDIFF(e, s) <= VirtualMsec(e) - VirtualMsec(s)
           /\ VirtualMsec(s) \in Nat
           /\ VirtualMsec(e) \in Nat
           /\ VirtualMsec(s) <= VirtualMsec(e)
BY SMTT(30) DEF TIMEVALDIFF, VirtualMsec, CDiv, TvSec, TvUsec, UsecPerMsec, UsecPerSec

(* A sleep of the rest of the period is long enough, however the macro     *)
(* rounded the time that had passed before it.                             *)
LEMMA OneSleepIsEnough ==
    ASSUME NEW s \in Nat, NEW e \in Nat, NEW f \in Nat, s <= e,
           NEW p \in 1 .. 1000, NEW d \in Nat, d = TIMEVALDIFF(e, s), d < p,
           f >= e + (p - d) * UsecPerMsec
    PROVE  TIMEVALDIFF(f, s) >= p
BY SMTT(30) DEF TIMEVALDIFF, CDiv, TvSec, TvUsec, UsecPerMsec, UsecPerSec
-----------------------------------------------------------------------------
(* Whatever integer the option is, the rate is positive.                   *)
LEMMA RateType ==
    ASSUME NEW opt \in Int
    PROVE  /\ EffectiveRate(opt) \in Nat \ {0}
           /\ PeriodOf(opt) \in Nat
BY SMT DEF EffectiveRate, PeriodOf

(* A conversion to int yields an integer.                                  *)
LEMMA ToIntType ==
    ASSUME NEW n \in Int
    PROVE  ToInt(n) \in Int
<1>1. IntMax \in Nat
  BY ConstantsOK
<1> QED  BY <1>1, SMT DEF ToInt

(* The statistics of a reply are again Counters.                           *)
LEMMA AccountType ==
    ASSUME NEW e \in Counters, NEW tm \in Int, NEW reply \in Replies
    PROVE  Account(e, tm, reply) \in Counters
<1> DEFINE c  == e.calls + 1
           tt == e.total_time + tm
           called == [e EXCEPT !.calls = c, !.total_time = tt]
<1>1. called \in Counters
  <2>1. c \in Nat /\ tt \in Int
    BY DEF Counters
  <2> HIDE DEF c, tt
  <2> QED  BY <2>1 DEF Counters
<1>2. CASE Granted(reply)
  <2>1. reply.rate \in RateInfo
    BY DEF RateInfo
  <2>2. [called EXCEPT !.success_calls = @ + 1, !.rate_info = reply.rate] \in Counters
    <3> DEFINE sc == called.success_calls + 1
    <3> HIDE DEF called
    <3>1. sc \in Nat
      BY <1>1 DEF Counters
    <3> HIDE DEF sc
    <3>2. [called EXCEPT !.success_calls = sc, !.rate_info = reply.rate] \in Counters
      BY <1>1, <2>1, <3>1 DEF Counters
    <3> QED  BY <3>2 DEF sc
  <2> QED  BY <1>2, <2>2 DEF Account
<1>3. CASE ~Granted(reply)
  BY <1>1, <1>3 DEF Account
<1> QED  BY <1>2, <1>3

(* A request that goes to sleep is again a Request.                        *)
LEMMA NappingType ==
    ASSUME NEW r \in Request, NEW t \in Int
    PROVE  Napping(r, t) \in Request
<1> DEFINE n == Least(r.sleeps + 1, 3)
<1>1. n \in 0 .. 3
  BY DEF Request, Least
<1> HIDE DEF n
<1>2. [r EXCEPT !.wakeAt = t, !.sleeps = n] \in Request
  BY <1>1 DEF Request
<1> QED  BY <1>2 DEF n, Napping

(* Any option that a mapping takes is an integer.                          *)
LEMMA ValuesType == Values \subseteq Int
BY ConstantsOK DEF Values

(* The operands of the throttle have their types while it runs.            *)
LEMMA PermitsType ==
    ASSUME TypeOK, NEW b \in Backend, pc[b] # "idle"
    PROVE  /\ Key(b) \in User
           /\ Entry(b) \in Counters
           /\ req[b] \in Request
           /\ Wall \in Int
           /\ Ival(b) \in Int
           /\ Permits(b) \in Int
<1>1. /\ req[b] \in Request
      /\ req[b].map \in Mapping
  BY DEF TypeOK
<1>2. Key(b) \in User
  BY <1>1, ConstantsOK DEF Key
<1>3. Entry(b) \in Counters
  BY <1>2 DEF TypeOK, Entry
<1>4. Wall \in Int
  BY SMT DEF TypeOK, Wall
<1>5. req[b].start \in Int /\ Entry(b).ts \in Int /\ Entry(b).tokens \in Int /\ req[b].opt \in Int
  BY <1>1, <1>3 DEF Request, Counters
<1>6. Ival(b) \in Int
  BY <1>5, SMT DEF Ival, TIMEVALDIFF, CDiv, TvSec, TvUsec, UsecPerMsec, UsecPerSec
<1>7. Permits(b) \in Int
  <2> DEFINE period == PeriodOf(req[b].opt)
             added  == IF period = 0 THEN 0 ELSE CDiv(Ival(b), period)
  <2>1. period \in Nat
    BY <1>5, RateType
  <2> HIDE DEF period
  <2>2. added \in Int
    BY <2>1, <1>6, SMT DEF CDiv
  <2> HIDE DEF added
  <2>3. ToInt(Entry(b).tokens + added) \in Int
    BY <2>2, <1>5, ToIntType
  <2> QED  BY <2>3 DEF Permits, period, added
<1> QED  BY <1>1, <1>2, <1>3, <1>4, <1>6, <1>7

-----------------------------------------------------------------------------
(* A server starts with every variable in its type.                        *)
LEMMA InitType == Init => TypeOK
<1> SUFFICES ASSUME Init  PROVE TypeOK
  OBVIOUS
<1>1. now \in 0 .. MaxClock /\ offset \in Int
  BY ConstantsOK DEF Init
<1>2. ZeroCounters \in Counters
  BY DEF ZeroCounters, Counters, RateInfo
<1>3. IdleRequest \in Request
  BY DEF IdleRequest, Request
<1>4. sent \in [Backend -> [User -> Seq(SentRecord)]]
  BY DEF Init
<1>5. \A b \in Backend, u \in User : base[b][u] <= Len(sent[b][u])
  BY DEF Init
<1> QED  BY <1>1, <1>2, <1>3, <1>4, <1>5 DEF Init, TypeOK

(* Each step keeps the types: one lemma step per action.                   *)
LEMMA NextType == TypeOK /\ [Next]_vars => TypeOK'
<1> SUFFICES ASSUME TypeOK, [Next]_vars  PROVE TypeOK'
  OBVIOUS
<1> USE DEF TypeOK
<1>1. ASSUME NEW b \in Backend, NEW m \in Mapping, BeginRequest(b, m)
      PROVE  TypeOK'
  <2>1. UserOf[m] \in User /\ option[m] \in Values /\ option[m] \in Int
    BY ConstantsOK, ValuesType
  <2>2. Wall \in Int
    BY SMT DEF Wall
  <2>3. [ZeroCounters EXCEPT !.tokens = option[m], !.ts = Wall] \in Counters
    <3>1. ZeroCounters \in Counters
      BY DEF ZeroCounters, Counters, RateInfo
    <3> QED  BY <2>1, <2>2, <3>1 DEF Counters
  <2>4. counters' \in [Backend -> [User -> Counters]]
    BY <1>1, <2>1, <2>3 DEF BeginRequest, GetCounters
  <2>5. [IdleRequest EXCEPT !.map = m, !.opt = option[m]] \in Request
    <3>1. IdleRequest \in Request
      BY DEF IdleRequest, Request
    <3> QED  BY <2>1, <3>1 DEF Request
  <2>6. hash' \in [Backend -> SUBSET User]
    BY <1>1, <2>1 DEF BeginRequest, GetCounters
  <2>7. req' \in [Backend -> Request]
    BY <1>1, <2>5 DEF BeginRequest
  <2>8. \A c \in Backend : pc'[c] # "idle" => /\ req'[c].map \in Mapping
                                              /\ req'[c].opt \in Values
                                              /\ Key(c)' \in hash'[c]
    BY <1>1, <2>1 DEF BeginRequest, GetCounters, IdleRequest, Key
  <2> QED  BY <1>1, <2>4, <2>6, <2>7, <2>8 DEF BeginRequest
<1>2. ASSUME NEW b \in Backend, ReadClock(b)
      PROVE  TypeOK'
  <2>1. Wall \in Int
    BY SMT DEF Wall
  <2>2. req' \in [Backend -> Request]
    BY ZenonT(30), <1>2, <2>1 DEF ReadClock, Request
  <2>3. \A c \in Backend : pc'[c] # "idle" => /\ req'[c].map \in Mapping
                                              /\ req'[c].opt \in Values
                                              /\ Key(c)' \in hash'[c]
    BY <1>2 DEF ReadClock, Request, Key
  <2> QED  BY <1>2, <2>2, <2>3 DEF ReadClock
<1>3. ASSUME NEW b \in Backend, Sleep(b)
      PROVE  TypeOK'
  <2>1. req[b] \in Request /\ req[b].opt \in Int /\ Ival(b) \in Int
    BY <1>3, PermitsType DEF Sleep, Request
  <2>2. PeriodOf(req[b].opt) \in Nat
    BY <2>1, RateType
  <2>3. now + Delay(b) \in Int
    BY <2>1, <2>2, SMT DEF Delay, UsecPerMsec
  <2>4. req' \in [Backend -> Request]
    BY <1>3, <2>1, <2>3, NappingType DEF Sleep
  <2>5. \A c \in Backend : pc'[c] # "idle" => /\ req'[c].map \in Mapping
                                              /\ req'[c].opt \in Values
                                              /\ Key(c)' \in hash'[c]
    BY <1>3 DEF Sleep, Napping, Request, Key
  <2> QED  BY <1>3, <2>4, <2>5 DEF Sleep
<1>4. ASSUME NEW b \in Backend, Wake(b)
      PROVE  TypeOK'
  BY <1>4 DEF Wake, Key
<1>5. ASSUME NEW b \in Backend, Admit(b)
      PROVE  TypeOK'
  <2>1. /\ Key(b) \in User
        /\ req[b] \in Request
        /\ req[b].map \in Mapping
        /\ Permits(b) \in Int
    BY <1>5, PermitsType DEF Admit
  <2>2. EffectiveRate(req[b].opt) \in Nat
    BY <2>1, RateType DEF Request
  <2>3. Least(EffectiveRate(req[b].opt), Permits(b)) - 1 \in Int
    BY <2>1, <2>2 DEF Least
  <2>4. ToInt(Least(EffectiveRate(req[b].opt), Permits(b)) - 1) \in Int
    BY <2>3, ToIntType
  <2>5. counters' \in [Backend -> [User -> Counters]]
    <3>1. counters[b][Key(b)] \in Counters
      BY <2>1
    <3>2. [counters[b][Key(b)] EXCEPT
              !.tokens = ToInt(Least(EffectiveRate(req[b].opt), Permits(b)) - 1),
              !.ts = req[b].start] \in Counters
      BY <2>1, <2>4, <3>1 DEF Counters, Request
    <3> QED  BY <1>5, <2>1, <3>2 DEF Admit
  <2>6. [map |-> req[b].map, at |-> req[b].start, left |-> now, reply |-> {}] \in SentRecord
    BY <2>1 DEF SentRecord, Request
  <2>7. sent' \in [Backend -> [User -> Seq(SentRecord)]]
    BY <1>5, <2>1, <2>6 DEF Admit
  <2>8. \A c \in Backend, u \in User : base[c][u] <= Len(sent'[c][u])
    BY SMTT(30), <1>5, <2>1, <2>6 DEF Admit
  <2> QED  BY <1>5, <2>5, <2>7, <2>8 DEF Admit, Key
<1>6. ASSUME NEW b \in Backend, Trap(b)
      PROVE  TypeOK'
  <2>1. IdleRequest \in Request
    BY DEF IdleRequest, Request
  <2> QED  BY <1>6, <2>1 DEF Trap, Key
<1>7. ASSUME NEW b \in Backend, NEW reply \in Replies, Reply(b, reply)
      PROVE  TypeOK'
  <2>1. /\ Key(b) \in User
        /\ Entry(b) \in Counters
        /\ req[b] \in Request
        /\ Wall \in Int
    BY <1>7, PermitsType DEF Reply
  <2>2. TIMEVALDIFF(Wall, req[b].start) \in Int
    <3>1. req[b].start \in Int
      BY <2>1 DEF Request
    <3> QED
      BY <2>1, <3>1, TimevalInteger
  <2>3. counters' \in [Backend -> [User -> Counters]]
    BY <1>7, <2>1, <2>2, AccountType DEF Reply, Entry
  <2>4. /\ sent' \in [Backend -> [User -> Seq(SentRecord)]]
        /\ \A c \in Backend, u \in User : Len(sent'[c][u]) = Len(sent[c][u])
    <3> DEFINE log  == sent[b][Key(b)]
               n    == Len(log)
               last == [log[n] EXCEPT !.reply = {reply}]
               new  == [log EXCEPT ![n] = last]
    <3>1. log \in Seq(SentRecord) /\ n \in Nat
      BY <2>1
    <3>2. n > 0 => last \in SentRecord
      <4>1. n > 0 => log[n] \in SentRecord
        BY <3>1
      <4> QED  BY <4>1 DEF SentRecord
    <3>3. sent' = [sent EXCEPT ![b][Key(b)] = new]
      BY <1>7 DEF Reply
    <3> HIDE DEF last
    <3>4. new \in Seq(SentRecord) /\ Len(new) = n
      <4>1. CASE n = 0
        <5>1. new = log
          BY <3>1, <4>1
        <5> QED  BY <3>1, <5>1
      <4>2. CASE n > 0
        BY <3>1, <3>2, <4>2
      <4> QED  BY <3>1, <4>1, <4>2
    <3> HIDE DEF new
    <3> QED  BY <2>1, <3>3, <3>4
  <2>5. IdleRequest \in Request
    BY DEF IdleRequest, Request
  <2> QED  BY Zenon, <1>7, <2>3, <2>4, <2>5 DEF Reply, Key
<1>8. ASSUME NEW b \in Backend, Exit(b)
      PROVE  TypeOK'
  <2>1. ZeroCounters \in Counters /\ IdleRequest \in Request
    BY DEF ZeroCounters, Counters, RateInfo, IdleRequest, Request
  <2>2. \A u \in User : Len(sent[b][u]) \in Nat
    OBVIOUS
  <2>3. base' \in [Backend -> [User -> Nat]]
    BY <1>8, <2>2 DEF Exit
  <2>4. \A c \in Backend, u \in User : base'[c][u] <= Len(sent'[c][u])
    BY <1>8, <2>2 DEF Exit
  <2> QED  BY <1>8, <2>1, <2>3, <2>4 DEF Exit, Key
<1>9. ASSUME Pass
      PROVE  TypeOK'
  <2>1. PICK t \in {now + d : d \in Ticks} \union Deadlines : Tick(t)
    BY <1>9 DEF Pass
  <2>2. t \in Int
    BY <2>1, ConstantsOK DEF Deadlines, Request
  <2>3. now' \in 0 .. MaxClock
    BY <2>1, <2>2, ConstantsOK, SMT DEF Tick
  <2> QED  BY <2>1, <2>3 DEF Tick, Key
<1>10. ASSUME NEW d \in JumpBacks, SetBack(d)
       PROVE  TypeOK'
  <2>1. offset' \in Int
    BY <1>10, ConstantsOK DEF SetBack
  <2> QED  BY <1>10, <2>1 DEF SetBack, Key
<1>11. ASSUME NEW m \in Mapping, NEW opt \in Values, AlterMapping(m, opt)
       PROVE  TypeOK'
  BY <1>11 DEF AlterMapping, Key
<1>12. CASE UNCHANGED vars
  BY <1>12 DEF vars, Key
<1> QED
  BY <1>1, <1>2, <1>3, <1>4, <1>5, <1>6, <1>7, <1>8, <1>9, <1>10, <1>11, <1>12
  DEF Next, Step

(* In every state that any number of backends can reach, whatever the      *)
(* options, the clock and the API do, every variable has its type, and a   *)
(* backend that waits or sends has an entry in its own hash table.         *)
THEOREM TypeCorrect == Spec => []TypeOK
<1>1. Init => TypeOK
  BY InitType
<1>2. TypeOK /\ [Next]_vars => TypeOK'
  BY NextType
<1> QED  BY <1>1, <1>2, PTL DEF Spec
-----------------------------------------------------------------------------
(* The envelope, where the bucket works (Settled).                         *)

(* An int holds what is not larger than IntMax.                            *)
LEMMA ToIntSmall ==
    ASSUME NEW n \in 0 .. IntMax
    PROVE  ToInt(n) = n
<1> DEFINE w == IntMax + 1
           x == n + w
<1>1. w \in Nat /\ w > 0 /\ x \in 0 .. 2 * w - 1
  BY ConstantsOK
<1>2. x % (2 * w) = x
  <2> HIDE DEF x, w
  <2> QED  BY <1>1, SMT
<1> QED  BY <1>1, <1>2, ConstantsOK DEF ToInt

(* Every plan refills the bucket no faster than the largest one.           *)
LEMMA PlanBounds ==
    ASSUME Settled, NEW opt \in Values
    PROVE  /\ opt \in 0 .. TopRate
           /\ EffectiveRate(opt) \in 1 .. TopRate
           /\ PeriodOf(opt) \in 1 .. 1000
           /\ PeriodOf(TopRate) \in 1 .. PeriodOf(opt)
<1>1. opt \in Nat /\ EffectiveRate(opt) \in 1 .. TopRate /\ TopRate \in 1 .. 1000
  BY TopRateOK DEF Settled, EffectiveRate
<1>2. opt \in 0 .. TopRate
  BY <1>1 DEF EffectiveRate
<1> DEFINE r == EffectiveRate(opt)
<1>3. r \in 1 .. TopRate
  BY <1>1
<1> HIDE DEF r
<1>4. /\ 1000 \div TopRate <= 1000 \div r
      /\ 1000 \div r <= 1000
      /\ 1000 \div TopRate \in Nat
      /\ 1000 \div r \in Nat
  <2>1. 1000 \div TopRate <= 1000 \div r
    <3> DEFINE second == 1000
    <3>1. /\ r \in Nat \ {0} /\ TopRate \in Nat \ {0} /\ r <= TopRate
          /\ second \in Nat
      BY <1>1, <1>3
    <3>2. second \div TopRate <= second \div r
      <4> HIDE DEF second
      <4> QED  BY <3>1, DivAntitone
    <3> QED  BY <3>2
  <2> QED  BY <1>1, <1>3, <2>1, SMT
<1>5. 1000 \div TopRate >= 1
  BY <1>1, SMT
<1>6. PeriodOf(TopRate) = 1000 \div TopRate
  BY <1>1 DEF PeriodOf, EffectiveRate
<1> QED  BY SMTT(30), <1>1, <1>2, <1>4, <1>5, <1>6 DEF PeriodOf, r

(* The shortest period of any plan is a number of milliseconds, not zero.  *)
LEMMA TopPeriod ==
    ASSUME Settled
    PROVE  PeriodOf(TopRate) \in 1 .. 1000 /\ TopRate \in 1 .. 1000
<1>1. TopRate \in 1 .. 1000
  BY TopRateOK DEF Settled
<1> QED  BY <1>1, SMT DEF PeriodOf, EffectiveRate

(* What is earned over two adjacent intervals is earned over the whole.    *)
LEMMA EarnedAdds ==
    ASSUME Settled, NEW r \in Nat, NEW s \in Nat, NEW t \in Nat, r <= s, s <= t
    PROVE  /\ Earned(r, s) \in Nat
           /\ Earned(s, t) \in Nat
           /\ Earned(r, t) \in Nat
           /\ Earned(r, s) + Earned(s, t) <= Earned(r, t)
<1> DEFINE p == PeriodOf(TopRate)
           x == VirtualMsec(s) - VirtualMsec(r)
           y == VirtualMsec(t) - VirtualMsec(s)
<1>1. p \in Nat \ {0}
  BY SMTT(30), TopPeriod
<1>2. x \in Nat /\ y \in Nat /\ x + y = VirtualMsec(t) - VirtualMsec(r)
  <2>1. /\ VirtualMsec(r) \in Nat /\ VirtualMsec(s) \in Nat /\ VirtualMsec(t) \in Nat
        /\ VirtualMsec(r) <= VirtualMsec(s) /\ VirtualMsec(s) <= VirtualMsec(t)
    BY TimevalBounds
  <2> QED  BY <2>1
<1> HIDE DEF p, x, y
<1>3. (x \div p) + (y \div p) <= (x + y) \div p
  BY <1>1, <1>2, DivSuperadditive
<1>4. x \div p \in Nat /\ y \div p \in Nat /\ (x + y) \div p \in Nat
  BY <1>1, <1>2, SMT
<1> QED  BY <1>2, <1>3, <1>4 DEF Earned, p, x, y

(* One more admission keeps the envelope that starts at time a, when m     *)
(* were admitted since, g tokens remain, p permits were computed and k are *)
(* left.                                                                   *)
LEMMA EnvelopeStep ==
    ASSUME Settled, NEW a \in Nat, NEW t \in Nat, NEW s \in Nat, a <= t, t <= s,
           NEW m \in Nat, NEW g \in Nat, NEW p \in Nat, NEW k \in Nat,
           m + g <= (TopRate - 1) + Earned(a, t),
           p <= g + Earned(t, s),
           k <= p - 1
    PROVE  (m + 1) + k <= (TopRate - 1) + Earned(a, s)
<1>1. /\ Earned(a, t) \in Nat /\ Earned(t, s) \in Nat /\ Earned(a, s) \in Nat
      /\ Earned(a, t) + Earned(t, s) <= Earned(a, s)
  BY EarnedAdds
<1> QED  BY <1>1, TopRateOK

(* The inductive invariant.                                                *)
IndInv == TypeOK /\ offset = 0 /\ LoopInv /\ BucketInv

(* The loop computes no more permits than the envelope allows.             *)
LEMMA PermitsBound ==
    ASSUME Settled, IndInv, NEW b \in Backend, pc[b] = "throttle"
    PROVE  /\ Permits(b) \in Nat
           /\ Permits(b) <= Entry(b).tokens + Earned(Entry(b).ts, req[b].start)
           /\ Ival(b) \div PeriodOf(req[b].opt) <= Permits(b)
           /\ Ival(b) \in Nat
<1> DEFINE s == req[b].start
           k == Entry(b).tokens
           t == Entry(b).ts
           p == PeriodOf(req[b].opt)
           q == PeriodOf(TopRate)
           d == TIMEVALDIFF(s, t)
<1>1. Key(b) \in User /\ req[b].opt \in Values
  BY PermitsType DEF IndInv, TypeOK
<1>2. /\ s \in Nat /\ t \in Nat /\ t <= s /\ s <= MaxClock
      /\ k \in 0 .. TopRate
  <2>1. BucketOK(b, Key(b))
    BY <1>1 DEF IndInv, BucketInv
  <2>2. Wall \in 0 .. MaxClock
    BY DEF IndInv, TypeOK, Wall
  <2> QED  BY <2>1, <2>2, ConstantsOK DEF IndInv, LoopInv, BucketOK, Entry
<1>3. p \in 1 .. 1000 /\ q \in 1 .. p
  BY <1>1, PlanBounds
<1> DEFINE v == VirtualMsec(s) - VirtualMsec(t)
<1>4. /\ d \in Nat /\ v \in Nat /\ d <= v
      /\ v <= VirtualMsec(MaxClock)
  <2> HIDE DEF s, t
  <2>1. /\ d \in Nat /\ d <= VirtualMsec(s) - VirtualMsec(t)
        /\ VirtualMsec(s) \in Nat /\ VirtualMsec(t) \in Nat
        /\ VirtualMsec(t) <= VirtualMsec(s)
    BY <1>2, TimevalBounds
  <2>2. VirtualMsec(MaxClock) \in Nat /\ VirtualMsec(s) <= VirtualMsec(MaxClock)
    BY <1>2, TimevalBounds, ConstantsOK
  <2> QED  BY <2>1, <2>2
<1>6. VirtualMsec(MaxClock) \in Nat /\ TopRate \in Nat /\ IntMax \in Nat
        /\ TopRate + VirtualMsec(MaxClock) <= IntMax
  BY TimevalBounds, ConstantsOK, TopRateOK DEF Settled
<1>7. Ival(b) = d
  BY DEF Ival
<1>8. Permits(b) = ToInt(k + (d \div p))
  BY <1>3, <1>4, <1>7 DEF Permits, CDiv
<1>9. Earned(t, s) = v \div q
  BY DEF Earned
<1> HIDE DEF s, k, t, p, q, d, v
<1>10. d \div p \in Nat /\ d \div p <= v \div p /\ d \div p <= d
  <2>1. d \div p \in Nat /\ v \div p \in Nat
    BY <1>3, <1>4, SMT
  <2>2. d \div p <= v \div p
    BY <1>3, <1>4, SMT
  <2>3. d \div p <= d
    BY <1>3, <1>4, DivAntitone
  <2> QED  BY <2>1, <2>2, <2>3
<1>11. v \div p <= v \div q /\ v \div q \in Nat /\ v \div p \in Nat
  <2>1. p \in Nat \ {0} /\ q \in Nat \ {0} /\ q <= p
    BY <1>3
  <2>2. v \div p <= v \div q
    BY <1>4, <2>1, DivAntitone
  <2> QED  BY <1>4, <2>1, <2>2, SMT
<1>12. k + (d \div p) \in 0 .. IntMax
  BY <1>2, <1>4, <1>6, <1>10
<1>13. Permits(b) = k + (d \div p)
  BY <1>8, <1>12, ToIntSmall
<1> QED  BY <1>2, <1>4, <1>7, <1>9, <1>10, <1>11, <1>13 DEF k, t, s, p

(* A server starts with empty tables, which satisfy the invariant.         *)
LEMMA InitBucket == Settled /\ Init => IndInv
<1> SUFFICES ASSUME Settled, Init  PROVE IndInv
  OBVIOUS
<1>1. TypeOK
  BY InitType
<1>2. Wall = 0
  BY DEF Init, Wall
<1>3. \A b \in Backend, u \in User : Count(b, u) = 0
  BY DEF Init, Count
<1>4. LoopInv
  BY <1>2 DEF Init, LoopInv, IdleRequest
<1>5. BucketInv
  BY <1>2, <1>3, TopRateOK DEF Init, BucketInv, BucketOK, ZeroCounters
<1> QED  BY <1>1, <1>4, <1>5 DEF IndInv, Init

(* Time alone never breaks the bucket.                                     *)
LEMMA BucketFrame ==
    ASSUME IndInv, TypeOK', Wall <= Wall',
           UNCHANGED <<hash, counters, sent, base>>
    PROVE  BucketInv'
<1> SUFFICES ASSUME NEW b \in Backend, NEW u \in User
             PROVE  BucketOK(b, u)'
  BY DEF BucketInv
<1>1. BucketOK(b, u)
  BY DEF IndInv, BucketInv
<1>2. counters[b][u].ts \in Nat /\ Wall \in Int /\ Wall' \in Int
  BY <1>1 DEF IndInv, TypeOK, BucketOK, Wall
<1> QED  BY <1>1, <1>2 DEF BucketOK, Count, Nth, Earned

(* What Admit does to the log of its client: one entry more, of now.       *)
LEMMA AdmitLog ==
    ASSUME TypeOK, NEW b \in Backend, Admit(b),
           NEW u \in User, u = Key(b), NEW n \in Nat, n = Count(b, u)
    PROVE  /\ Count(b, u)' = n + 1
           /\ \A i \in 1 .. n : Nth(b, u, i)' = Nth(b, u, i)
           /\ Nth(b, u, n + 1)'.at = req[b].start /\ Nth(b, u, n + 1)'.reply = {}
<1> DEFINE r   == [map |-> req[b].map, at |-> req[b].start, left |-> now, reply |-> {}]
           old == sent[b][u]
           low == base[b][u]
<1>1. sent'[b][u] = Append(old, r) /\ base'[b][u] = low
  BY DEF Admit, TypeOK
<1>2. r \in SentRecord
  <2>1. req[b] \in Request /\ req[b].map \in Mapping
    BY DEF Admit, TypeOK
  <2> QED  BY <2>1, ConstantsOK DEF TypeOK, SentRecord, Request
<1>3. old \in Seq(SentRecord) /\ low \in Nat /\ low <= Len(old) /\ n = Len(old) - low
  BY DEF TypeOK, Count
<1>4. r.at = req[b].start /\ r.reply = {}
  OBVIOUS
<1> HIDE DEF r
<1>5. Count(b, u)' = Len(Append(old, r)) - low
  BY <1>1 DEF Count
<1>6. \A i \in Int : Nth(b, u, i)' = Append(old, r)[low + i]
  BY <1>1 DEF Nth
<1>7. \A i \in Int : Nth(b, u, i) = old[low + i]
  BY DEF Nth
<1> HIDE DEF old, low
<1>8. Count(b, u)' = n + 1
  BY <1>2, <1>3, <1>5
<1>9. \A i \in 1 .. n : low + i \in 1 .. Len(old)
  BY <1>3
<1>10. \A i \in 1 .. n : Nth(b, u, i)' = Nth(b, u, i)
  BY <1>2, <1>3, <1>6, <1>7, <1>9
<1>11. Nth(b, u, n + 1)' = r
  BY <1>2, <1>3, <1>6
<1> QED  BY <1>4, <1>8, <1>10, <1>11

(* A reply changes neither the requests sent nor their times.              *)
LEMMA ReplyLog ==
    ASSUME TypeOK, NEW b \in Backend, NEW reply \in Replies, Reply(b, reply)
    PROVE  \A c \in Backend, v \in User :
               /\ Count(c, v)' = Count(c, v)
               /\ \A i \in 1 .. Count(c, v) : Nth(c, v, i)'.at = Nth(c, v, i).at
<1>1. PICK u \in User : u = Key(b)
  BY PermitsType DEF Reply
<1>2. SUFFICES ASSUME NEW c \in Backend, NEW v \in User
               PROVE  /\ Len(sent'[c][v]) = Len(sent[c][v])
                      /\ \A i \in 1 .. Len(sent[c][v]) :
                            sent'[c][v][i].at = sent[c][v][i].at
  <2>1. base' = base
    BY DEF Reply
  <2>2. \A c \in Backend, v \in User : \A i \in 1 .. Count(c, v) :
            base[c][v] + i \in 1 .. Len(sent[c][v])
    BY DEF TypeOK, Count
  <2> QED  BY <2>1, <2>2 DEF Count, Nth
<1> DEFINE log  == sent[b][u]
           n    == Len(log)
           last == [log[n] EXCEPT !.reply = {reply}]
<1>3. log \in Seq(SentRecord) /\ sent[c][v] \in Seq(SentRecord)
  BY DEF TypeOK
<1>4. sent' = [sent EXCEPT ![b][u] = [log EXCEPT ![n] = last]]
  BY <1>1 DEF Reply
<1>5. n > 0 => last.at = log[n].at
  <2>1. n > 0 => log[n] \in SentRecord
    BY <1>3
  <2> QED  BY <2>1 DEF SentRecord
<1> HIDE DEF last
<1>6. CASE c = b /\ v = u
  <2>1. sent'[c][v] = [log EXCEPT ![n] = last]
    BY <1>4, <1>6 DEF TypeOK
  <2> HIDE DEF log
  <2> QED  BY <1>3, <1>5, <1>6, <2>1 DEF log
<1>7. CASE ~(c = b /\ v = u)
  BY <1>4, <1>7 DEF TypeOK
<1> QED  BY <1>6, <1>7

(* Each step keeps the bucket: one lemma step per action.                  *)
LEMMA NextBucket == Settled /\ IndInv /\ [Next]_vars => IndInv'
<1> SUFFICES ASSUME Settled, IndInv, [Next]_vars  PROVE IndInv'
  OBVIOUS
<1>a. TypeOK /\ TypeOK'
  BY NextType DEF IndInv
<1>b. Wall = now /\ Wall \in Nat /\ \A b \in Backend : req[b].start \in 0 .. Wall
  BY <1>a DEF IndInv, LoopInv, Wall, TypeOK
<1>1. ASSUME NEW b \in Backend, NEW m \in Mapping, BeginRequest(b, m)
      PROVE  IndInv'
  <2> DEFINE u == UserOf[m]
  <2>1. u \in User /\ option[m] \in Values
    BY <1>a, ConstantsOK DEF TypeOK
  <2>2. Wall' = Wall /\ offset' = 0
    BY <1>1 DEF BeginRequest, IndInv, Wall
  <2>3. LoopInv'
    BY <1>1, <1>a, <1>b, <2>2 DEF BeginRequest, LoopInv, IndInv, TypeOK, IdleRequest, Entry, Key,
                       GetCounters
  <2>4. ASSUME NEW c \in Backend, NEW v \in User  PROVE BucketOK(c, v)'
    <3>1. BucketOK(c, v)
      BY DEF IndInv, BucketInv
    <3>2. Count(c, v)' = Count(c, v) /\ \A i \in Int : Nth(c, v, i)' = Nth(c, v, i)
      BY <1>1 DEF BeginRequest, Count, Nth
    <3>3. CASE c = b /\ v = u /\ u \notin hash[b]
      <4>1. Count(c, v)' = 0
        BY <3>1, <3>2, <3>3 DEF BucketOK
      <4>2. counters'[c][v] = [ZeroCounters EXCEPT !.tokens = option[m], !.ts = Wall]
        BY <1>1, <1>a, <2>1, <3>3 DEF BeginRequest, GetCounters, TypeOK
      <4>3. counters'[c][v].tokens \in 0 .. TopRate /\ counters'[c][v].ts \in 0 .. Wall
        BY <1>b, <2>1, <4>2, PlanBounds DEF ZeroCounters
      <4> QED  BY <2>2, <4>1, <4>3 DEF BucketOK
    <3>4. CASE ~(c = b /\ v = u /\ u \notin hash[b])
      <4>1. counters'[c][v] = counters[c][v]
        BY <1>1, <1>a, <2>1, <3>4 DEF BeginRequest, GetCounters, TypeOK
      <4>2. v \notin hash'[c] => v \notin hash[c]
        BY <1>1, <1>a DEF BeginRequest, GetCounters, TypeOK
      <4> QED  BY <2>2, <3>1, <3>2, <4>1, <4>2 DEF BucketOK, Earned
    <3> QED  BY <3>3, <3>4
  <2> QED  BY <1>a, <2>2, <2>3, <2>4 DEF IndInv, BucketInv
<1>2. ASSUME NEW b \in Backend, ReadClock(b)
      PROVE  IndInv'
  <2>1. Wall' = Wall /\ offset' = 0
    BY <1>2 DEF ReadClock, IndInv, Wall
  <2>2. BucketInv'
    BY <1>2, <1>a, <1>b, <2>1, BucketFrame DEF ReadClock
  <2>3. Key(b) \in User /\ Entry(b).ts <= Wall
    <3>1. Key(b) \in User
      BY <1>2, <1>a, PermitsType DEF ReadClock
    <3> QED  BY <3>1, <1>b DEF IndInv, BucketInv, BucketOK, Entry
  <2>4. ASSUME NEW c \in Backend
        PROVE  /\ req'[c].start \in 0 .. Wall'
               /\ pc'[c] = "throttle" => Entry(c)'.ts <= req'[c].start
    <3>1. Entry(c)' = Entry(c)
      <4>1. req'[c].map = req[c].map
        BY <1>2, <1>a DEF ReadClock, TypeOK, Request
      <4> QED  BY <1>2, <4>1 DEF ReadClock, Entry, Key
    <3>2. CASE c = b
      BY <1>2, <1>a, <1>b, <2>1, <2>3, <3>1, <3>2 DEF ReadClock, TypeOK, Request
    <3>3. CASE c # b
      BY <1>2, <1>a, <1>b, <2>1, <3>1, <3>3 DEF ReadClock, TypeOK, IndInv, LoopInv
    <3> QED  BY <3>2, <3>3
  <2> QED  BY <1>a, <2>1, <2>2, <2>4 DEF IndInv, LoopInv
<1>3. ASSUME NEW b \in Backend, Sleep(b) \/ Wake(b) \/ Trap(b)
      PROVE  IndInv'
  <2>1. /\ Wall' = Wall /\ offset' = 0
        /\ UNCHANGED <<hash, counters, sent, base>>
    BY <1>3 DEF Sleep, Wake, Trap, IndInv, Wall
  <2>2. BucketInv'
    BY <1>a, <1>b, <2>1, BucketFrame
  <2>3. ASSUME NEW c \in Backend
        PROVE  /\ req'[c].start \in 0 .. Wall'
               /\ pc'[c] = "throttle" => Entry(c)'.ts <= req'[c].start
    <3>1. pc'[c] = "throttle" => c # b /\ pc[c] = "throttle"
      BY <1>3, <1>a DEF Sleep, Wake, Trap, TypeOK
    <3>2. c # b => req'[c] = req[c] /\ Entry(c)' = Entry(c)
      BY <1>3, <1>a, <2>1 DEF Sleep, Wake, Trap, TypeOK, Entry, Key
    <3>3. req'[b].start = req[b].start \/ req'[b].start = 0
      <4>1. CASE Sleep(b)
        <5>1. req'[b] = Napping(req[b], now + Delay(b)) /\ req[b] \in Request
          BY <4>1, <1>a DEF Sleep, TypeOK
        <5> QED  BY <5>1 DEF Napping, Request
      <4>2. CASE Wake(b)
        BY <4>2 DEF Wake
      <4>3. CASE Trap(b)
        BY <4>3, <1>a DEF Trap, TypeOK, IdleRequest
      <4> QED  BY <1>3, <4>1, <4>2, <4>3
    <3> QED  BY <1>b, <2>1, <3>1, <3>2, <3>3 DEF IndInv, LoopInv
  <2> QED  BY <1>a, <2>1, <2>2, <2>3 DEF IndInv, LoopInv
<1>4. ASSUME NEW b \in Backend, Admit(b)
      PROVE  IndInv'
  <2>0. PICK u \in User : u = Key(b)
    BY <1>4, <1>a, PermitsType DEF Admit
  <2>n. PICK n \in Nat : n = Count(b, u)
    BY <1>a DEF TypeOK, Count
  <2> DEFINE e == counters[b][u]
             s == req[b].start
             p == Permits(b)
             k == Least(EffectiveRate(req[b].opt), p) - 1
  <2>1. /\ e \in Counters
        /\ e = Entry(b)
        /\ req[b] \in Request
        /\ req[b].opt \in Values
        /\ req[b].map \in Mapping
    BY <1>4, <1>a, <2>0 DEF Admit, TypeOK, Entry
  <2>2. /\ e.ts \in Nat /\ e.ts <= s /\ s \in Nat /\ s <= Wall
        /\ e.tokens \in 0 .. TopRate
        /\ BucketOK(b, u)
    BY <1>4, <1>b, <2>0, <2>1 DEF Admit, IndInv, LoopInv, BucketInv, BucketOK
  <2>3. /\ p \in Nat \ {0}
        /\ p <= e.tokens + Earned(e.ts, s)
    BY <1>4, <2>1, PermitsBound DEF Admit
  <2>4. /\ k \in 0 .. (TopRate - 1)
        /\ k <= p - 1
    <3>1. EffectiveRate(req[b].opt) \in 1 .. TopRate
      BY <2>1, PlanBounds
    <3> QED  BY <2>3, <3>1, TopRateOK DEF Least
  <2>5. ToInt(k) = k
    <3>1. k \in 0 .. IntMax
      <4>1. VirtualMsec(MaxClock) \in Nat
        BY ConstantsOK, TimevalBounds
      <4> HIDE DEF k
      <4> QED  BY <2>4, <4>1, TopRateOK, ConstantsOK DEF Settled
    <3> QED  BY <3>1, ToIntSmall
  <2>6. Wall' = Wall /\ offset' = 0
    BY <1>4 DEF Admit, IndInv, Wall
  <2>7. counters'[b][u] = [e EXCEPT !.tokens = k, !.ts = s]
    BY ZenonT(30), <1>4, <1>a, <2>0, <2>5 DEF Admit, TypeOK
  <2>8. counters'[b][u].tokens = k /\ counters'[b][u].ts = s
    <3> HIDE DEF k, e, s
    <3> QED  BY <2>1, <2>7 DEF Counters
  <2>9. LoopInv'
    <3>1. ASSUME NEW c \in Backend
          PROVE  /\ req'[c].start \in 0 .. Wall'
                 /\ pc'[c] = "throttle" => Entry(c)'.ts <= req'[c].start
      <4>1. pc'[c] = "throttle" => c # b /\ pc[c] = "throttle"
        BY <1>4, <1>a DEF Admit, TypeOK
      <4>2. c # b => Entry(c)' = Entry(c)
        BY <1>4, <1>a DEF Admit, TypeOK, Entry, Key
      <4> QED  BY <1>4, <1>b, <2>6, <4>1, <4>2 DEF Admit, IndInv, LoopInv
    <3> QED  BY <3>1 DEF LoopInv
  <2>10. ASSUME NEW c \in Backend, NEW v \in User  PROVE BucketOK(c, v)'
    <3>1. CASE c = b /\ v = u
      <4>4. /\ Count(b, u)' = n + 1
            /\ \A i \in 1 .. n : Nth(b, u, i)' = Nth(b, u, i)
            /\ Nth(b, u, n + 1)'.at = s
        BY <1>4, <1>a, <2>0, <2>n, AdmitLog
      <4>5. u \in hash'[b]
        BY <1>4, <1>a, <2>0 DEF Admit, TypeOK
      <4>6. ASSUME NEW i \in 1 .. n + 1
            PROVE  /\ Nth(b, u, i)'.at \in 0 .. s
                   /\ (n + 1 - i) + k <= (TopRate - 1) + Earned(Nth(b, u, i)'.at, s)
        <5>1. CASE i = n + 1
          <6> HIDE DEF k, s
          <6>1. Earned(s, s) \in Nat
            BY <2>2, EarnedAdds
          <6>2. Nth(b, u, i)'.at = s
            BY <4>4, <5>1
          <6> QED  BY <2>1, <2>2, <2>4, <5>1, <6>1, <6>2, TopRateOK
        <5>2. CASE i \in 1 .. n
          <6> DEFINE a == Nth(b, u, i).at
          <6>1. /\ a \in 0 .. e.ts
                /\ (n - i) + e.tokens <= (TopRate - 1) + Earned(a, e.ts)
            BY <2>2, <2>n, <5>2 DEF BucketOK
          <6>2. Nth(b, u, i)'.at = a
            BY <4>4, <5>2
          <6> HIDE DEF k, s, e, p, a
          <6> DEFINE t == e.ts
                     g == e.tokens
                     m == n - i
          <6>3. /\ a \in Nat /\ t \in Nat /\ a <= t /\ t <= s /\ s \in Nat
                /\ m \in Nat /\ g \in Nat /\ p \in Nat /\ k \in Nat
                /\ m + g <= (TopRate - 1) + Earned(a, t)
                /\ p <= g + Earned(t, s)
                /\ k <= p - 1
            BY <2>1, <2>2, <2>3, <2>4, <5>2, <6>1, TopRateOK
          <6> HIDE DEF t, g, m
          <6>4. (m + 1) + k <= (TopRate - 1) + Earned(a, s)
            BY Zenon, <6>3, EnvelopeStep
          <6>5. (n + 1 - i) + k <= (TopRate - 1) + Earned(a, s)
            BY <2>1, <2>4, <6>4 DEF m
          <6> QED  BY <2>2, <6>1, <6>2, <6>3, <6>5
        <5> QED  BY <2>1, <5>1, <5>2
      <4>7. BucketOK(b, u)'
        <5> HIDE DEF k, s, p
        <5>1. /\ counters'[b][u].tokens \in 0 .. TopRate
              /\ counters'[b][u].ts \in 0 .. Wall'
          BY <2>2, <2>4, <2>6, <2>8, TopRateOK, <1>b
        <5> QED
          BY <2>8, <4>4, <4>5, <4>6, <5>1 DEF BucketOK, Earned
      <4> QED  BY <3>1, <4>7
    <3>2. CASE ~(c = b /\ v = u)
      <4>1. counters'[c][v] = counters[c][v] /\ sent'[c][v] = sent[c][v]
        BY SMTT(30), <1>4, <1>a, <2>0, <3>2 DEF Admit, TypeOK
      <4>2. BucketOK(c, v)
        BY DEF IndInv, BucketInv
      <4> QED  BY Zenon, <1>4, <2>6, <4>1, <4>2 DEF Admit, BucketOK, Count, Nth, Earned
    <3> QED  BY <3>1, <3>2
  <2> QED  BY <1>a, <2>6, <2>9, <2>10 DEF IndInv, BucketInv
<1>5. ASSUME NEW b \in Backend, NEW reply \in Replies, Reply(b, reply)
      PROVE  IndInv'
  <2>0. PICK u \in User : u = Key(b)
    BY <1>5, <1>a, PermitsType DEF Reply
  <2>1. Wall' = Wall /\ offset' = 0
    BY <1>5 DEF Reply, IndInv, Wall
  <2>2. \A c \in Backend, v \in User :
            /\ counters'[c][v].tokens = counters[c][v].tokens
            /\ counters'[c][v].ts = counters[c][v].ts
    <3> DEFINE e  == counters[b][u]
               tm == TIMEVALDIFF(Wall, req[b].start)
    <3>1. e \in Counters
      BY <1>a DEF TypeOK
    <3>2. counters' = [counters EXCEPT ![b][u] = Account(e, tm, reply)]
      BY <1>5, <2>0 DEF Reply
    <3> HIDE DEF e, tm
    <3>3. Account(e, tm, reply).tokens = e.tokens /\ Account(e, tm, reply).ts = e.ts
      BY <3>1 DEF Account, Counters
    <3> HIDE DEF Account
    <3> QED  BY <1>a, <3>2, <3>3 DEF TypeOK, e
  <2>3. \A c \in Backend, v \in User :
            /\ Count(c, v)' = Count(c, v)
            /\ \A i \in 1 .. Count(c, v) : Nth(c, v, i)'.at = Nth(c, v, i).at
    BY <1>5, <1>a, ReplyLog
  <2>4. LoopInv'
    <3>1. ASSUME NEW c \in Backend
          PROVE  /\ req'[c].start \in 0 .. Wall'
                 /\ pc'[c] = "throttle" => Entry(c)'.ts <= req'[c].start
      <4>1. CASE c = b
        BY <1>5, <1>a, <1>b, <2>1, <4>1 DEF Reply, TypeOK, IdleRequest
      <4>2. CASE c # b
        <5>1. req'[c] = req[c] /\ pc'[c] = pc[c]
          BY <1>5, <1>a, <4>2 DEF Reply, TypeOK
        <5>2. pc[c] = "throttle" => Key(c) \in User
          BY <1>a, PermitsType
        <5>3. pc[c] = "throttle" => Entry(c)'.ts = Entry(c).ts
          BY <2>2, <5>1, <5>2 DEF Entry, Key
        <5> QED  BY <1>b, <2>1, <5>1, <5>3 DEF IndInv, LoopInv
      <4> QED  BY <4>1, <4>2
    <3> QED  BY <3>1 DEF LoopInv
  <2>5. ASSUME NEW c \in Backend, NEW v \in User  PROVE BucketOK(c, v)'
    <3>1. BucketOK(c, v)
      BY DEF IndInv, BucketInv
    <3>2. hash' = hash
      BY <1>5 DEF Reply
    <3> QED  BY <2>1, <2>2, <2>3, <3>1, <3>2 DEF BucketOK, Earned
  <2> QED  BY <1>a, <2>1, <2>4, <2>5 DEF IndInv, BucketInv
<1>6. ASSUME NEW b \in Backend, Exit(b)
      PROVE  IndInv'
  <2>1. Wall' = Wall /\ offset' = 0
    BY <1>6 DEF Exit, IndInv, Wall
  <2>2. LoopInv'
    <3>1. ASSUME NEW c \in Backend
          PROVE  /\ req'[c].start \in 0 .. Wall'
                 /\ pc'[c] = "throttle" => Entry(c)'.ts <= req'[c].start
      <4>1. CASE c = b
        BY <1>6, <1>a, <1>b, <2>1, <4>1 DEF Exit, TypeOK, IdleRequest
      <4>2. CASE c # b
        BY <1>6, <1>a, <1>b, <2>1, <4>2 DEF Exit, TypeOK, IndInv, LoopInv, Entry, Key
      <4> QED  BY <4>1, <4>2
    <3> QED  BY <3>1 DEF LoopInv
  <2>3. ASSUME NEW c \in Backend, NEW v \in User  PROVE BucketOK(c, v)'
    <3>1. BucketOK(c, v)
      BY DEF IndInv, BucketInv
    <3>2. CASE c = b
      <4>1. Count(c, v)' = 0
        BY <1>6, <1>a, <3>2 DEF Exit, TypeOK, Count
      <4>2. counters'[c][v] = ZeroCounters
        BY SMTT(30), <1>6, <1>a, <3>2 DEF Exit, TypeOK
      <4> QED  BY <1>b, <2>1, <4>1, <4>2, TopRateOK DEF BucketOK, ZeroCounters
    <3>3. CASE c # b
      BY <1>6, <1>a, <2>1, <3>1, <3>3 DEF Exit, TypeOK, BucketOK, Count, Nth, Earned
    <3> QED  BY <3>2, <3>3
  <2> QED  BY <1>a, <2>1, <2>2, <2>3 DEF IndInv, BucketInv
<1>7. ASSUME Pass
      PROVE  IndInv'
  <2>1. PICK t \in {now + d : d \in Ticks} \union Deadlines : Tick(t)
    BY <1>7 DEF Pass
  <2>2. t \in Int
    BY <1>a, <2>1, ConstantsOK DEF Deadlines, Request, TypeOK
  <2>3. Wall <= Wall' /\ offset' = 0 /\ Wall' \in Nat
    BY <1>a, <1>b, <2>1, <2>2 DEF Tick, IndInv, Wall, TypeOK
  <2>4. BucketInv'
    BY <1>a, <2>1, <2>3, BucketFrame DEF Tick
  <2>5. LoopInv'
    BY <1>b, <2>1, <2>3 DEF Tick, IndInv, LoopInv, Entry, Key
  <2> QED  BY <1>a, <2>3, <2>4, <2>5 DEF IndInv
<1>8. ASSUME NEW d \in JumpBacks, SetBack(d)
      PROVE  IndInv'
  BY <1>8 DEF Settled
<1>9. ASSUME NEW m \in Mapping, NEW opt \in Values, AlterMapping(m, opt)
      PROVE  IndInv'
  <2>1. Wall' = Wall /\ offset' = 0
    BY <1>9 DEF AlterMapping, IndInv, Wall
  <2>2. BucketInv'
    BY <1>9, <1>a, <1>b, <2>1, BucketFrame DEF AlterMapping
  <2>3. LoopInv'
    BY <1>9, <2>1 DEF AlterMapping, IndInv, LoopInv, Entry, Key
  <2> QED  BY <1>a, <2>1, <2>2, <2>3 DEF IndInv
<1>10. CASE UNCHANGED vars
  <2>1. Wall' = Wall /\ offset' = 0
    BY <1>10 DEF vars, IndInv, Wall
  <2>2. BucketInv'
    BY <1>10, <1>a, <1>b, <2>1, BucketFrame DEF vars
  <2>3. LoopInv'
    BY <1>10, <2>1 DEF vars, IndInv, LoopInv, Entry, Key
  <2> QED  BY <1>a, <2>1, <2>2, <2>3 DEF IndInv
<1> QED
  BY <1>1, <1>2, <1>3, <1>4, <1>5, <1>6, <1>7, <1>8, <1>9, <1>10
  DEF Next, Step
-----------------------------------------------------------------------------
(* What a step does to the log of admissions of every client: one client   *)
(* is admitted once more and conforms, the clients of one session are      *)
(* forgotten, or nothing changes.                                          *)
AdmitStep(b, u) ==
    /\ Admissions(b, u)' = Append(Admissions(b, u), VirtualMsec(req[b].start))
    /\ LB!Conforms(Admissions(b, u)')
    /\ \A c \in Backend, v \in User :
          ~(c = b /\ v = u) => Admissions(c, v)' = Admissions(c, v)

ForgetStep(b) ==
    \A c \in Backend, v \in User :
        Admissions(c, v)' = IF c = b THEN << >> ELSE Admissions(c, v)

StutterStep ==
    \A c \in Backend, v \in User : Admissions(c, v)' = Admissions(c, v)

(* A time on the virtual clock is an integer.                              *)
LEMMA VirtualMsecType ==
    ASSUME NEW t \in Int
    PROVE  VirtualMsec(t) \in Int /\ (t \in Nat => VirtualMsec(t) \in Nat)
BY SMT DEF VirtualMsec, UsecPerMsec, UsecPerSec

(* The admissions of a session are a sequence, as long as its requests.    *)
LEMMA AdmissionsType ==
    ASSUME TypeOK, NEW b \in Backend, NEW u \in User
    PROVE  Admissions(b, u) \in Seq(Int)
<1>1. Count(b, u) \in Nat
  BY DEF TypeOK, Count
<1>2. ASSUME NEW i \in 1 .. Count(b, u)
      PROVE  VirtualMsec(Nth(b, u, i).at) \in Int
  <2>1. Nth(b, u, i) \in SentRecord
    BY DEF TypeOK, Count, Nth
  <2> QED  BY <2>1, VirtualMsecType DEF SentRecord
<1> QED  BY <1>1, <1>2 DEF Admissions

(* Where the invariant holds, a request that the loop admits is one that   *)
(* the abstract limiter may admit.                                         *)
LEMMA AdmitConforms ==
    ASSUME Settled, IndInv, IndInv', Envelope, NEW b \in Backend, Admit(b)
    PROVE  \E u \in User : AdmitStep(b, u)
<1>a. TypeOK /\ TypeOK'
  BY DEF IndInv
<1>1. PICK u \in User : u = Key(b)
  BY <1>a, PermitsType DEF Admit
<1>2. PICK n \in Nat : n = Count(b, u)
  BY <1>a DEF TypeOK, Count
<1> DEFINE s == req[b].start
<1>3. /\ Count(b, u)' = n + 1
      /\ \A i \in 1 .. n : Nth(b, u, i)' = Nth(b, u, i)
      /\ Nth(b, u, n + 1)'.at = s
  BY <1>a, <1>1, <1>2, AdmitLog
<1>4. Admissions(b, u) = [i \in 1 .. n |-> VirtualMsec(Nth(b, u, i).at)]
  BY <1>2 DEF Admissions
<1>5. Admissions(b, u)' = [i \in 1 .. n + 1 |-> VirtualMsec(Nth(b, u, i)'.at)]
  BY <1>3 DEF Admissions
<1>6. /\ \A i \in 1 .. n : Nth(b, u, i).at \in Nat
      /\ s \in Nat
  <2>1. BucketOK(b, u)
    BY DEF IndInv, BucketInv
  <2>2. \A i \in 1 .. n : Nth(b, u, i).at \in Nat
    BY <1>2, <2>1 DEF BucketOK
  <2> QED  BY <2>2 DEF IndInv, LoopInv
<1>7. /\ VirtualMsec(s) \in Nat
      /\ \A i \in 1 .. n : VirtualMsec(Nth(b, u, i).at) \in Nat
  BY <1>6, TimevalBounds
<1> DEFINE a == Admissions(b, u)
           z == VirtualMsec(s)
<1>8. a \in Seq(Nat) /\ Len(a) = n
  BY <1>4, <1>7
<1>9. Admissions(b, u)' = Append(a, z)
  <2>1. \A i \in 1 .. n : Append(a, z)[i] = VirtualMsec(Nth(b, u, i)'.at)
    BY <1>3, <1>4, <1>7, <1>8
  <2>2. Append(a, z)[n + 1] = VirtualMsec(Nth(b, u, n + 1)'.at)
    BY <1>3, <1>7, <1>8
  <2> DEFINE x == Append(a, z)
             f == [i \in 1 .. n + 1 |-> VirtualMsec(Nth(b, u, i)'.at)]
  <2>3. x \in Seq(Nat) /\ Len(x) = n + 1
    BY <1>7, <1>8
  <2>4. \A i \in 1 .. n + 1 : x[i] = f[i]
    <3>1. ASSUME NEW i \in 1 .. n  PROVE x[i] = f[i]
      <4>1. i \in 1 .. n + 1
        OBVIOUS
      <4>2. f[i] = VirtualMsec(Nth(b, u, i)'.at)
        BY <4>1
      <4> QED  BY <2>1, <4>2
    <3>2. x[n + 1] = f[n + 1]
      BY <2>2
    <3>3. \A i \in 1 .. n + 1 : i \in 1 .. n \/ i = n + 1
      OBVIOUS
    <3> HIDE DEF x, f
    <3> QED  BY <3>1, <3>2, <3>3
  <2>5. f = x
    <3>1. f = [i \in 1 .. n + 1 |-> f[i]]
      OBVIOUS
    <3> HIDE DEF f, x
    <3>2. x = [i \in 1 .. n + 1 |-> x[i]]
      BY <2>3
    <3> QED  BY <2>4, <3>1, <3>2
  <2> QED  BY <1>5, <2>5
<1>10. LB!Conforms(Append(a, z))
  <2>1. LB!Conforms(a)
    BY DEF Envelope
  <2> DEFINE q == PeriodOf(TopRate)
             x == Append(a, z)
  <2>0. Len(x) = n + 1
    BY <1>7, <1>8
  <2>2. SUFFICES ASSUME NEW i \in 1 .. n + 1, NEW j \in 1 .. n + 1, i <= j
                 PROVE  j - i <= (TopRate - 1) + (x[j] - x[i]) \div q
    <3>1. (\A i, j \in 1 .. n + 1 :
              i <= j => j - i <= (TopRate - 1) + (x[j] - x[i]) \div q)
             => LB!Conforms(x)
      <4> HIDE DEF x
      <4> QED  BY <2>0 DEF LB!Conforms
    <3> HIDE DEF x, q
    <3> QED  BY <3>1 DEF x
  <2>3. CASE j <= n
    <3>1. x[i] = a[i] /\ x[j] = a[j] /\ i \in 1 .. Len(a) /\ j \in 1 .. Len(a)
      BY <1>7, <1>8, <2>2, <2>3
    <3> QED  BY <2>1, <2>2, <3>1 DEF LB!Conforms
  <2>4. CASE j = n + 1
    <3>1. BucketOK(b, u)'
      BY DEF IndInv, BucketInv
    <3>2. counters'[b][u].ts = s
      <4>1. counters'[b][u] = [counters[b][u] EXCEPT
               !.tokens = ToInt(Least(EffectiveRate(req[b].opt), Permits(b)) - 1), !.ts = s]
        BY <1>a, <1>1 DEF Admit, TypeOK
      <4>2. counters[b][u] \in Counters
        BY <1>a DEF TypeOK
      <4> QED  BY <4>1, <4>2 DEF Counters
    <3>3. (n + 1 - i) + counters'[b][u].tokens
             <= (TopRate - 1) + Earned(Nth(b, u, i)'.at, s)
      BY <1>3, <3>1, <3>2 DEF BucketOK, Earned
    <3>4. counters'[b][u].tokens \in Nat
      BY <3>1 DEF BucketOK
    <3>5. Earned(Nth(b, u, i)'.at, s) = (x[j] - x[i]) \div q
      <4>1. x[i] = VirtualMsec(Nth(b, u, i)'.at)
        BY <1>5, <1>9
      <4>2. x[j] = z
        BY <1>7, <1>8, <2>4
      <4> QED  BY <4>1, <4>2 DEF Earned
    <3>6. Earned(Nth(b, u, i)'.at, s) \in Int
      <4>1. VirtualMsec(Nth(b, u, i)'.at) \in Nat
        <5>1. Nth(b, u, i)'.at \in Nat
          <6>1. CASE i = n + 1
            BY <1>3, <1>6, <6>1
          <6>2. CASE i \in 1 .. n
            BY <1>3, <1>6, <6>2
          <6> QED  BY <6>1, <6>2
        <5> HIDE DEF s
        <5> QED  BY <5>1, VirtualMsecType
      <4>2. q \in Nat \ {0}
        BY SMTT(30), TopPeriod
      <4> DEFINE y == VirtualMsec(Nth(b, u, i)'.at)
      <4>3. z \in Nat /\ y \in Nat
        BY <1>7, <4>1
      <4>4. (z - y) \div q \in Int
        <5> HIDE DEF z, y, q
        <5> QED  BY <4>2, <4>3, SMT
      <4> QED  BY <4>4 DEF Earned
    <3> DEFINE w == Earned(Nth(b, u, i)'.at, s)
               k == counters'[b][u].tokens
    <3>7. (n + 1 - i) + k <= (TopRate - 1) + w /\ k \in Nat /\ w \in Int
      BY <3>3, <3>4, <3>6
    <3>8. w = (x[j] - x[i]) \div q
      BY <3>5
    <3> HIDE DEF w, k, x, q
    <3>9. j - i <= (TopRate - 1) + w
      BY <2>4, <3>7, TopRateOK
    <3> QED  BY <3>8, <3>9
  <2>5. j <= n \/ j = n + 1
    OBVIOUS
  <2> HIDE DEF x, q
  <2> QED  BY <2>3, <2>4, <2>5
<1>11. \A c \in Backend, v \in User :
          ~(c = b /\ v = u) => Admissions(c, v)' = Admissions(c, v)
  <2>1. \A c \in Backend, v \in User :
          ~(c = b /\ v = u) => sent'[c][v] = sent[c][v]
    BY <1>a, <1>1 DEF Admit, TypeOK
  <2>2. base' = base
    BY DEF Admit
  <2>3. ASSUME NEW c \in Backend, NEW v \in User, ~(c = b /\ v = u)
        PROVE  Admissions(c, v)' = Admissions(c, v)
    BY <2>1, <2>2, <2>3 DEF Admissions, Count, Nth
  <2> QED  BY <2>3
<1> QED  BY <1>9, <1>10, <1>11 DEF AdmitStep

(* Every step admits a request, ends a session, or leaves the lists of     *)
(* admissions alone.                                                       *)
LEMMA LogSteps ==
    ASSUME Settled, IndInv, Envelope, [Next]_vars
    PROVE  \/ \E b \in Backend, u \in User : AdmitStep(b, u)
           \/ \E b \in Backend : ForgetStep(b)
           \/ StutterStep
<1>a. TypeOK /\ TypeOK' /\ IndInv'
  BY NextBucket, NextType DEF IndInv
<1>1. ASSUME NEW b \in Backend, Admit(b)
      PROVE  \E u \in User : AdmitStep(b, u)
  BY <1>a, <1>1, AdmitConforms
<1>2. ASSUME NEW b \in Backend, NEW reply \in Replies, Reply(b, reply)
      PROVE  StutterStep
  BY <1>a, <1>2, ReplyLog DEF StutterStep, Admissions
<1>3. ASSUME NEW b \in Backend, Exit(b)
      PROVE  ForgetStep(b)
  <2>1. ASSUME NEW c \in Backend, NEW v \in User
        PROVE  Admissions(c, v)' = IF c = b THEN << >> ELSE Admissions(c, v)
    <3>1. CASE c = b
      <4>1. Count(c, v)' = 0
        BY <1>3, <1>a, <3>1 DEF Exit, TypeOK, Count
      <4> QED  BY <3>1, <4>1 DEF Admissions
    <3>2. CASE c # b
      BY <1>3, <1>a, <3>2 DEF Exit, TypeOK, Admissions, Count, Nth
    <3> QED  BY <3>1, <3>2
  <2> QED  BY <2>1 DEF ForgetStep
<1>4. ASSUME UNCHANGED <<sent, base>>
      PROVE  StutterStep
  BY <1>4 DEF StutterStep, Admissions, Count, Nth
<1>5. ASSUME NEW b \in Backend, NEW m \in Mapping, BeginRequest(b, m)
      PROVE  StutterStep
  BY <1>4, <1>5 DEF BeginRequest
<1>6. ASSUME NEW b \in Backend, ReadClock(b) \/ Sleep(b) \/ Wake(b) \/ Trap(b)
      PROVE  StutterStep
  BY <1>4, <1>6 DEF ReadClock, Sleep, Wake, Trap
<1>7. ASSUME \/ Pass
             \/ \E d \in JumpBacks : SetBack(d)
             \/ \E m \in Mapping, opt \in Values : AlterMapping(m, opt)
             \/ UNCHANGED vars
      PROVE  StutterStep
  BY <1>4, <1>7 DEF Pass, Tick, SetBack, AlterMapping, vars
<1> QED  BY <1>1, <1>2, <1>3, <1>5, <1>6, <1>7 DEF Next, Step

(* A server starts with no admissions.                                     *)
LEMMA InitEmpty ==
    ASSUME Init
    PROVE  \A b \in Backend, u \in User : Admissions(b, u) = << >>
<1>1. \A b \in Backend, u \in User : Count(b, u) = 0
  BY DEF Init, Count
<1> QED  BY <1>1 DEF Admissions

(* Each step keeps the envelope.                                           *)
LEMMA NextEnvelope == Settled /\ IndInv /\ Envelope /\ [Next]_vars => Envelope'
<1> SUFFICES ASSUME Settled, IndInv, Envelope, [Next]_vars,
                    NEW c \in Backend, NEW v \in User
             PROVE  LB!Conforms(Admissions(c, v)')
  BY DEF Envelope
<1>1. LB!Conforms(Admissions(c, v))
  BY DEF Envelope
<1>2. LB!Conforms(<< >>)
  BY DEF LB!Conforms
<1>3. \/ \E b \in Backend, u \in User : AdmitStep(b, u)
      \/ \E b \in Backend : ForgetStep(b)
      \/ StutterStep
  BY LogSteps
<1> QED  BY <1>1, <1>2, <1>3, Zenon DEF AdmitStep, ForgetStep, StutterStep

(* Where the bucket works, no user of any session is ever admitted faster  *)
(* than the envelope of the fastest plan.                                  *)
THEOREM EnvelopeHolds == ASSUME Settled PROVE Spec => []Envelope
<1>1. Init => IndInv /\ Envelope
  <2> SUFFICES ASSUME Init  PROVE IndInv /\ Envelope
    OBVIOUS
  <2>1. LB!Conforms(<< >>)
    BY DEF LB!Conforms
  <2> QED  BY <2>1, InitBucket, InitEmpty DEF Envelope
<1>2. IndInv /\ Envelope /\ [Next]_vars => (IndInv /\ Envelope)'
  BY NextBucket, NextEnvelope
<1> QED  BY <1>1, <1>2, PTL DEF Spec

(* Where the bucket works, it is never dated after the request that it is  *)
(* asked for, and holds what the envelope leaves.                          *)
THEOREM LoopHolds == ASSUME Settled PROVE Spec => []LoopInv
<1>1. Init => IndInv
  BY InitBucket
<1>2. IndInv /\ [Next]_vars => IndInv'
  BY NextBucket
<1>3. IndInv => LoopInv
  BY DEF IndInv
<1> QED  BY <1>1, <1>2, <1>3, PTL DEF Spec

(* Where the bucket works, its tokens and the requests since any earlier   *)
(* one fit the envelope that starts there.                                 *)
THEOREM BucketHolds == ASSUME Settled PROVE Spec => []BucketInv
<1>1. Init => IndInv
  BY InitBucket
<1>2. IndInv /\ [Next]_vars => IndInv'
  BY NextBucket
<1>3. IndInv => BucketInv
  BY DEF IndInv
<1> QED  BY <1>1, <1>2, <1>3, PTL DEF Spec

(* Where the bucket works, the limiter of every session implements the     *)
(* abstract one.                                                           *)
THEOREM LimiterImplementsLeakyBucket ==
    ASSUME Settled PROVE Spec => ImplementsLeakyBucket
<1> DEFINE log == [c \in Backend \X User |-> Admissions(c[1], c[2])]
<1>1. Init => LB!Init
  <2> SUFFICES ASSUME Init  PROVE LB!Init
    OBVIOUS
  <2> QED  BY InitEmpty DEF LB!Init
<1>2. IndInv /\ Envelope /\ [Next]_vars => [LB!Next]_log
  <2> SUFFICES ASSUME IndInv, Envelope, [Next]_vars  PROVE LB!Next \/ log' = log
    OBVIOUS
  <2>1. ASSUME NEW b \in Backend, NEW u \in User, AdmitStep(b, u)
        PROVE  LB!Admit(<<b, u>>)
    <3> DEFINE z == VirtualMsec(req[b].start)
               x == Append(log[<<b, u>>], z)
    <3>1. log[<<b, u>>] = Admissions(b, u) /\ log'[<<b, u>>] = x
      BY <2>1 DEF AdmitStep
    <3>2. log' = [log EXCEPT ![<<b, u>>] = x]
      <4>1. ASSUME NEW d \in Backend \X User
            PROVE  log'[d] = IF d = <<b, u>> THEN x ELSE log[d]
        <5>1. CASE d = <<b, u>>
          BY <3>1, <5>1
        <5>2. CASE d # <<b, u>>
          <6>1. d[1] \in Backend /\ d[2] \in User /\ ~(d[1] = b /\ d[2] = u)
            BY <5>2
          <6> QED  BY <2>1, <5>2, <6>1 DEF AdmitStep
        <5> QED  BY <5>1, <5>2
      <4> HIDE DEF x
      <4> QED  BY <4>1
    <3>3. Len(x) = Len(log[<<b, u>>]) + 1 /\ x[Len(log[<<b, u>>]) + 1] = z
      <4>1. log[<<b, u>>] \in Seq(Int) /\ z \in Int
        <5>1. req[b].start \in Int
          BY DEF IndInv, TypeOK, Request
        <5> QED  BY <3>1, <5>1, AdmissionsType, VirtualMsecType DEF IndInv
      <4> HIDE DEF log, z
      <4> QED  BY <4>1
    <3>4. LB!Conforms(x)
      BY <2>1, <3>1 DEF AdmitStep
    <3> QED  BY <3>1, <3>2, <3>3, <3>4 DEF LB!Admit
  <2>2. ASSUME NEW b \in Backend, ForgetStep(b)
        PROVE  LB!Forget({b} \X User)
    BY <2>2 DEF ForgetStep, LB!Forget
  <2>3. ASSUME StutterStep
        PROVE  log' = log
    BY <2>3 DEF StutterStep
  <2>4. CASE \E b \in Backend, u \in User : AdmitStep(b, u)
    <3>1. PICK b \in Backend, u \in User : AdmitStep(b, u)
      BY <2>4
    <3>2. <<b, u>> \in Backend \X User
      OBVIOUS
    <3> QED  BY <2>1, <3>1, <3>2 DEF LB!Next
  <2>5. CASE \E b \in Backend : ForgetStep(b)
    <3>1. PICK b \in Backend : ForgetStep(b)
      BY <2>5
    <3>2. {b} \X User \in SUBSET (Backend \X User)
      OBVIOUS
    <3> QED  BY <2>2, <3>1, <3>2 DEF LB!Next
  <2> QED  BY <2>3, <2>4, <2>5, LogSteps
<1>3. Init => IndInv /\ Envelope
  <2> SUFFICES ASSUME Init  PROVE IndInv /\ Envelope
    OBVIOUS
  <2>1. LB!Conforms(<< >>)
    BY DEF LB!Conforms
  <2> QED  BY <2>1, InitBucket, InitEmpty DEF Envelope
<1>4. IndInv /\ Envelope /\ [Next]_vars => (IndInv /\ Envelope)'
  BY NextBucket, NextEnvelope
<1> QED  BY <1>1, <1>2, <1>3, <1>4, PTL DEF Spec, LB!Spec, ImplementsLeakyBucket
-----------------------------------------------------------------------------
(* One sleep is enough, where the bucket works and no signal cuts it short.*)

(* At time t and ever after, the bucket of b's request has a new permit.   *)
Ready(b, t) ==
    \A f \in Nat : f >= t => TIMEVALDIFF(f, Entry(b).ts) >= PeriodOf(req[b].opt)

SleepOK(b) ==
    /\ req[b].sleeps \in 0 .. 1
    /\ pc[b] = "asleep" => Ready(b, req[b].wakeAt)
    /\ pc[b] = "clock" /\ req[b].sleeps = 1 => Ready(b, now)
    /\ pc[b] = "throttle" /\ req[b].sleeps = 1 => Ival(b) >= PeriodOf(req[b].opt)

SleepInv == \A b \in Backend : SleepOK(b)

(* What SleepOK says of b depends on no other backend.                     *)
LEMMA SleepFrame ==
    ASSUME IndInv, NEW c \in Backend, SleepOK(c),
           pc'[c] = pc[c], req'[c] = req[c], now \in Nat, now' \in Nat, now <= now',
           Entry(c)' = Entry(c)
    PROVE  SleepOK(c)'
<1>1. \A t : Ready(c, t)' = Ready(c, t)
  BY DEF Ready
<1>2. Ready(c, now) => Ready(c, now')
  BY DEF Ready
<1>3. Ival(c)' = Ival(c)
  BY DEF Ival
<1> QED  BY <1>1, <1>2, <1>3 DEF SleepOK, Ready

(* Each step keeps every backend within one sleep: one lemma step per      *)
(* action.                                                                 *)
LEMMA NextSleep ==
    Settled /\ "signal" \notin Faults /\ IndInv /\ SleepInv /\ [Next]_vars => SleepInv'
<1> SUFFICES ASSUME Settled, "signal" \notin Faults, IndInv, SleepInv, [Next]_vars,
                    NEW c \in Backend
             PROVE  SleepOK(c)'
  BY DEF SleepInv
<1>a. /\ TypeOK /\ TypeOK' /\ SleepOK(c)
      /\ Wall = now /\ now \in Nat
      /\ req[c].start \in Nat /\ req[c].start <= now
  BY NextType DEF IndInv, SleepInv, Wall, TypeOK, LoopInv
<1>1. ASSUME NEW m \in Mapping, BeginRequest(c, m)
      PROVE  SleepOK(c)'
  BY <1>1, <1>a DEF BeginRequest, TypeOK, SleepOK, IdleRequest
<1>2. ASSUME ReadClock(c)
      PROVE  SleepOK(c)'
  <2>1. req'[c] = [req[c] EXCEPT !.start = now] /\ req[c] \in Request /\ pc'[c] = "throttle"
    BY <1>2, <1>a DEF ReadClock, TypeOK
  <2>2. /\ req'[c].start = now /\ req'[c].sleeps = req[c].sleeps
        /\ req'[c].opt = req[c].opt /\ req'[c].map = req[c].map
    BY <2>1 DEF Request
  <2>3. Entry(c)' = Entry(c)
    BY <1>2, <2>2 DEF ReadClock, Entry, Key
  <2>4. Ival(c)' = TIMEVALDIFF(now, Entry(c).ts)
    BY <2>2, <2>3 DEF Ival
  <2>5. req[c].sleeps = 1 => Ival(c)' >= PeriodOf(req[c].opt)
    BY <1>2, <1>a, <2>4 DEF ReadClock, SleepOK, Ready
  <2> QED  BY <1>a, <2>1, <2>2, <2>5 DEF SleepOK
<1>3. ASSUME Sleep(c)
      PROVE  SleepOK(c)'
  <2> DEFINE p == PeriodOf(req[c].opt)
             d == Ival(c)
             s == req[c].start
             t == Entry(c).ts
  <2>1. /\ req[c] \in Request /\ req[c].opt \in Values /\ Key(c) \in User
        /\ req'[c] = Napping(req[c], now + Delay(c)) /\ pc'[c] = "asleep"
    BY <1>3, <1>a, PermitsType DEF Sleep, TypeOK
  <2>2. /\ req'[c].start = req[c].start /\ req'[c].opt = req[c].opt
        /\ req'[c].map = req[c].map /\ req'[c].wakeAt = now + Delay(c)
        /\ req'[c].sleeps = Least(req[c].sleeps + 1, 3)
    BY <2>1 DEF Napping, Request
  <2>3. p \in 1 .. 1000
    BY <2>1, PlanBounds
  <2>4. d \in Nat /\ d < p
    <3>1. d \in Nat /\ d \div p <= 0
      BY <1>3, PermitsBound DEF Sleep
    <3> HIDE DEF d, p
    <3> QED  BY <2>3, <3>1, SMT
  <2>5. t \in Nat /\ t <= s
    BY <1>3, <2>1 DEF Sleep, IndInv, LoopInv, BucketInv, BucketOK, Entry
  <2>6. req[c].sleeps = 0
    <3>1. req[c].sleeps \in 0 .. 1 /\ (req[c].sleeps = 1 => d >= p)
      BY <1>3, <1>a DEF Sleep, SleepOK
    <3> HIDE DEF d, p
    <3> QED  BY <2>3, <2>4, <3>1
  <2>7. Entry(c)' = Entry(c)
    BY <1>3, <2>2 DEF Sleep, Entry, Key
  <2>8. ASSUME NEW f \in Nat, f >= now + Delay(c)
        PROVE  TIMEVALDIFF(f, t) >= p
    <3>1. d = TIMEVALDIFF(s, t)
      BY DEF Ival
    <3>2. f >= s + (p - d) * UsecPerMsec
      <4>1. Delay(c) = (p - d) * UsecPerMsec
        BY DEF Delay
      <4> HIDE DEF p, d, s, t
      <4>2. s \in Nat /\ s <= now
        BY <1>a DEF s
      <4> QED  BY <1>a, <2>3, <2>4, <2>8, <3>1, <4>1, <4>2 DEF UsecPerMsec
    <3>3. s \in Nat
      BY <1>a
    <3> HIDE DEF p, d, s, t
    <3>4. t \in Nat /\ t <= s /\ d \in Nat /\ d < p /\ f \in Nat
      BY <2>4, <2>5, <2>8
    <3> QED  BY <2>3, <3>1, <3>2, <3>3, <3>4, OneSleepIsEnough, ZenonT(90)
  <2>9. Ready(c, req[c].wakeAt)'
    BY <2>2, <2>7, <2>8 DEF Ready
  <2>10. req'[c].sleeps = 1
    BY <2>2, <2>6 DEF Least
  <2> QED  BY <2>1, <2>9, <2>10 DEF SleepOK, Ready
<1>4. ASSUME Wake(c)
      PROVE  SleepOK(c)'
  <2>1. now >= req[c].wakeAt /\ pc[c] = "asleep" /\ pc'[c] = "clock"
    BY <1>4, <1>a DEF Wake, TypeOK
  <2>2. req' = req /\ Entry(c)' = Entry(c) /\ now' = now
    BY <1>4 DEF Wake, Entry, Key
  <2>3. req[c].wakeAt \in Int
    BY <1>a DEF TypeOK, Request
  <2>4. Ready(c, now)'
    BY <1>a, <2>1, <2>2, <2>3 DEF SleepOK, Ready
  <2> QED  BY <1>a, <2>1, <2>2, <2>4 DEF SleepOK
<1>5. ASSUME Admit(c)
      PROVE  SleepOK(c)'
  BY <1>5, <1>a DEF Admit, TypeOK, SleepOK
<1>6. ASSUME \/ Trap(c)
             \/ \E reply \in Replies : Reply(c, reply)
             \/ Exit(c)
      PROVE  SleepOK(c)'
  <2>1. pc'[c] = "idle" /\ req'[c] = IdleRequest
    BY <1>6, <1>a DEF Trap, Reply, Exit, TypeOK
  <2> QED  BY <2>1 DEF SleepOK, IdleRequest
<1>7. ASSUME NEW b \in Backend, b # c,
             \/ \E m \in Mapping : BeginRequest(b, m)
             \/ Step(b)
             \/ \E reply \in Replies : Reply(b, reply)
             \/ Exit(b)
      PROVE  SleepOK(c)'
  <2>1. /\ pc'[c] = pc[c] /\ req'[c] = req[c] /\ now' = now
    BY <1>7, <1>a DEF BeginRequest, Step, ReadClock, Sleep, Wake, Admit, Trap, Reply, Exit, TypeOK
  <2>2. counters'[c] = counters[c]
    <3>1. CASE \E m \in Mapping : BeginRequest(b, m)
      <4>1. PICK m \in Mapping : GetCounters(b, UserOf[m], option[m])
        BY <3>1 DEF BeginRequest
      <4> DEFINE e == [ZeroCounters EXCEPT !.tokens = option[m], !.ts = Wall]
                 g == [counters[b] EXCEPT ![UserOf[m]] = e]
      <4>2. counters' = counters \/ counters' = [counters EXCEPT ![b] = g]
        BY <4>1 DEF GetCounters
      <4>3. c \in DOMAIN counters
        BY <1>a DEF TypeOK
      <4> HIDE DEF e, g
      <4> QED  BY <1>7, <4>2, <4>3
    <3>2. CASE Step(b)
      <4>1. CASE Admit(b)
        <5> DEFINE e == [counters[b][Key(b)] EXCEPT
                           !.tokens = ToInt(Least(EffectiveRate(req[b].opt), Permits(b)) - 1),
                           !.ts = req[b].start]
                   g == [counters[b] EXCEPT ![Key(b)] = e]
        <5>1. counters' = [counters EXCEPT ![b] = g]
          BY <4>1 DEF Admit
        <5>2. c \in DOMAIN counters
          BY <1>a DEF TypeOK
        <5> HIDE DEF e, g
        <5> QED  BY <1>7, <5>1, <5>2
      <4>2. CASE ReadClock(b) \/ Sleep(b) \/ Wake(b) \/ Trap(b)
        BY <4>2 DEF ReadClock, Sleep, Wake, Trap
      <4> QED  BY <3>2, <4>1, <4>2 DEF Step
    <3>3. CASE \E reply \in Replies : Reply(b, reply)
      BY <1>7, <1>a, <3>3 DEF Reply, TypeOK
    <3>4. CASE Exit(b)
      BY <1>7, <1>a, <3>4 DEF Exit, TypeOK
    <3> QED  BY <1>7, <3>1, <3>2, <3>3, <3>4
  <2> QED  BY <1>a, <2>1, <2>2, SleepFrame DEF Entry, Key
<1>8. ASSUME \/ Pass
             \/ \E d \in JumpBacks : SetBack(d)
             \/ \E m \in Mapping, opt \in Values : AlterMapping(m, opt)
             \/ UNCHANGED vars
      PROVE  SleepOK(c)'
  <2>1. now \in Nat /\ now' \in Nat /\ now <= now'
    <3>1. CASE Pass
      <4>1. PICK t \in {now + d : d \in Ticks} \union Deadlines : Tick(t)
        BY <3>1 DEF Pass
      <4>2. t \in Int
        BY <1>a, <4>1, ConstantsOK DEF Deadlines, Request, TypeOK
      <4> QED  BY <1>a, <4>1, <4>2 DEF Tick
    <3>2. CASE ~Pass
      BY <1>8, <1>a, <3>2 DEF SetBack, AlterMapping, vars
    <3> QED  BY <3>1, <3>2
  <2>2. pc' = pc /\ req' = req /\ counters' = counters
    BY <1>8 DEF Pass, Tick, SetBack, AlterMapping, vars
  <2> QED  BY <1>a, <2>1, <2>2, SleepFrame DEF Entry, Key
<1> QED  BY <1>1, <1>2, <1>3, <1>4, <1>5, <1>6, <1>7, <1>8 DEF Next, Step

(* Where the bucket works and no signal cuts a sleep short, a request is   *)
(* admitted after one sleep at most, whatever the clock's rounding.        *)
THEOREM OneSleep ==
    ASSUME Settled, "signal" \notin Faults PROVE Spec => []SleepsOnce
<1>1. Init => IndInv /\ SleepInv
  <2> SUFFICES ASSUME Init  PROVE SleepInv
    BY InitBucket
  <2> QED  BY DEF Init, SleepInv, SleepOK, IdleRequest
<1>2. IndInv /\ SleepInv /\ [Next]_vars => (IndInv /\ SleepInv)'
  BY NextBucket, NextSleep
<1>3. SleepInv => SleepsOnce
  BY DEF SleepInv, SleepOK, SleepsOnce
<1> QED  BY <1>1, <1>2, <1>3, PTL DEF Spec
-----------------------------------------------------------------------------
(* The statistics add up, under every fault, clock and option value.       *)

(* The parts of StatsAccount.                                              *)
Answered(b, u)  == {i \in 1 .. Count(b, u) : Nth(b, u, i).reply # {}}
Successes(b, u) == {i \in Answered(b, u) : \A r \in Nth(b, u, i).reply : Granted(r)}

LastRate(b, u) ==
    \/ /\ Successes(b, u) = {}
       /\ counters[b][u].rate_info = NoRate
    \/ \E i \in Successes(b, u) :
          /\ \A j \in Successes(b, u) : j <= i
          /\ Nth(b, u, i).reply = {r \in Replies :
                /\ r \in Nth(b, u, i).reply
                /\ r.rate = counters[b][u].rate_info}

AccountOK(b, u) ==
    /\ counters[b][u].calls = Cardinality(Answered(b, u))
    /\ counters[b][u].success_calls = Cardinality(Successes(b, u))
    /\ LastRate(b, u)

(* A user without an entry has sent nothing in this session.               *)
NewcomerOK(b, u) == u \notin hash[b] => Count(b, u) = 0

(* A request that is under way is the last one sent, and not answered.     *)
AwaitsReply(b) == pc[b] = "inflight" => /\ Count(b, Key(b)) > 0
                                        /\ Nth(b, Key(b), Count(b, Key(b))).reply = {}

AccountInv == /\ TypeOK
              /\ \A b \in Backend, u \in User : AccountOK(b, u) /\ NewcomerOK(b, u)
              /\ \A b \in Backend : AwaitsReply(b)
-----------------------------------------------------------------------------
(* The requests answered are finitely many.                                *)
LEMMA AnsweredFinite ==
    ASSUME TypeOK, NEW b \in Backend, NEW u \in User
    PROVE  /\ Count(b, u) \in Nat
           /\ IsFiniteSet(Answered(b, u)) /\ IsFiniteSet(Successes(b, u))
<1>1. Count(b, u) \in Nat
  BY DEF TypeOK, Count
<1>2. IsFiniteSet(1 .. Count(b, u))
  BY <1>1, FS_Interval
<1>3. Answered(b, u) \in SUBSET (1 .. Count(b, u))
  BY DEF Answered
<1>4. Successes(b, u) \in SUBSET (1 .. Count(b, u))
  BY DEF Answered, Successes
<1> QED  BY <1>1, <1>2, <1>3, <1>4, FS_Subset

(* What leaves the statistics and the answers as they were.                *)
LEMMA AccountSame ==
    ASSUME NEW b \in Backend, NEW u \in User, AccountOK(b, u),
           Answered(b, u)' = Answered(b, u),
           \A i \in Answered(b, u) : Nth(b, u, i)'.reply = Nth(b, u, i).reply,
           counters'[b][u].calls = counters[b][u].calls,
           counters'[b][u].success_calls = counters[b][u].success_calls,
           counters'[b][u].rate_info = counters[b][u].rate_info
    PROVE  AccountOK(b, u)'
<1>1. Successes(b, u)' = Successes(b, u)
  BY DEF Successes
<1>2. \A i \in Successes(b, u) : Nth(b, u, i)'.reply = Nth(b, u, i).reply
  BY DEF Successes
<1>3. LastRate(b, u)'
  BY <1>1, <1>2 DEF AccountOK, LastRate
<1> QED  BY <1>1, <1>3 DEF AccountOK

(* A new entry accounts for no request.                                    *)
LEMMA AccountEmpty ==
    ASSUME NEW b \in Backend, NEW u \in User, Count(b, u)' = 0,
           counters'[b][u].calls = 0, counters'[b][u].success_calls = 0,
           counters'[b][u].rate_info = NoRate
    PROVE  AccountOK(b, u)'
<1>1. Answered(b, u)' = {} /\ Successes(b, u)' = {}
  BY DEF Answered, Successes
<1>2. Cardinality({}) = 0
  BY FS_EmptySet
<1> QED  BY <1>1, <1>2 DEF AccountOK, LastRate

(* One more answer, the last one, and its account.                         *)
LEMMA AccountOne ==
    ASSUME TypeOK, NEW b \in Backend, NEW u \in User, AccountOK(b, u),
           NEW n \in Nat \ {0}, n = Count(b, u), Count(b, u)' = n,
           Nth(b, u, n).reply = {},
           NEW reply \in Replies, Nth(b, u, n)'.reply = {reply},
           \A i \in 1 .. n - 1 : Nth(b, u, i)'.reply = Nth(b, u, i).reply,
           NEW tm \in Int, counters'[b][u] = Account(counters[b][u], tm, reply)
    PROVE  AccountOK(b, u)'
<1> DEFINE A == Answered(b, u)
           S == Successes(b, u)
<1>1. counters[b][u] \in Counters
  BY DEF TypeOK
<1>2. IsFiniteSet(A) /\ IsFiniteSet(S)
  BY AnsweredFinite
<1>3. n \notin A /\ n \notin S /\ A \subseteq 1 .. n /\ S \subseteq A
  BY DEF Answered, Successes
<1>4. Answered(b, u)' = A \union {n}
  <2>1. \A i \in 1 .. n : Nth(b, u, i)'.reply # {} <=> i \in A \/ i = n
    BY DEF Answered
  <2>2. Answered(b, u)' = {i \in 1 .. n : Nth(b, u, i)'.reply # {}}
    BY DEF Answered
  <2> QED  BY <1>3, <2>1, <2>2
<1>5. Successes(b, u)' = IF Granted(reply) THEN S \union {n} ELSE S
  <2>1. \A i \in A : Nth(b, u, i)'.reply = Nth(b, u, i).reply
    BY <1>3
  <2>2. Successes(b, u)' = {i \in A \union {n} : \A r \in Nth(b, u, i)'.reply : Granted(r)}
    BY <1>4 DEF Successes
  <2>3. S = {i \in A : \A r \in Nth(b, u, i).reply : Granted(r)}
    BY DEF Successes
  <2> QED  BY <2>1, <2>2, <2>3
<1>6. Cardinality(A \union {n}) = Cardinality(A) + 1
  BY <1>2, <1>3, FS_AddElement
<1>7. Cardinality(S \union {n}) = Cardinality(S) + 1
  BY <1>2, <1>3, FS_AddElement
<1>8. counters'[b][u].calls = counters[b][u].calls + 1
  BY <1>1 DEF Account, Counters
<1>9. CASE Granted(reply)
  <2>1. /\ counters'[b][u].success_calls = counters[b][u].success_calls + 1
        /\ counters'[b][u].rate_info = reply.rate
    BY <1>1, <1>9 DEF Account, Counters
  <2>2. Successes(b, u)' = S \union {n}
    BY <1>5, <1>9
  <2>3. \A j \in S \union {n} : j <= n
    BY <1>3
  <2>4. {reply} = {r \in Replies : r \in {reply} /\ r.rate = reply.rate}
    OBVIOUS
  <2>5. LastRate(b, u)'
    BY <2>1, <2>2, <2>3, <2>4 DEF LastRate
  <2> QED  BY <1>4, <1>6, <1>7, <1>8, <2>1, <2>2, <2>5 DEF AccountOK
<1>10. CASE ~Granted(reply)
  <2>1. /\ counters'[b][u].success_calls = counters[b][u].success_calls
        /\ counters'[b][u].rate_info = counters[b][u].rate_info
    BY <1>1, <1>10 DEF Account, Counters
  <2>2. Successes(b, u)' = S
    BY <1>5, <1>10
  <2>3. \A i \in S : Nth(b, u, i)'.reply = Nth(b, u, i).reply
    BY <1>3
  <2>4. LastRate(b, u)'
    BY <2>1, <2>2, <2>3 DEF AccountOK, LastRate
  <2> QED  BY <1>4, <1>6, <1>8, <2>1, <2>2, <2>4 DEF AccountOK
<1> QED  BY <1>9, <1>10
-----------------------------------------------------------------------------
(* What Reply does to the logs.                                            *)
LEMMA RepliesLog ==
    ASSUME TypeOK, NEW b \in Backend, NEW reply \in Replies, Reply(b, reply),
           NEW u \in User, u = Key(b), NEW n \in Nat \ {0}, n = Count(b, u)
    PROVE  /\ \A i \in 1 .. n - 1 : Nth(b, u, i)'.reply = Nth(b, u, i).reply
           /\ Nth(b, u, n)'.reply = {reply}
           /\ \A c \in Backend, v \in User :
                 ~(c = b /\ v = u) => \A i \in Int : Nth(c, v, i)' = Nth(c, v, i)
<1> DEFINE log  == sent[b][u]
           size == Len(log)
           low  == base[b][u]
           last == [log[size] EXCEPT !.reply = {reply}]
<1>1. log \in Seq(SentRecord) /\ size \in Nat \ {0} /\ low \in Nat /\ low + n = size
  BY DEF TypeOK, Count
<1>2. sent' = [sent EXCEPT ![b][u] = [log EXCEPT ![size] = last]] /\ base' = base
  BY DEF Reply
<1>3. sent'[b][u] = [log EXCEPT ![size] = last]
  BY <1>2 DEF TypeOK
<1>4. last.reply = {reply}
  <2>1. log[size] \in SentRecord
    BY <1>1
  <2> QED  BY <2>1 DEF SentRecord
<1> HIDE DEF last
<1>5. \A i \in Int : /\ Nth(b, u, i) = log[low + i]
                    /\ Nth(b, u, i)' = [log EXCEPT ![size] = last][low + i]
  BY <1>2, <1>3 DEF Nth
<1> HIDE DEF log, low
<1>6. \A k \in 1 .. size : [log EXCEPT ![size] = last][k] = IF k = size THEN last ELSE log[k]
  BY <1>1
<1>7. ASSUME NEW i \in 1 .. n - 1
      PROVE  Nth(b, u, i)'.reply = Nth(b, u, i).reply
  <2>1. i \in Int /\ low + i \in 1 .. size /\ low + i # size
    BY <1>1
  <2>2. Nth(b, u, i)' = Nth(b, u, i)
    BY <1>5, <1>6, <2>1
  <2> QED  BY <2>2
<1>8. Nth(b, u, n)' = last
  <2>1. [log EXCEPT ![size] = last][low + n] = last
    BY <1>1, <1>6
  <2> QED  BY <1>5, <2>1
<1>9. ASSUME NEW c \in Backend, NEW v \in User, ~(c = b /\ v = u), NEW i \in Int
      PROVE  Nth(c, v, i)' = Nth(c, v, i)
  BY <1>2, <1>9 DEF TypeOK, Nth
<1> QED  BY <1>4, <1>7, <1>8, <1>9

(* Steps that neither answer nor send.                                     *)
LEMMA QuietStep ==
    ASSUME AccountInv, TypeOK', UNCHANGED <<counters, hash, sent, base>>,
           \A b \in Backend : pc'[b] = "inflight" => pc[b] = "inflight" /\ req'[b] = req[b]
    PROVE  AccountInv'
<1>1. \A b \in Backend, u \in User : Count(b, u)' = Count(b, u)
  BY DEF Count
<1>2. \A b \in Backend, u \in User : \A i \in Int : Nth(b, u, i)' = Nth(b, u, i)
  BY DEF Nth
<1>3. ASSUME NEW b \in Backend, NEW u \in User
      PROVE  AccountOK(b, u)' /\ NewcomerOK(b, u)'
  <2>1. Answered(b, u)' = Answered(b, u)
    BY <1>1, <1>2, <1>3 DEF Answered
  <2>2. \A i \in Answered(b, u) : Nth(b, u, i)'.reply = Nth(b, u, i).reply
    BY SMTT(30), <1>2 DEF Answered
  <2> QED  BY <1>1, <2>1, <2>2, AccountSame DEF AccountInv, NewcomerOK
<1>4. ASSUME NEW b \in Backend
      PROVE  AwaitsReply(b)'
  BY Zenon DEF AccountInv, AwaitsReply, Key, Count, Nth
<1> QED  BY <1>3, <1>4 DEF AccountInv

(* The accounts are right at first.                                        *)
LEMMA AccountInit == Init => AccountInv
<1> SUFFICES ASSUME Init  PROVE AccountInv
  OBVIOUS
<1>1. ASSUME NEW b \in Backend, NEW u \in User
      PROVE  AccountOK(b, u) /\ NewcomerOK(b, u)
  <2>1. Count(b, u) = 0
    BY DEF Init, Count
  <2>2. Answered(b, u) = {} /\ Successes(b, u) = {}
    BY <2>1 DEF Answered, Successes
  <2>3. Cardinality({}) = 0
    BY FS_EmptySet
  <2> QED  BY <2>1, <2>2, <2>3 DEF Init, ZeroCounters, AccountOK, LastRate, NewcomerOK
<1>2. \A b \in Backend : AwaitsReply(b)
  BY DEF Init, AwaitsReply
<1> QED  BY <1>1, <1>2, InitType DEF AccountInv

(* Every step keeps the accounts right.                                    *)
LEMMA AccountStep == AccountInv /\ [Next]_vars => AccountInv'
<1> SUFFICES ASSUME AccountInv, [Next]_vars  PROVE AccountInv'
  OBVIOUS
<1>a. TypeOK /\ TypeOK'
  BY NextType DEF AccountInv
<1>1. ASSUME NEW b \in Backend, NEW m \in Mapping, BeginRequest(b, m)
      PROVE  AccountInv'
  <2> DEFINE u == UserOf[m]
  <2>1. u \in User
    BY ConstantsOK
  <2>2. ASSUME NEW c \in Backend, NEW v \in User
        PROVE  AccountOK(c, v)' /\ NewcomerOK(c, v)'
    <3>1. Count(c, v)' = Count(c, v) /\ \A i \in Int : Nth(c, v, i)' = Nth(c, v, i)
      BY <1>1 DEF BeginRequest, Count, Nth
    <3>2. NewcomerOK(c, v)'
      BY <1>1, <1>a, <3>1 DEF BeginRequest, GetCounters, TypeOK, AccountInv, NewcomerOK
    <3>3. CASE c = b /\ v = u /\ u \notin hash[b]
      <4>1. Count(c, v)' = 0
        BY <3>1, <3>3 DEF AccountInv, NewcomerOK
      <4>2. counters'[c][v] = [ZeroCounters EXCEPT !.tokens = option[m], !.ts = Wall]
        BY <1>1, <1>a, <2>1, <3>3 DEF BeginRequest, GetCounters, TypeOK
      <4> QED  BY <3>2, <4>1, <4>2, AccountEmpty DEF ZeroCounters
    <3>4. CASE ~(c = b /\ v = u /\ u \notin hash[b])
      <4>1. counters'[c][v] = counters[c][v]
        BY <1>1, <1>a, <2>1, <3>4 DEF BeginRequest, GetCounters, TypeOK
      <4>2. Answered(c, v)' = Answered(c, v)
        BY <3>1 DEF Answered
      <4>3. \A i \in Answered(c, v) : Nth(c, v, i)'.reply = Nth(c, v, i).reply
        BY SMTT(30), <3>1 DEF Answered
      <4> QED  BY <3>2, <4>1, <4>2, <4>3, AccountSame DEF AccountInv
    <3> QED  BY <3>3, <3>4
  <2>3. ASSUME NEW c \in Backend
        PROVE  AwaitsReply(c)'
    <3>1. pc'[c] = "inflight" => c # b /\ pc[c] = "inflight" /\ req'[c] = req[c]
      BY <1>1, <1>a DEF BeginRequest, TypeOK
    <3> QED  BY Zenon, <1>1, <3>1 DEF BeginRequest, AccountInv, AwaitsReply, Key, Count, Nth
  <2> QED  BY <1>a, <2>2, <2>3 DEF AccountInv
<1>2. ASSUME NEW b \in Backend, ReadClock(b) \/ Sleep(b) \/ Wake(b) \/ Trap(b)
      PROVE  AccountInv'
  <2>1. UNCHANGED <<counters, hash, sent, base>>
    BY <1>2 DEF ReadClock, Sleep, Wake, Trap
  <2>2. \A c \in Backend : pc'[c] = "inflight" => pc[c] = "inflight" /\ req'[c] = req[c]
    BY <1>2, <1>a DEF ReadClock, Sleep, Wake, Trap, TypeOK
  <2> QED  BY <1>a, <2>1, <2>2, QuietStep
<1>3. ASSUME NEW b \in Backend, Admit(b)
      PROVE  AccountInv'
  <2>1. PICK u \in User : u = Key(b)
    BY <1>3, <1>a, PermitsType DEF Admit
  <2>2. PICK n \in Nat : n = Count(b, u)
    BY <1>a, AnsweredFinite
  <2>3. /\ Count(b, u)' = n + 1
        /\ \A i \in 1 .. n : Nth(b, u, i)' = Nth(b, u, i)
        /\ Nth(b, u, n + 1)'.reply = {}
    BY <1>3, <1>a, <2>1, <2>2, AdmitLog
  <2>4. ASSUME NEW c \in Backend, NEW v \in User, ~(c = b /\ v = u)
        PROVE  /\ Count(c, v)' = Count(c, v) /\ \A i \in Int : Nth(c, v, i)' = Nth(c, v, i)
               /\ counters'[c][v] = counters[c][v]
    BY SMTT(30), <1>3, <1>a, <2>1, <2>4 DEF Admit, Count, Nth, TypeOK
  <2>5. /\ counters'[b][u].calls = counters[b][u].calls
        /\ counters'[b][u].success_calls = counters[b][u].success_calls
        /\ counters'[b][u].rate_info = counters[b][u].rate_info
    <3>1. counters[b][u] \in Counters
      BY <1>a DEF TypeOK
    <3>2. PICK t : counters'[b][u] = [counters[b][u] EXCEPT !.tokens = t, !.ts = req[b].start]
      BY ZenonT(30), <1>3, <1>a, <2>1 DEF Admit, TypeOK
    <3> QED  BY <3>1, <3>2 DEF Counters
  <2>6. u \in hash'[b]
    BY <1>3, <1>a, <2>1 DEF Admit, TypeOK
  <2>7. ASSUME NEW c \in Backend, NEW v \in User
        PROVE  AccountOK(c, v)' /\ NewcomerOK(c, v)'
    <3>1. CASE c = b /\ v = u
      <4>1. Answered(b, u)' = Answered(b, u)
        BY <2>2, <2>3 DEF Answered
      <4>2. \A i \in Answered(b, u) : Nth(b, u, i)'.reply = Nth(b, u, i).reply
        BY <2>2, <2>3 DEF Answered
      <4> QED  BY <2>5, <2>6, <3>1, <4>1, <4>2, AccountSame DEF AccountInv, NewcomerOK
    <3>2. CASE ~(c = b /\ v = u)
      <4>1. Answered(c, v)' = Answered(c, v)
        BY <2>4, <3>2 DEF Answered
      <4>2. \A i \in Answered(c, v) : Nth(c, v, i)'.reply = Nth(c, v, i).reply
        BY <2>4, <3>2 DEF Answered
      <4>3. hash' = hash
        BY <1>3 DEF Admit
      <4> QED  BY <2>4, <3>2, <4>1, <4>2, <4>3, AccountSame DEF AccountInv, NewcomerOK
    <3> QED  BY <3>1, <3>2
  <2>8. ASSUME NEW c \in Backend
        PROVE  AwaitsReply(c)'
    <3>1. Key(c)' = Key(c)
      BY <1>3 DEF Admit, Key
    <3>2. CASE c = b
      BY <2>1, <2>2, <2>3, <3>1, <3>2 DEF AwaitsReply
    <3>3. CASE c # b
      <4>1. pc'[c] = pc[c]
        BY <1>3, <1>a, <3>3 DEF Admit, TypeOK
      <4> QED  BY <1>3, <3>1, <3>3, <4>1 DEF Admit, AccountInv, AwaitsReply, Count, Nth, TypeOK
    <3> QED  BY <3>2, <3>3
  <2> QED  BY <1>a, <2>7, <2>8 DEF AccountInv
<1>4. ASSUME NEW b \in Backend, NEW reply \in Replies, Reply(b, reply)
      PROVE  AccountInv'
  <2>1. PICK u \in User : u = Key(b)
    BY <1>4, <1>a, PermitsType DEF Reply
  <2>2. PICK n \in Nat \ {0} : n = Count(b, u) /\ Nth(b, u, n).reply = {}
    BY <1>4, <1>a, <2>1, AnsweredFinite DEF Reply, AccountInv, AwaitsReply
  <2>3. \A c \in Backend, v \in User : Count(c, v)' = Count(c, v)
    BY <1>4, <1>a, ReplyLog
  <2>4. /\ \A i \in 1 .. n - 1 : Nth(b, u, i)'.reply = Nth(b, u, i).reply
        /\ Nth(b, u, n)'.reply = {reply}
        /\ \A c \in Backend, v \in User :
              ~(c = b /\ v = u) => \A i \in Int : Nth(c, v, i)' = Nth(c, v, i)
    BY <1>4, <1>a, <2>1, <2>2, RepliesLog
  <2>5. PICK tm \in Int : tm = TIMEVALDIFF(Wall, req[b].start)
    <3>1. Wall \in Int /\ req[b].start \in Int
      BY <1>4, <1>a, PermitsType DEF Reply, Request
    <3> QED
      BY <3>1, SMT DEF TIMEVALDIFF, CDiv, TvSec, TvUsec, UsecPerMsec, UsecPerSec
  <2>6. counters' = [counters EXCEPT ![b][u] = Account(counters[b][u], tm, reply)]
    BY <1>4, <2>1, <2>5 DEF Reply
  <2>7. hash' = hash
    BY <1>4 DEF Reply
  <2>8. ASSUME NEW c \in Backend, NEW v \in User
        PROVE  AccountOK(c, v)' /\ NewcomerOK(c, v)'
    <3>1. NewcomerOK(c, v)'
      BY <2>3, <2>7 DEF AccountInv, NewcomerOK
    <3>2. CASE c = b /\ v = u
      <4>1. counters'[b][u] = Account(counters[b][u], tm, reply)
        BY <1>a, <2>6 DEF TypeOK
      <4>2. AccountOK(b, u) /\ Count(b, u)' = n
        BY <2>2, <2>3 DEF AccountInv
      <4>3. AccountOK(b, u)'
        BY <1>a, <2>2, <2>4, <4>1, <4>2, AccountOne
      <4> QED  BY <3>1, <3>2, <4>3
    <3>3. CASE ~(c = b /\ v = u)
      <4>1. counters'[c][v] = counters[c][v]
        BY <1>a, <2>6, <3>3 DEF TypeOK
      <4>2. \A i \in Int : Nth(c, v, i)' = Nth(c, v, i)
        BY <2>4, <3>3
      <4>3. Answered(c, v)' = Answered(c, v)
        BY <2>3, <4>2 DEF Answered
      <4>4. \A i \in Answered(c, v) : Nth(c, v, i)'.reply = Nth(c, v, i).reply
        BY <4>2 DEF Answered
      <4> QED  BY <3>1, <4>1, <4>3, <4>4, AccountSame DEF AccountInv
    <3> QED  BY <3>2, <3>3
  <2>9. ASSUME NEW c \in Backend
        PROVE  AwaitsReply(c)'
    <3>1. pc'[c] = "inflight" => c # b /\ pc[c] = "inflight" /\ req'[c] = req[c]
      BY <1>4, <1>a DEF Reply, TypeOK
    <3>2. ASSUME pc'[c] = "inflight"
          PROVE  /\ Count(c, Key(c))' > 0
                 /\ Nth(c, Key(c), Count(c, Key(c)))'.reply = {}
      <4>1. PICK v \in User : v = Key(c)
        BY <1>a, <3>1, <3>2, PermitsType
      <4>2. Key(c)' = v
        BY <3>1, <3>2, <4>1 DEF Key
      <4>3. PICK k \in Nat \ {0} : k = Count(c, v) /\ Nth(c, v, k).reply = {}
        BY <1>a, <3>1, <3>2, <4>1, AnsweredFinite DEF AccountInv, AwaitsReply
      <4>4. Count(c, v)' = k /\ Nth(c, v, k)' = Nth(c, v, k)
        BY <2>3, <2>4, <3>1, <3>2, <4>3
      <4> QED  BY <4>2, <4>3, <4>4
    <3> QED  BY <3>2 DEF AwaitsReply
  <2> QED  BY <1>a, <2>8, <2>9 DEF AccountInv
<1>5. ASSUME NEW b \in Backend, Exit(b)
      PROVE  AccountInv'
  <2>1. ASSUME NEW c \in Backend, NEW v \in User
        PROVE  AccountOK(c, v)' /\ NewcomerOK(c, v)'
    <3>1. CASE c = b
      <4>1. counters'[c][v] = ZeroCounters
        BY <1>5, <1>a, <3>1 DEF Exit, TypeOK
      <4>2. Count(c, v)' = 0
        BY <1>5, <1>a, <3>1 DEF Exit, TypeOK, Count
      <4> QED  BY <4>1, <4>2, AccountEmpty DEF NewcomerOK, ZeroCounters
    <3>2. CASE c # b
      <4>1. counters'[c] = counters[c] /\ base'[c] = base[c] /\ sent' = sent /\ hash'[c] = hash[c]
        BY <1>5, <1>a, <3>2 DEF Exit, TypeOK
      <4>2. Count(c, v)' = Count(c, v) /\ \A i \in Int : Nth(c, v, i)' = Nth(c, v, i)
        BY <4>1 DEF Count, Nth
      <4>3. Answered(c, v)' = Answered(c, v)
        BY <4>2 DEF Answered
      <4>4. \A i \in Answered(c, v) : Nth(c, v, i)'.reply = Nth(c, v, i).reply
        BY SMTT(30), <4>2 DEF Answered
      <4> QED  BY <4>1, <4>2, <4>3, <4>4, AccountSame DEF AccountInv, NewcomerOK
    <3> QED  BY <3>1, <3>2
  <2>2. ASSUME NEW c \in Backend
        PROVE  AwaitsReply(c)'
    <3>1. pc'[c] = "inflight" => c # b /\ pc[c] = "inflight" /\ req'[c] = req[c]
      BY <1>5, <1>a DEF Exit, TypeOK
    <3> QED  BY Zenon, <1>5, <1>a, <3>1 DEF Exit, AccountInv, AwaitsReply, Key, Count, Nth, TypeOK
  <2> QED  BY <1>a, <2>1, <2>2 DEF AccountInv
<1>6. CASE Pass \/ (\E d \in JumpBacks : SetBack(d))
           \/ (\E m \in Mapping, opt \in Values : AlterMapping(m, opt)) \/ UNCHANGED vars
  <2>1. UNCHANGED <<counters, hash, sent, base, pc, req>>
    BY <1>6 DEF Pass, Tick, SetBack, AlterMapping, vars
  <2> QED  BY <1>a, <2>1, QuietStep
<1> QED  BY <1>1, <1>2, <1>3, <1>4, <1>5, <1>6 DEF Next, Step

(* Whatever the options, the clock and the API do: the counters of every   *)
(* session are an account of the requests it sent.                         *)
THEOREM StatisticsAddUp == Spec => []StatsAccount
<1>1. AccountInv => StatsAccount
  BY DEF AccountInv, AccountOK, LastRate, Answered, Successes, StatsAccount
<1> QED  BY <1>1, AccountInit, AccountStep, PTL DEF Spec
=============================================================================
