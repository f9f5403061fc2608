---------------------------- MODULE RateLimiter ----------------------------
(***************************************************************************)
(* The rate limiter and the per-user counters of ocgeo_fdw:                *)
(* ocgeoGetCounters and submitRequestWithRateLimiter, in every backend of  *)
(* one PostgreSQL server.                                                  *)
(*                                                                         *)
(* Each backend is single threaded and keeps its own hash table of         *)
(* counters, keyed by the user of the user mapping.  A scan of the foreign *)
(* table performs one request, inside one C call: it fetches the options,  *)
(* finds or creates the counters, then reads the clock and sleeps until    *)
(* the bucket has a permit, sends, and updates the statistics.  Time       *)
(* passes, options change and other backends run between any two of these  *)
(* steps.                                                                  *)
(***************************************************************************)
EXTENDS Timeval, Sequences, FiniteSets

CONSTANTS
    Backend,    \* PostgreSQL backends (sessions)
    Mapping,    \* user mappings: one per user and foreign server
    User,       \* keys of ocgeo_hash
    UserOf,     \* UserOf[m]: the user oid of mapping m
    OptionsOf,  \* OptionsOf[m]: values max_reqs_sec of m takes over time
    TopRate,    \* no option value admits more requests per second than this
    Replies,    \* the ways in which a call of ocgeo_forward may end
    NoRate,     \* a rate information of zeros
    NoMapping,  \* no request under way
    IntMax,     \* the largest C int
    Faults,     \* the disturbances considered, out of FaultKinds
    Ticks,      \* by how many microseconds time advances in one step
    JumpBacks,  \* by how many microseconds the wall clock is set back
    MaxClock,   \* bound: the observed run ends at this time
    LastStart,  \* bound: no request starts after this time
    MaxSetBack, \* bound: the clock is set back by no more than this in all
    MaxCalls    \* bound: requests sent, over all backends

(* "exit": a backend ends, by disconnecting or by a crash, and a new one   *)
(* takes its place; "signal": a signal cuts pg_usleep short.               *)
FaultKinds == {"exit", "signal"}

(* The requests per second that a value of the option stands for.          *)
EffectiveRate(opt) == IF opt > 0 THEN opt ELSE 1000

(* The milliseconds after which a permit is added to the bucket.           *)
PeriodOf(opt) == 1000 \div EffectiveRate(opt)

Values == UNION {OptionsOf[m] : m \in Mapping}

ASSUME ConstantsOK ==
    /\ UserOf \in [Mapping -> User]
    /\ OptionsOf \in [Mapping -> SUBSET Int]
    /\ \A m \in Mapping : OptionsOf[m] # {}
    /\ NoMapping \notin Mapping
    /\ \A r \in Replies :
          /\ DOMAIN r = {"ok", "success", "rate"}
          /\ r.ok \in BOOLEAN
          /\ r.success \in BOOLEAN
    /\ IntMax \in Nat
    /\ Faults \subseteq FaultKinds
    /\ Ticks \subseteq Nat \ {0}
    /\ JumpBacks \subseteq Nat \ {0}
    /\ MaxClock \in Nat
    /\ LastStart \in Nat
    /\ MaxSetBack \in Nat
    /\ MaxCalls \in Nat
ASSUME TopRateOK ==
    /\ TopRate \in Nat \ {0}
    /\ \A opt \in Values : EffectiveRate(opt) <= TopRate

(* What a conversion to a C int does to a longer integer.                  *)
ToInt(n) == ((n + IntMax + 1) % (2 * (IntMax + 1))) - (IntMax + 1)

Least(a, b) == IF a < b THEN a ELSE b

VARIABLES
    now,       \* true time, in microseconds
    offset,    \* the wall clock minus the true time
    option,    \* option[m]: the stored value of max_reqs_sec
    hash,      \* hash[b]: the users with an entry in b's ocgeo_hash
    counters,  \* counters[b][u]: the entry's Counters
    pc,        \* where in submitRequestWithRateLimiter b is
    req,       \* req[b]: the locals of the request under way
    sent,      \* history: sent[b][u], the requests of u sent by b
    base       \* history: how many of them earlier sessions of b sent

vars == <<now, offset, option, hash, counters, pc, req, sent, base>>

Wall == now + offset

(* A reply: ok is the result of ocgeo_forward (FALSE: no answer, or one    *)
(* that is not JSON), success whether the status is 200, rate the rate     *)
(* information in it, whatever its status.                                 *)
Granted(reply) == reply.ok /\ reply.success
RateInfo == {r.rate : r \in Replies} \union {NoRate}

Counters == [calls : Nat, success_calls : Nat, total_time : Int,
             rate_info : RateInfo, ts : Int, tokens : Int]
Request  == [map : Mapping \union {NoMapping}, opt : Int, start : Int,
             wakeAt : Int, sleeps : 0 .. 3]
(* A request sent: the start time it was admitted at, on the wall clock;   *)
(* the true time at which it left; and its replies (one, or none yet).     *)
SentRecord == [map : Mapping, at : Int, left : Nat, reply : SUBSET Replies]

ZeroCounters == [calls |-> 0, success_calls |-> 0, total_time |-> 0,
                 rate_info |-> NoRate, ts |-> 0, tokens |-> 0]
IdleRequest  == [map |-> NoMapping, opt |-> 0, start |-> 0,
                 wakeAt |-> 0, sleeps |-> 0]

(* All the requests sent so far, as backend, user and position.            *)
Sent == UNION {{<<b, u, i>> : i \in DOMAIN sent[b][u]} : b \in Backend, u \in User}
-----------------------------------------------------------------------------
Init ==
    /\ now = 0
    /\ offset = 0
    /\ option \in [Mapping -> Values]
    /\ \A m \in Mapping : option[m] \in OptionsOf[m]
    /\ hash = [b \in Backend |-> {}]
    /\ counters = [b \in Backend |-> [u \in User |-> ZeroCounters]]
    /\ pc = [b \in Backend |-> "idle"]
    /\ req = [b \in Backend |-> IdleRequest]
    /\ sent = [b \in Backend |-> [u \in User |-> << >>]]
    /\ base = [b \in Backend |-> [u \in User |-> 0]]

(* Mutant of GetCounters: the entry is looked up, not entered (HASH_FIND). *)
GetCountersFind(b, u, opt) ==
    /\ hash' = hash
    /\ counters' = [counters EXCEPT ![b][u] =
                      [ZeroCounters EXCEPT !.tokens = opt, !.ts = Wall]]

(* Mutant of GetCounters: initialises the entry whether found or not.      *)
GetCountersFresh(b, u, opt) ==
    /\ hash' = [hash EXCEPT ![b] = @ \union {u}]
    /\ counters' = [counters EXCEPT ![b][u] =
                      [ZeroCounters EXCEPT !.tokens = opt, !.ts = Wall]]

(* ocgeoGetCounters: the entry of u in b's table, created with a full      *)
(* bucket for the current option when there is none.                       *)
GetCounters(b, u, opt) ==
    /\ hash' = [hash EXCEPT ![b] = @ \union {u}]
    /\ counters' = IF u \in hash[b] THEN counters
                   ELSE [counters EXCEPT ![b][u] =
                           [ZeroCounters EXCEPT !.tokens = opt, !.ts = Wall]]

(* A scan with a condition on q starts: options are fetched (the stored    *)
(* value of max_reqs_sec), then the counters.                              *)
BeginRequest(b, m) ==
    /\ pc[b] = "idle"
    /\ now <= LastStart
    /\ Cardinality(Sent) < MaxCalls
    /\ GetCounters(b, UserOf[m], option[m])
    /\ req' = [req EXCEPT ![b] = [IdleRequest EXCEPT !.map = m, !.opt = option[m]]]
    /\ pc' = [pc EXCEPT ![b] = "clock"]
    /\ UNCHANGED <<now, offset, option, sent, base>>

(* Mutant of ReadClock: the clock is not read again after a sleep.         *)
ReadClockOnce(b) ==
    /\ pc[b] = "clock"
    /\ req' = IF req[b].sleeps = 0 THEN [req EXCEPT ![b].start = Wall] ELSE req
    /\ pc' = [pc EXCEPT ![b] = "throttle"]
    /\ UNCHANGED <<now, offset, option, hash, counters, sent, base>>

(* gettimeofday(&start_time), before the loop and after every sleep.       *)
ReadClock(b) ==
    /\ pc[b] = "clock"
    /\ req' = [req EXCEPT ![b].start = Wall]
    /\ pc' = [pc EXCEPT ![b] = "throttle"]
    /\ UNCHANGED <<now, offset, option, hash, counters, sent, base>>

Key(b)   == UserOf[req[b].map]
Entry(b) == counters[b][Key(b)]
Ival(b)  == TIMEVALDIFF(req[b].start, Entry(b).ts)

(* The permits the loop may compute.  Dividing by a period of zero is      *)
(* undefined: where the machine does not trap (see Trap) it yields zero.   *)
Permits(b) ==
    LET period == PeriodOf(req[b].opt)
    IN  ToInt(Entry(b).tokens + IF period = 0 THEN 0 ELSE CDiv(Ival(b), period))

(* Mutant of Delay: one millisecond short.                                 *)
DelayShort(b) == (PeriodOf(req[b].opt) - Ival(b) - 1) * UsecPerMsec

(* No permit: sleep for the rest of the period.  pg_usleep returns at once *)
(* when the delay is not positive.                                         *)
Napping(r, t) == [r EXCEPT !.wakeAt = t, !.sleeps = Least(@ + 1, 3)]

Delay(b) == (PeriodOf(req[b].opt) - Ival(b)) * UsecPerMsec

Sleep(b) ==
    /\ pc[b] = "throttle"
    /\ Permits(b) = 0
    /\ req' = [req EXCEPT ![b] = Napping(@, now + Delay(b))]
    /\ pc' = [pc EXCEPT ![b] = "asleep"]
    /\ UNCHANGED <<now, offset, option, hash, counters, sent, base>>

Wake(b) ==
    /\ pc[b] = "asleep"
    /\ now >= req[b].wakeAt \/ "signal" \in Faults
    /\ pc' = [pc EXCEPT ![b] = "clock"]
    /\ UNCHANGED <<now, offset, option, hash, counters, req, sent, base>>

(* Mutant of Admit: the permits saved while idle are not capped.           *)
AdmitUncapped(b) ==
    /\ pc[b] = "throttle"
    /\ Permits(b) # 0
    /\ counters' = [counters EXCEPT ![b][Key(b)] =
           [@ EXCEPT !.tokens = ToInt(Permits(b) - 1), !.ts = req[b].start]]
    /\ sent' = [sent EXCEPT ![b][Key(b)] =
           Append(@, [map |-> req[b].map, at |-> req[b].start,
                      left |-> now, reply |-> {}])]
    /\ pc' = [pc EXCEPT ![b] = "inflight"]
    /\ UNCHANGED <<now, offset, option, hash, req, base>>

(* Mutant of Admit: the bucket keeps its date, and earns a period twice.   *)
AdmitUndated(b) ==
    /\ pc[b] = "throttle"
    /\ Permits(b) # 0
    /\ counters' = [counters EXCEPT ![b][Key(b)].tokens =
           ToInt(Least(EffectiveRate(req[b].opt), Permits(b)) - 1)]
    /\ sent' = [sent EXCEPT ![b][Key(b)] =
           Append(@, [map |-> req[b].map, at |-> req[b].start,
                      left |-> now, reply |-> {}])]
    /\ pc' = [pc EXCEPT ![b] = "inflight"]
    /\ UNCHANGED <<now, offset, option, hash, req, base>>

(* A permit, or a negative number of them: take one, date the bucket, and  *)
(* send the request.                                                       *)
Admit(b) ==
    /\ pc[b] = "throttle"
    /\ Permits(b) # 0
    /\ counters' = [counters EXCEPT ![b][Key(b)] =
           [@ EXCEPT !.tokens = ToInt(Least(EffectiveRate(req[b].opt), Permits(b)) - 1),
                     !.ts = req[b].start]]
    /\ sent' = [sent EXCEPT ![b][Key(b)] =
           Append(@, [map |-> req[b].map, at |-> req[b].start,
                      left |-> now, reply |-> {}])]
    /\ pc' = [pc EXCEPT ![b] = "inflight"]
    /\ UNCHANGED <<now, offset, option, hash, req, base>>

(* Dividing by a period of zero traps: the signal handler of the backend   *)
(* turns it into an error that ends the statement.                         *)
Trap(b) ==
    /\ pc[b] = "throttle"
    /\ PeriodOf(req[b].opt) = 0
    /\ pc' = [pc EXCEPT ![b] = "idle"]
    /\ req' = [req EXCEPT ![b] = IdleRequest]
    /\ UNCHANGED <<now, offset, option, hash, counters, sent, base>>

(* Mutant of Account: every answer counts as a success.                    *)
AccountAnswers(e, tm, reply) ==
    LET called == [e EXCEPT !.calls = @ + 1, !.total_time = @ + tm]
    IN  IF reply.ok
        THEN [called EXCEPT !.success_calls = @ + 1, !.rate_info = reply.rate]
        ELSE called

(* ocgeo_forward returns after tm milliseconds: the statistics of e.       *)
Account(e, tm, reply) ==
    LET called == [e EXCEPT !.calls = @ + 1, !.total_time = @ + tm]
    IN  IF Granted(reply)
        THEN [called EXCEPT !.success_calls = @ + 1, !.rate_info = reply.rate]
        ELSE called

Reply(b, reply) ==
    /\ pc[b] = "inflight"
    /\ counters' = [counters EXCEPT ![b][Key(b)] =
           Account(@, TIMEVALDIFF(Wall, req[b].start), reply)]
    /\ sent' = [sent EXCEPT ![b][Key(b)][Len(sent[b][Key(b)])].reply = {reply}]
    /\ pc' = [pc EXCEPT ![b] = "idle"]
    /\ req' = [req EXCEPT ![b] = IdleRequest]
    /\ UNCHANGED <<now, offset, option, hash, base>>

-----------------------------------------------------------------------------
(* The environment.                                                        *)

(* Time passes: by one of Ticks, or until a sleeper is due.                *)
Deadlines == {req[b].wakeAt : b \in {c \in Backend : pc[c] = "asleep"}}

Tick(t) ==
    /\ now < t
    /\ t <= MaxClock
    /\ now' = t
    /\ UNCHANGED <<offset, option, hash, counters, pc, req, sent, base>>

Pass == \E t \in {now + d : d \in Ticks} \union Deadlines : Tick(t)

(* The wall clock is set back.                                             *)
SetBack(d) ==
    /\ Wall >= d
    /\ offset - d >= -MaxSetBack
    /\ offset' = offset - d
    /\ UNCHANGED <<now, option, hash, counters, pc, req, sent, base>>

(* ALTER USER MAPPING ... OPTIONS (SET max_reqs_sec ...), in any session.  *)
AlterMapping(m, opt) ==
    /\ opt \in OptionsOf[m] \ {option[m]}
    /\ option' = [option EXCEPT ![m] = opt]
    /\ UNCHANGED <<now, offset, hash, counters, pc, req, sent, base>>

(* Backend b ends, at any point, and a new one takes its place: the hash   *)
(* table was in its memory.                                                *)
Exit(b) ==
    /\ "exit" \in Faults
    /\ hash' = [hash EXCEPT ![b] = {}]
    /\ counters' = [counters EXCEPT ![b] = [u \in User |-> ZeroCounters]]
    /\ pc' = [pc EXCEPT ![b] = "idle"]
    /\ req' = [req EXCEPT ![b] = IdleRequest]
    /\ base' = [base EXCEPT ![b] = [u \in User |-> Len(sent[b][u])]]
    /\ UNCHANGED <<now, offset, option, sent>>

-----------------------------------------------------------------------------
Step(b) == ReadClock(b) \/ Sleep(b) \/ Wake(b) \/ Admit(b) \/ Trap(b)

Next ==
    \/ \E b \in Backend, m \in Mapping : BeginRequest(b, m)
    \/ \E b \in Backend : Step(b)
    \/ \E b \in Backend, reply \in Replies : Reply(b, reply)
    \/ \E b \in Backend : Exit(b)
    \/ Pass
    \/ \E d \in JumpBacks : SetBack(d)
    \/ \E m \in Mapping, opt \in Values : AlterMapping(m, opt)

Spec == Init /\ [][Next]_vars

(* Time passes, and a backend that can run does.  Nothing obliges the API  *)
(* to answer: the request sets no timeout.                                 *)
Fairness == /\ WF_vars(Pass)
            /\ \A b \in Backend : WF_vars(Step(b))

FairSpec == Spec /\ Fairness
-----------------------------------------------------------------------------
(* Properties.                                                             *)

(* Every variable has its type, and a backend in                           *)
(* submitRequestWithRateLimiter has its arguments: a mapping, an option    *)
(* and an entry of the hash table, which the stats pointer points to.      *)
TypeOK ==
    /\ now \in 0 .. MaxClock
    /\ offset \in Int
    /\ option \in [Mapping -> Values]
    /\ hash \in [Backend -> SUBSET User]
    /\ counters \in [Backend -> [User -> Counters]]
    /\ pc \in [Backend -> {"idle", "clock", "throttle", "asleep", "inflight"}]
    /\ req \in [Backend -> Request]
    /\ sent \in [Backend -> [User -> Seq(SentRecord)]]
    /\ base \in [Backend -> [User -> Nat]]
    /\ \A b \in Backend, u \in User : base[b][u] <= Len(sent[b][u])
    /\ \A b \in Backend : pc[b] # "idle" => /\ req[b].map \in Mapping
                                            /\ req[b].opt \in Values
                                            /\ Key(b) \in hash[b]

(* The requests that backend b has sent for user u in its present session: *)
(* how many, and the times at which they were admitted.                    *)
Count(b, u) == Len(sent[b][u]) - base[b][u]
Nth(b, u, i) == sent[b][u][base[b][u] + i]
Admissions(b, u) == [i \in 1 .. Count(b, u) |-> VirtualMsec(Nth(b, u, i).at)]

(* The abstract rate limiter: a client is one user in one session.         *)
LB == INSTANCE LeakyBucket WITH
        Client   <- Backend \X User,
        Burst    <- TopRate,
        Period   <- PeriodOf(TopRate),
        admitted <- [c \in Backend \X User |-> Admissions(c[1], c[2])]

(* The bucket works: within one session, the requests of one user that     *)
(* submitRequestWithRateLimiter admits between any two of them exceed a    *)
(* burst of the rate by no more than one for every period between the two, *)
(* whatever the mix of servers, option changes, rounding and oversleeping. *)
Envelope == \A b \in Backend, u \in User : LB!Conforms(Admissions(b, u))

(* The inductive strengthening of Envelope.  A request in the loop belongs *)
(* to a bucket dated no later than it; a bucket holds between none and a   *)
(* burst of tokens; and its tokens, with the requests admitted since the   *)
(* i-th of the session, are within the envelope that starts at the i-th.   *)
LoopInv == \A b \in Backend :
    /\ req[b].start \in 0 .. Wall
    /\ pc[b] = "throttle" => Entry(b).ts <= req[b].start

Earned(from, to) == (VirtualMsec(to) - VirtualMsec(from)) \div PeriodOf(TopRate)

BucketOK(b, u) ==
    /\ u \notin hash[b] => Count(b, u) = 0
    /\ counters[b][u].tokens \in 0 .. TopRate
    /\ counters[b][u].ts \in 0 .. Wall
    /\ \A i \in 1 .. Count(b, u) :
          /\ Nth(b, u, i).at \in 0 .. counters[b][u].ts
          /\ (Count(b, u) - i) + counters[b][u].tokens
                <= (TopRate - 1) + Earned(Nth(b, u, i).at, counters[b][u].ts)

BucketInv == \A b \in Backend, u \in User : BucketOK(b, u)

(* Where the bucket works: the clock is not set back, options are rates    *)
(* of at most 1000, and an int holds the periods of the longest idle time. *)
Settled ==
    /\ JumpBacks = {}
    /\ Values \subseteq Nat
    /\ TopRate <= 1000
    /\ TopRate + VirtualMsec(MaxClock) <= IntMax

(* Every step of the backends is one of the abstract limiter: it admits    *)
(* one request that conforms, forgets a session that ended, or stutters.   *)
ImplementsLeakyBucket == LB!Spec

(* The counters that ocgeo_stats shows are an account of the session: the  *)
(* calls are the requests sent and answered, the successful ones those     *)
(* answered with status 200, and rate_info what the last of these said.    *)
StatsAccount ==
    \A b \in Backend, u \in User :
        LET answered == {i \in 1 .. Count(b, u) : Nth(b, u, i).reply # {}}
            granted  == {i \in answered : \A r \in Nth(b, u, i).reply : Granted(r)}
        IN  /\ counters[b][u].calls = Cardinality(answered)
            /\ counters[b][u].success_calls = Cardinality(granted)
            /\ \/ /\ granted = {}
                  /\ counters[b][u].rate_info = NoRate
               \/ \E i \in granted :
                     /\ \A j \in granted : j <= i
                     /\ Nth(b, u, i).reply = {r \in Replies :
                           /\ r \in Nth(b, u, i).reply
                           /\ r.rate = counters[b][u].rate_info}

(* As long as no clock is set back and no signal arrives, the loop sleeps  *)
(* at most once: rounding never makes the delay it computes too short.     *)
SleepsOnce == \A b \in Backend : req[b].sleeps <= 1

(* A request that entered the loop leaves it, even when the clock is set   *)
(* back, signals arrive or replies are late: the throttle never blocks a   *)
(* backend for ever, unless the option makes the period zero.              *)
Throttled(b) == /\ pc[b] \in {"clock", "throttle", "asleep"}
                /\ PeriodOf(req[b].opt) # 0
NeverStarves == \A b \in Backend : Throttled(b) ~> ~Throttled(b)

(* README: the number of API calls per second does not exceed the user's   *)
(* plan, as configured by the user mapping.                                *)
PlanPerSecond ==
    \A m \in Mapping :
        LET mine == {s \in Sent : sent[s[1]][s[2]][s[3]].map = m}
            left(s) == sent[s[1]][s[2]][s[3]].left
        IN  \A s \in mine : \E opt \in OptionsOf[m] :
               Cardinality({t \in mine : left(t) - left(s) \in 0 .. UsecPerSec - 1})
                  <= EffectiveRate(opt)

(* The comment on Counters: rate_info is got from the most recent API call.*)
RateInfoIsMostRecent ==
    \A b \in Backend, u \in User :
        Count(b, u) > 0 =>
            \A r \in Nth(b, u, Count(b, u)).reply :
                r.ok => counters[b][u].rate_info = r.rate
=============================================================================
