---------------------------- MODULE LeakyBucket ----------------------------
(***************************************************************************)
(* What the rate limiter of ocgeo_fdw promises, without saying how: every  *)
(* client is admitted at most Burst requests at once and one more for      *)
(* every Period that passes.  The state is only the list of the times at   *)
(* which each client was admitted; there is no bucket and no counter.      *)
(* RateLimiter is shown to implement it.                                   *)
(***************************************************************************)
EXTENDS Integers, Sequences

CONSTANTS Client,  \* those whose requests are metered separately
          Burst,   \* how many requests may be admitted at the same instant
          Period   \* time units after which one more is admitted

VARIABLE admitted  \* admitted[c]: the times of c's admissions, oldest first

Conforms(times) ==
    \A i, j \in 1 .. Len(times) :
        i <= j => j - i <= (Burst - 1) + (times[j] - times[i]) \div Period

Init == admitted = [c \in Client |-> << >>]

(* One more request of c, at any time that keeps c within its envelope.    *)
Admit(c) ==
    /\ Len(admitted'[c]) = Len(admitted[c]) + 1
    /\ admitted' = [admitted EXCEPT ![c] = Append(@, admitted'[c][Len(@) + 1])]
    /\ Conforms(admitted'[c])

(* The clients of C are forgotten: they start again with a full bucket.    *)
Forget(C) ==
    admitted' = [c \in Client |-> IF c \in C THEN << >> ELSE admitted[c]]

Next == \/ \E c \in Client : Admit(c)
        \/ \E C \in SUBSET Client : Forget(C)

Spec == Init /\ [][Next]_admitted
=============================================================================
