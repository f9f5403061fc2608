---------------------------- MODULE ResultStream ----------------------------
(***************************************************************************)
(* What a scan of the foreign table promises the executor: a question is   *)
(* asked at most once, its answer is fixed when it is, and its rows are    *)
(* then delivered one at a time, in order, none twice and none left out.   *)
(***************************************************************************)
EXTENDS Sequences

CONSTANT Answers  \* the answers that a question may have: sequences of rows

VARIABLES pending,   \* the rows still to be delivered
          delivered  \* the rows delivered since the scan was (re)started

Init == pending = << >> /\ delivered = << >>

(* The scan is started, restarted or ended: what was pending is dropped.   *)
Restart == pending' = << >> /\ delivered' = << >>

(* An answer arrives before any row of it is delivered.                    *)
Receive == /\ pending = << >> /\ delivered = << >>
           /\ pending' \in Answers
           /\ UNCHANGED delivered

Deliver == /\ pending # << >>
           /\ delivered' = Append(delivered, Head(pending))
           /\ pending' = Tail(pending)

Next == Restart \/ Receive \/ Deliver

Spec == Init /\ [][Next]_<<pending, delivered>>
=============================================================================
