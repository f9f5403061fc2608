--------------------------- MODULE MCRateLimiter ---------------------------
(* Small instances of RateLimiter for TLC.                                 *)
EXTENDS RateLimiter

CONSTANTS b1, b2, u1, u2, m1, m2, full, low

Success == [ok |-> TRUE, success |-> TRUE, rate |-> full]
Quota   == [ok |-> TRUE, success |-> FALSE, rate |-> low]
NoJson  == [ok |-> FALSE, success |-> FALSE, rate |-> NoRate]

OneUser  == [m \in Mapping |-> u1]

MixedPlans == [m \in Mapping |-> IF m = m1 THEN {1} ELSE {2}]
PlanOf1    == [m \in Mapping |-> {1}]

JustSuccess == {Success}
AllReplies  == {Success, Quota, NoJson}

NoFault   == {}
MayExit   == {"exit"}
MaySignal == {"signal"}

AnyPlan    == [m \in Mapping |-> {1, 2, 2000}]
Nothing == {}
Back700Msec == {700000}
SubMillis   == {400600}
HalfSecond  == {500000}
=============================================================================
