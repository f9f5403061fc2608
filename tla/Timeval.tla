------------------------------ MODULE Timeval ------------------------------
(***************************************************************************)
(* The clock arithmetic of the rate limiter: C integer division and the    *)
(* TIMEVALDIFF macro.  A struct timeval is represented by the number of    *)
(* microseconds it stands for, so tv_sec and tv_usec are its quotient and  *)
(* remainder by one second.                                                *)
(***************************************************************************)
EXTENDS Integers

UsecPerMsec == 1000
UsecPerSec  == 1000000

TvSec(t)  == t \div UsecPerSec
TvUsec(t) == t % UsecPerSec

(* Division of C integers by a positive divisor: truncates toward zero.    *)
CDiv(a, b) == IF a >= 0 THEN a \div b ELSE -((-a) \div b)

(* The macro: whole milliseconds from start to end.  Its second term is    *)
(* negative, and so rounded UP, whenever tv_usec went down.                *)
TIMEVALDIFF(end, start) ==
    (TvSec(end) - TvSec(start)) * 1000
        + CDiv(TvUsec(end) - TvUsec(start), UsecPerMsec)

(* A clock that TIMEVALDIFF never outruns: one tick per millisecond, and   *)
(* one more per second for the millisecond the macro may gain when it      *)
(* crosses a second.  It telescopes, which TIMEVALDIFF does not.           *)
VirtualMsec(t) == t \div UsecPerMsec + t \div UsecPerSec
=============================================================================
