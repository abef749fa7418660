----------------------------- MODULE MCThrottle -----------------------------
(***************************************************************************)
(* Nominatim with ticks of half a second: an interval of 2, fallback       *)
(* delays of 1 and 2, and wake-ups up to one tick late.                    *)
(***************************************************************************)
EXTENDS Throttle

CONSTANTS r1, r2, r3

=============================================================================
