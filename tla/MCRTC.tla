------------------------------- MODULE MCRTC -------------------------------
(* RTC for TLC: two processes, so that the handler may be interrupted on    *)
(* one of them while the other reads or sets the clock.                     *)
EXTENDS RTC

\* Values around the limits rtc_write tests for, and the two others whose bit
\* test succeeds.
EdgeRequests == {MinInt, 0, 1, 2, 3, 512, 1023, 1024, 1025}
=============================================================================
