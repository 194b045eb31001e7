--------------------------- MODULE MCHttpTxQueue ---------------------------
(* Fault sets for the response queue: refusals and timeouts; those and     *)
(* lines lost at the end of a batch; the timely environment in which       *)
(* clients only come and go; and that one with channels reused at once.    *)
EXTENDS HttpTxQueue

Troubled == {"hal", "idle", "timeout"}
Lossy == Troubled \cup {"split"}
Timely == {}
TimelyReuse == {"reuse"}
=============================================================================
