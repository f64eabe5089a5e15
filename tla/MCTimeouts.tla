----------------------------- MODULE MCTimeouts -----------------------------
(* Timeouts with the TCP timer every tick and the cyclic ones every other. *)
EXTENDS Timeouts

MCInterval == [h \in Timers |-> IF h = Tcp THEN 1 ELSE 2]
=============================================================================
