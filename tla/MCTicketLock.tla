---------------------------- MODULE MCTicketLock ----------------------------
(* Three threads, two futexes, and tickets that soon wrap around. *)
EXTENDS TicketLock
=============================================================================
