------------------------- MODULE MCOutboxDestination -------------------------
(* A small instance of OutboxDestination for TLC: two sources that can mint  *)
(* the same event id, and one successor id.                                  *)
EXTENDS OutboxDestination
===============================================================================
