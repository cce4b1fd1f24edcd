----------------------------- MODULE MCBarEvents -----------------------------
(* Two bars, so that a batch can mix a retried and a new event. *)
EXTENDS BarEvents
=============================================================================
