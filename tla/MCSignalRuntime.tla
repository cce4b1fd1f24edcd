--------------------------- MODULE MCSignalRuntime ---------------------------
(* Two bars of one strategy, and samples of the bar that is forming. *)
EXTENDS SignalRuntime

Snapshot(s, b, n, d) == [scope |-> s, bar |-> b, sig |-> n, dir |-> d]

\* Child bars of bar 1: a buy, then a hold or a sell, then another buy.
MCEvents == {Snapshot("confirmed", 0, 1, "buy"), Snapshot("confirmed", 1, 1, "hold"),
             Snapshot("intrabar", 1, 1, "buy"), Snapshot("intrabar", 1, 2, "hold"),
             Snapshot("intrabar", 1, 2, "sell"), Snapshot("intrabar", 1, 3, "buy"),
             Snapshot("tick_derived", 1, 1, "sell")}

MCOffers == [e \in MCEvents |-> 1]
=============================================================================
