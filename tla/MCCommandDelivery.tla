-------------------------- MODULE MCCommandDelivery --------------------------
(***************************************************************************)
(* Instances of CommandDelivery for TLC: the faults of each run.           *)
(***************************************************************************)
EXTENDS CommandDelivery

\* Workers only stop, or anything goes wrong.
Modes == {{"crash", "shutdown", "deaf"}, FaultNames}

\* A worker is slower than the reapers.
Slow == {{"stall"}}

=============================================================================
