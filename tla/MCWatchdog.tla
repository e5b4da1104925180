----------------------------- MODULE MCWatchdog -----------------------------
(***************************************************************************)
(* Instances of Watchdog for TLC: one target of each kind is enough, since *)
(* Verdict then takes its three values.                                    *)
(***************************************************************************)
EXTENDS Watchdog

\* The clock moves one tick between runs.
MCForward == {1}
\* ... or is set back, or far forward, on a host without an RTC.
MCSteps == {-3, 1, 3}

BothModes == {"soft", "hard"}
SoftOnly == {"soft"}

============================================================================
