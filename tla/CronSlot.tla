----------------------------- MODULE CronSlot -----------------------------
(***************************************************************************)
(* How long a soft run may go on confirming a down verdict, from the       *)
(* settings as LoadConfig clamps them (infrastructure/config.go) to the    *)
(* loop of confirmDown (services/orchestrator.go), against the five        *)
(* minutes after which cron starts the next run (deploy/yarddog.cron).     *)
(* Time is in seconds since the run was started; maintenance and store     *)
(* calls take none.                                                        *)
(***************************************************************************)
EXTENDS Integers

CONSTANTS RawConfirmations,   \* values an operator gives CHECK_CONFIRMATIONS
          RawDelays,          \* and CHECK_CONFIRM_DELAY
          CheckTimeout,       \* CHECK_TIMEOUT, which is not clamped
          TelemetryTimeout,   \* the longer of metricsTimeout and pingTimeout
          Slot                \* the period of the crontab's soft line

VARIABLES
    confirmations, delay,   \* the settings of this run
    phase,                  \* where softFlow is
    reprobes,               \* how many re-probes confirmDown has made
    elapsed                 \* when the last thing that took time ended

settings == <<confirmations, delay>>
vars == <<settings, phase, reprobes, elapsed>>

Between(low, n, high) == IF n < low THEN low ELSE IF n > high THEN high ELSE n
ClampCheckConfirmations(n) == Between(0, n, 5)
ClampCheckConfirmDelay(d) == Between(1, d, 60)

Init ==
    /\ \E n \in RawConfirmations : confirmations = ClampCheckConfirmations(n)
    /\ \E d \in RawDelays : delay = ClampCheckConfirmDelay(d)
    /\ phase = "initial" /\ reprobes = 0 /\ elapsed = 0

\* Something ends at once or by its timeout.
Takes(wait, timeout) == \E t \in {0, timeout} : elapsed' = elapsed + wait + t

\* A check that is not down is the end of it.
InitialCheck ==
    /\ phase = "initial" /\ Takes(0, CheckTimeout)
    /\ phase' \in {"telemetry", "decided"}
    /\ UNCHANGED <<settings, reprobes>>

CollectTelemetry ==
    /\ phase = "telemetry" /\ Takes(0, TelemetryTimeout)
    /\ phase' = "confirm"
    /\ UNCHANGED <<settings, reprobes>>

\* One turn of the loop: wait, probe, leave early if it is not down.
Reprobe ==
    /\ phase = "confirm" /\ reprobes < confirmations
    /\ Takes(delay, CheckTimeout)
    /\ reprobes' = reprobes + 1
    /\ phase' \in {"confirm", "decided"}
    /\ UNCHANGED settings

Confirmed ==
    /\ phase = "confirm" /\ reprobes = confirmations
    /\ phase' = "decided"
    /\ UNCHANGED <<settings, reprobes, elapsed>>

Next == InitialCheck \/ CollectTelemetry \/ Reprobe \/ Confirmed
Spec == Init /\ [][Next]_vars

\* The confirmation window ends inside the cron slot it began in, "so a run
\* can never still be confirming when the next one starts and hits the flock"
\* (config.go, on maxCheckConfirmations), whatever the operator configured.
ConfirmedWithinSlot == reprobes > 0 => elapsed < Slot
============================================================================
