------------------------------ MODULE Verdict ------------------------------
(***************************************************************************)
(* How one round of connectivity probes is graded (domain/check.go).       *)
(* A round is a function that says for each configured target whether its  *)
(* probe succeeded; latencies and error texts never reach the verdict.     *)
(* A target is a (kind, address) pair, so the two groups never share one.  *)
(***************************************************************************)
EXTENDS Naturals

CONSTANTS IPTargets,      \* raw TCP dials to IP literals   (CHECK_IPS)
          DomainTargets   \* HTTPS GETs sharing a DNS path  (CHECK_DOMAINS)

ASSUME TargetsAssumption == IPTargets \cap DomainTargets = {}

Targets == IPTargets \cup DomainTargets
Rounds == [Targets -> BOOLEAN]
States == {"up", "degraded", "down"}

\* An empty group is "not applicable", never vacuously failed.
AllFailed(group, ok) == group # {} /\ \A t \in group : ~ok[t]

Verdict(ok) ==
    IF \/ AllFailed(IPTargets, ok)
       \/ AllFailed(DomainTargets, ok) /\ IPTargets = {}
    THEN "down"
    ELSE IF AllFailed(DomainTargets, ok) THEN "degraded" ELSE "up"

\* The verdicts Check can return under this configuration.
Verdicts == {Verdict(ok) : ok \in Rounds}

IsDegraded(state) == state = "degraded"
IsDown(state) == state = "down"

============================================================================
