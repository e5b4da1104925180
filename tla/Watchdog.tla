------------------------------ MODULE Watchdog ------------------------------
(***************************************************************************)
(* The watchdog pass of services/orchestrator.go, over many runs of the    *)
(* collector that share one database.  Every call the pass makes to the    *)
(* store, the checker, the notifier or the router is a step of its own, so *)
(* the process can die between any two of them and any store call can      *)
(* fail.  One run is active at a time: the flock of cmd/yarddog/main.go.   *)
(*                                                                         *)
(* Rows of `runs` are numbered in id order.  `now` is the wall clock in    *)
(* ticks of RECOVERY_INTERVAL.  Within a run only its two waits move it,   *)
(* the clock.After of confirmDown and of recoveryLoop; the time the calls  *)
(* take besides is left out.  Message delivery is the matter of module     *)
(* Outbox: here a message is in `outbox` once it has been enqueued.        *)
(***************************************************************************)
EXTENDS Integers, Sequences, FiniteSets, Verdict

CONSTANTS CheckConfirmations,   \* re-probes of a down verdict
          CheckConfirmDelay,    \* the wait before each, in ticks
          RebootMinStreak,      \* consecutive down runs a reboot needs
          RebootEnabledValues,  \* what .env may hold; FALSE is monitor-only
          RebootCooldown,       \* in ticks
          RecoveryTimeout,      \* in ticks
          HotWindow,            \* age, in ticks, at which a run is archived
          Modes,                \* the modes cron starts the collector in
          Gaps,                 \* ticks by which the clock moves between runs
          MaxRuns, MaxFaults, MaxCrashes, MaxReplyLosses  \* bounds

ASSUME SettingsAssumption ==
    /\ CheckConfirmations \in Nat /\ CheckConfirmDelay \in Nat
    /\ RebootMinStreak \in Nat \ {0}
    /\ RebootEnabledValues \subseteq BOOLEAN
    /\ RebootCooldown \in Nat
    /\ RecoveryTimeout \in Nat
    /\ HotWindow \in Nat \ {0}
    /\ Modes \subseteq {"soft", "hard"}
    /\ Gaps \subseteq Int
ASSUME BoundsAssumption ==
    /\ MaxRuns \in Nat
    /\ MaxFaults \in Nat
    /\ MaxCrashes \in Nat
    /\ MaxReplyLosses \in Nat

VARIABLES
    \* the database, which outlives every run
    runs,      \* the rows ever inserted, in id order
    hot,       \* the indices not yet rolled over into runs_archive
    outbox,    \* the messages enqueued, as [run, msg] records
    \* the clock
    now,
    \* the memory of the running process
    pc,        \* the call the run makes next; "idle" between runs
    mode,
    enabled,   \* REBOOT_ENABLED, as this run loaded it
    run,       \* the row of this run, 0 until it is inserted
    seen,      \* the verdicts this run has obtained before deciding
    ending,    \* the terminal state the run is closing with
    waited,    \* ticks since Reboot returned, on the monotonic clock
    alive,     \* was the gateway reachable at the last recovery poll
    exit,      \* the exit code of the last run
    \* history and bounds
    samples,   \* for each row, the verdicts its run obtained
    reboots,   \* the reboots the router really performed
    recovery,  \* the verdicts of this run's recovery polls
    started, faults, crashes, losses

store == <<runs, hot, outbox>>
setting == <<mode, enabled>>
budget == <<started, crashes, losses>>
vars == <<runs, hot, outbox, now, pc, mode, enabled, run, seen, ending,
          waited, alive, exit, samples, reboots, recovery, started, faults, crashes, losses>>

None == -1   \* SQL NULL in a timestamp column

(***************************************************************************)
(* The terminal states of Execute: the message each one sends, whether     *)
(* shouldAnnounce decides about it, and the action, outcome and exit code  *)
(* it leaves.  "keep" leaves the action column as it is.                   *)
(***************************************************************************)
Ending(msg, gated, action, outcome, code) ==
    [msg |-> msg, gated |-> gated, action |-> action,
     outcome |-> outcome, code |-> code]

Endings ==
  [ ok          |-> Ending("none", FALSE, "keep", "ok", 0),
    unconfirmed |-> Ending("none", FALSE, "keep", "unconfirmed", 0),
    unsustained |-> Ending("none", FALSE, "keep", "unsustained", 6),
    degraded    |-> Ending("degraded", TRUE, "keep", "degraded", 6),
    disabled    |-> Ending("disabled", FALSE, "skipped_disabled", "reboot_disabled", 0),
    skipped     |-> Ending("skipping", TRUE, "skipped_cooldown", "skipped", 5),
    unknown     |-> Ending("unknown", FALSE, "skipped_cooldown", "skipped", 5),
    failed      |-> Ending("failed", FALSE, "keep", "reboot_failed", 3),
    completed   |-> Ending("completed", FALSE, "keep", "ok", 0),
    timeout     |-> Ending("gave_up", FALSE, "keep", "timeout", 4) ]

EndingNames == DOMAIN Endings
HasMessage(e) == Endings[e].msg # "none"

NewRow(m, ok) ==
    [startedAt |-> now, mode |-> m, internetOK |-> ok, action |-> "none",
     rebootStartedAt |-> None, routerDownAt |-> None, routerUpAt |-> None,
     restoredAt |-> None, finishedAt |-> None, outcome |-> "null"]

(***************************************************************************)
(* The calls a step can make.                                              *)
(***************************************************************************)
StoreFails == faults < MaxFaults /\ faults' = faults + 1
StoreWorks == faults' = faults

UpdateRun_NoWhere(row) ==
    StoreWorks /\ runs' = [i \in DOMAIN runs |-> row]

\* UpdateRun on this run's row; a failure is only logged.
UpdateRun(row) ==
    \/ StoreWorks /\ runs' = [runs EXCEPT ![run] = row]
    \/ StoreFails /\ UNCHANGED runs

\* Notify enqueues before it sends; a failed enqueue is only logged.
Notify(msg) ==
    \/ StoreWorks /\ outbox' = outbox \cup {[run |-> run, msg |-> msg]}
    \/ StoreFails /\ UNCHANGED outbox

RecentRuns_OwnRow(n) ==
    {i \in hot : Cardinality({j \in hot : i < j}) < n}

\* RecentRuns: the n newest hot rows before this one (all, if fewer).
RecentRuns(n) ==
    {i \in hot : i < run /\ Cardinality({j \in hot : i < j /\ j < run}) < n}

WithinCooldown_Successful ==
    \E i \in hot : /\ runs[i].outcome = "ok" /\ runs[i].rebootStartedAt # None
                   /\ now - runs[i].rebootStartedAt < RebootCooldown
WithinCooldown_Requested ==
    \E i \in hot : /\ i < run /\ runs[i].action = "reboot"
                   /\ now - runs[i].startedAt < RebootCooldown

\* Now.Sub(GetLastRebootStartedAt) < cooldown: the newest of the recorded
\* reboots has the least age, so it is within the cooldown iff one of them is.
WithinCooldown ==
    \E i \in hot : /\ runs[i].action = "reboot"
                   /\ runs[i].rebootStartedAt # None
                   /\ now - runs[i].rebootStartedAt < RebootCooldown

Goto(label, e) == pc' = label /\ ending' = e

\* The first step of closing with e: the announce guard, the message, or the row.
Close(e) ==
    Goto(IF Endings[e].gated THEN "gate" ELSE IF HasMessage(e) THEN "say" ELSE "settle", e)

(***************************************************************************)
(* Between runs: cron starts the collector, which rolls aged runs over to  *)
(* the archive (best effort) before the pass begins.                       *)
(***************************************************************************)
Rollover ==
    \/ StoreWorks /\ hot' = {i \in hot : runs[i].startedAt >= now' - HotWindow}
    \/ StoreFails /\ UNCHANGED hot

StartRun ==
    /\ pc = "idle" /\ started < MaxRuns /\ started' = started + 1
    /\ \E g \in Gaps : now + g >= 0 /\ now' = now + g
    /\ Rollover
    /\ \E m \in Modes :
          /\ mode' = m
          /\ pc' = IF m = "soft" THEN "probe" ELSE "insert"
    /\ enabled' \in RebootEnabledValues
    /\ run' = 0 /\ seen' = <<>> /\ ending' = "none" /\ waited' = 0
    /\ alive' = TRUE /\ exit' = None /\ recovery' = {}
    /\ UNCHANGED <<runs, outbox, samples, reboots, crashes, losses>>

(***************************************************************************)
(* softFlow and hardFlow up to the decision.                               *)
(***************************************************************************)
Check == \E v \in Verdicts : seen' = Append(seen, v)

Probe ==
    /\ pc = "probe"
    /\ Check
    /\ Goto("insert", ending)
    /\ UNCHANGED <<store, now, setting, run, waited, alive, exit, samples,
                   reboots, recovery, budget, faults>>

InternetOK == IF mode = "hard" THEN "null"
              ELSE IF IsDown(seen[1]) THEN "false" ELSE "true"

NeedsConfirm_OffByOne == InternetOK = "false" /\ CheckConfirmations > 1
NeedsConfirm == InternetOK = "false" /\ CheckConfirmations > 0

NextRow_Gap == Len(runs) + 2
NextRow == Len(runs) + 1

InsertRun ==
    /\ pc = "insert"
    /\ \/ /\ StoreWorks
          /\ runs' = Append(runs, NewRow(mode, InternetOK))
          /\ run' = NextRow
          /\ hot' = hot \cup {NextRow}
          /\ samples' = Append(samples, seen)
          /\ Goto(IF NeedsConfirm THEN "confirm" ELSE "decide", ending)
          /\ UNCHANGED exit
       \/ /\ StoreFails
          /\ Goto("idle", ending) /\ exit' = 1
          /\ UNCHANGED <<runs, run, hot, samples>>
    /\ UNCHANGED <<outbox, now, setting, seen, waited, alive, reboots, recovery,
                   budget>>

Result == seen[Len(seen)]

\* One iteration of confirmDown: wait, re-probe, and stop at the first sample
\* that is not down or after CheckConfirmations of them.
Confirm ==
    /\ pc = "confirm"
    /\ now' = now + CheckConfirmDelay
    /\ Check
    /\ samples' = [samples EXCEPT ![run] = seen']
    /\ Goto(IF ~IsDown(Result') THEN "clear"
            ELSE IF Len(seen) = CheckConfirmations THEN "decide"
            ELSE "confirm", ending)
    /\ UNCHANGED <<store, setting, run, waited, alive, exit, reboots,
                   recovery, budget, faults>>

\* A cleared verdict corrects the internet_ok its first sample wrote.
Clear ==
    /\ pc = "clear"
    /\ UpdateRun([runs[run] EXCEPT !.internetOK = "true"])
    /\ Goto("decide", ending)
    /\ UNCHANGED <<hot, outbox, now, setting, run, seen, waited, alive, exit,
                   samples, reboots, recovery, budget>>

DecideHard_Unconditional == Goto("mark", "none")

DecideHard ==
    \/ ~enabled /\ Close("disabled")
    \/ enabled /\ Goto("mark", "none")

DecideSoft ==
    \/ IsDegraded(Result) /\ Close("degraded")
    \/ Result = "up" /\ IsDown(seen[1]) /\ Close("unconfirmed")
    \/ Result = "up" /\ ~IsDown(seen[1]) /\ Close("ok")
    \/ IsDown(Result) /\ ~enabled /\ Close("disabled")
    \/ IsDown(Result) /\ enabled /\ Goto("streak", "none")

Decide ==
    /\ pc = "decide"
    /\ (mode = "hard" /\ DecideHard) \/ (mode = "soft" /\ DecideSoft)
    /\ UNCHANGED <<store, now, setting, run, seen, waited, alive, exit, samples,
                   reboots, recovery, budget, faults>>

(***************************************************************************)
(* The reboot guards.  A query that fails is fail-closed.                  *)
(***************************************************************************)
Sustained_NullIsDown ==
    LET previous == RecentRuns(RebootMinStreak - 1)
    IN  /\ Cardinality(previous) = RebootMinStreak - 1
        /\ \A i \in previous : runs[i].internetOK # "true"

Sustained ==
    LET previous == RecentRuns(RebootMinStreak - 1)
    IN  /\ Cardinality(previous) = RebootMinStreak - 1
        /\ \A i \in previous : runs[i].internetOK = "false"

OutageSustained ==
    /\ pc = "streak"
    /\ \/ StoreWorks /\ Sustained /\ Goto("cooldown", ending)
       \/ StoreWorks /\ ~Sustained /\ Close("unsustained")
       \/ RebootMinStreak > 1 /\ StoreFails /\ Close("unsustained")
    /\ UNCHANGED <<store, now, setting, run, seen, waited, alive, exit, samples,
                   reboots, recovery, budget>>

Cooldown ==
    /\ pc = "cooldown"
    /\ \/ StoreWorks /\ WithinCooldown /\ Close("skipped")
       \/ StoreWorks /\ ~WithinCooldown /\ Goto("mark", "none")
       \/ StoreFails /\ Close("unknown")
    /\ UNCHANGED <<store, now, setting, run, seen, waited, alive, exit, samples,
                   reboots, recovery, budget>>

(***************************************************************************)
(* rebootSequence: record the intent, announce it, and only then act.      *)
(***************************************************************************)
MarkAction ==
    /\ pc = "mark"
    /\ UpdateRun([runs[run] EXCEPT !.action = "reboot"])
    /\ Goto("initiate", ending)
    /\ UNCHANGED <<hot, outbox, now, setting, run, seen, waited, alive, exit,
                   samples, reboots, recovery, budget>>

Initiate_LiveOnly ==
    /\ pc = "initiate"
    /\ StoreWorks /\ UNCHANGED outbox
    /\ Goto("request", ending)
    /\ UNCHANGED <<runs, hot, now, setting, run, seen, waited, alive, exit,
                   samples, reboots, recovery, budget>>

Initiate ==
    /\ pc = "initiate"
    /\ Notify("initiated")
    /\ Goto("request", ending)
    /\ UNCHANGED <<runs, hot, now, setting, run, seen, waited, alive, exit,
                   samples, reboots, recovery, budget>>

\* The router reboots and says so; it reboots but its answer is lost or
\* unreadable; or it does not reboot (bad login, no token, a redirect).
Reboot ==
    /\ pc = "request"
    /\ \/ /\ reboots' = Append(reboots, [run |-> run, at |-> now])
          /\ Goto("stamp", ending)
          /\ UNCHANGED losses
       \/ /\ losses < MaxReplyLosses /\ losses' = losses + 1
          /\ reboots' = Append(reboots, [run |-> run, at |-> now])
          /\ Close("failed")
       \/ Close("failed") /\ UNCHANGED <<reboots, losses>>
    /\ UNCHANGED <<store, now, setting, run, seen, waited, alive, exit, samples,
                   recovery, started, crashes, faults>>

StampReboot ==
    /\ pc = "stamp"
    /\ UpdateRun([runs[run] EXCEPT !.rebootStartedAt = now])
    /\ Goto("poll", ending)
    /\ UNCHANGED <<hot, outbox, now, setting, run, seen, waited, alive, exit,
                   samples, reboots, recovery, budget>>

(***************************************************************************)
(* recoveryLoop: wait, poll the gateway, poll the internet.                *)
(***************************************************************************)
HandleGatewayTransition_NoMemory(ok) ==
    /\ alive' = ok
    /\ \/ ~ok /\ UpdateRun([runs[run] EXCEPT !.routerDownAt = now'])
       \/ ok /\ UpdateRun([runs[run] EXCEPT !.routerUpAt = now'])

HandleGatewayTransition(ok) ==
    /\ alive' = ok
    /\ \/ alive /\ ~ok /\ UpdateRun([runs[run] EXCEPT !.routerDownAt = now'])
       \/ ~alive /\ ok /\ UpdateRun([runs[run] EXCEPT !.routerUpAt = now'])
       \/ alive = ok /\ StoreWorks /\ UNCHANGED runs

PollGateway_FrozenNow ==
    /\ pc = "poll"
    /\ now' = now /\ waited' = waited
    /\ \E ok \in BOOLEAN : HandleGatewayTransition(ok)
    /\ Goto("recheck", ending)
    /\ UNCHANGED <<hot, outbox, setting, run, seen, exit, samples, reboots,
                   recovery, budget>>

PollGateway ==
    /\ pc = "poll"
    /\ now' = now + 1 /\ waited' = waited + 1
    /\ \E ok \in BOOLEAN : HandleGatewayTransition(ok)
    /\ Goto("recheck", ending)
    /\ UNCHANGED <<hot, outbox, setting, run, seen, exit, samples, reboots,
                   recovery, budget>>

Recovered_UpOnly(v) == v = "up"
\* A degraded link is back too: a reboot cannot mend the rest.
Recovered(v) == ~IsDown(v)

PollInternet ==
    /\ pc = "recheck"
    /\ \E v \in Verdicts :
          /\ recovery' = recovery \cup {v}
          /\ \/ Recovered(v) /\ Close("completed")
             \/ ~Recovered(v) /\ waited >= RecoveryTimeout /\ Close("timeout")
             \/ ~Recovered(v) /\ waited < RecoveryTimeout /\ Goto("poll", ending)
    /\ UNCHANGED <<store, now, setting, run, seen, waited, alive, exit, samples,
                   reboots, budget, faults>>

(***************************************************************************)
(* Closing: shouldAnnounce, the message, the row, the exit code.  The      *)
(* Flush some endings make between the last two concerns module Outbox.    *)
(***************************************************************************)
News_NoHistory ==
    \E i \in RecentRuns(1) : runs[i].outcome # Endings[ending].outcome
News == \A i \in RecentRuns(1) : runs[i].outcome # Endings[ending].outcome

ShouldAnnounce ==
    /\ pc = "gate"
    /\ \/ StoreWorks /\ Goto(IF News THEN "say" ELSE "settle", ending)
       \/ StoreFails /\ Goto("say", ending)
    /\ UNCHANGED <<store, now, setting, run, seen, waited, alive, exit, samples,
                   reboots, recovery, budget>>

Say ==
    /\ pc = "say"
    /\ Notify(Endings[ending].msg)
    /\ Goto("settle", ending)
    /\ UNCHANGED <<runs, hot, now, setting, run, seen, waited, alive, exit,
                   samples, reboots, recovery, budget>>

Settle ==
    /\ pc = "settle"
    /\ LET e == Endings[ending]
           row == [runs[run] EXCEPT !.outcome = e.outcome, !.finishedAt = now]
       IN  /\ UpdateRun([row EXCEPT
                !.action = IF e.action = "keep" THEN @ ELSE e.action,
                !.restoredAt = IF ending = "completed" THEN now ELSE @])
           /\ exit' = e.code
    /\ Goto("idle", ending)
    /\ UNCHANGED <<hot, outbox, now, setting, run, seen, waited, alive, samples,
                   reboots, recovery, budget>>

\* The process is killed, or the host loses power; the flock goes with it.
Crash ==
    /\ pc # "idle" /\ crashes < MaxCrashes /\ crashes' = crashes + 1
    /\ Goto("idle", ending)
    /\ UNCHANGED <<store, now, setting, run, seen, waited, alive, exit, samples,
                   reboots, recovery, started, losses, faults>>

\* The bound on runs is reached.
Finished == pc = "idle" /\ started = MaxRuns /\ UNCHANGED vars

(***************************************************************************)
(* The specification.                                                      *)
(***************************************************************************)
Init ==
    /\ runs = <<>> /\ hot = {} /\ outbox = {} /\ now = 0
    /\ pc = "idle" /\ mode = "soft" /\ enabled = TRUE /\ run = 0 /\ seen = <<>>
    /\ ending = "none" /\ waited = 0 /\ alive = TRUE /\ exit = None
    /\ samples = <<>> /\ reboots = <<>> /\ recovery = {}
    /\ started = 0 /\ faults = 0 /\ crashes = 0 /\ losses = 0

Step == \/ Probe \/ InsertRun \/ Confirm \/ Clear \/ Decide
        \/ OutageSustained \/ Cooldown
        \/ MarkAction \/ Initiate \/ Reboot \/ StampReboot
        \/ PollGateway \/ PollInternet
        \/ ShouldAnnounce \/ Say \/ Settle

Next == StartRun \/ Step \/ Crash \/ Finished

Spec == Init /\ [][Next]_vars

\* Every call a run makes returns: the waits are timers, the HTTP clients and
\* dialers have deadlines and SQLite a busy timeout.  Nothing makes cron fire.
FairSpec == Spec /\ WF_vars(Step)

(***************************************************************************)
(* Properties.                                                             *)
(***************************************************************************)
Timestamps == Nat \cup {None}

Rows == [startedAt : Nat, mode : {"soft", "hard"},
         internetOK : {"null", "true", "false"},
         action : {"none", "reboot", "skipped_cooldown", "skipped_disabled"},
         rebootStartedAt : Timestamps, routerDownAt : Timestamps,
         routerUpAt : Timestamps, restoredAt : Timestamps,
         finishedAt : Timestamps,
         outcome : {"null"} \cup {Endings[e].outcome : e \in EndingNames}]

Labels == {"idle", "probe", "insert", "confirm", "clear", "decide", "streak",
           "cooldown", "mark", "initiate", "request", "stamp", "poll",
           "recheck", "gate", "say", "settle"}

Messages == {"initiated"} \cup {Endings[e].msg : e \in EndingNames}

\* The type invariant: the columns, the process memory and the history of
\* services/orchestrator.go hold values of their types.
TypeOK ==
    /\ runs \in Seq(Rows)
    /\ hot \subseteq 1..Len(runs)
    /\ outbox \subseteq [run : 1..Len(runs), msg : Messages]
    /\ now \in Nat
    /\ pc \in Labels
    /\ mode \in {"soft", "hard"} /\ enabled \in BOOLEAN
    /\ run \in 0..Len(runs)
    /\ seen \in Seq(States)
    /\ ending \in EndingNames \cup {"none"}
    /\ waited \in Nat
    /\ alive \in BOOLEAN
    /\ exit \in {None} \cup 0..6
    /\ samples \in Seq(Seq(States)) /\ Len(samples) = Len(runs)
    /\ reboots \in Seq([run : 1..Len(runs), at : Nat])
    /\ recovery \subseteq States
    /\ started \in Nat /\ faults \in Nat /\ crashes \in Nat /\ losses \in Nat

\* The reboots that no operator scheduled.
SoftReboots == {k \in DOMAIN reboots : runs[reboots[k].run].mode = "soft"}

RebootedThisRun == run > 0 /\ \E k \in DOMAIN reboots : reboots[k].run = run

\* A run that loaded REBOOT_ENABLED off never reboots the router, whatever its
\* mode, its probes, the faults and the crashes, and whatever the setting was
\* for the runs before it (hardFlow, softFlow).
MonitorOnly == RebootedThisRun => enabled

\* A soft run reboots the router only on its own evidence: every one of its
\* 1 + CHECK_CONFIRMATIONS probes graded the link down (confirmDown).
RebootConfirmed ==
    \A k \in SoftReboots :
       LET evidence == samples[reboots[k].run]
       IN  /\ Len(evidence) = 1 + CheckConfirmations
           /\ \A i \in DOMAIN evidence : IsDown(evidence[i])

\* ... and only when each of the REBOOT_MIN_STREAK - 1 runs recorded just
\* before it also probed, and first saw the link down: a hard run, a missing
\* run or a run that saw the internet never corroborates, and no store fault,
\* crash or rollover stands in for one while the clock is not set back
\* (outageSustained, RecentRuns).
RebootCorroborated ==
    \A k \in SoftReboots :
       LET r == reboots[k].run
       IN  /\ r >= RebootMinStreak
           /\ \A p \in r - (RebootMinStreak - 1) .. r - 1 :
                 samples[p] # <<>> /\ IsDown(samples[p][1])

\* The same with each earlier run's verdict taken after its re-probes, as the
\* comments on confirmDown and outageSustained have it.  It needs every store
\* write to succeed and every run to end.
RebootCorroboratedAfterRecheck ==
    \A k \in SoftReboots :
       LET r == reboots[k].run
       IN  \A p \in r - (RebootMinStreak - 1) .. r - 1 :
              p > 0 /\ samples[p] # <<>> /\ IsDown(samples[p][Len(samples[p])])

\* While nothing has failed, the earlier runs had confirmed the outage too.
HealthyCorroboration ==
    faults = 0 /\ crashes = 0 => RebootCorroboratedAfterRecheck

Recorded(k) ==
    LET row == runs[reboots[k].run]
    IN  row.action = "reboot" /\ row.rebootStartedAt # None

\* A reboot that is on record is never followed by a soft reboot within
\* REBOOT_COOLDOWN, as long as its row has not been archived: a failing query
\* is fail-closed, and a hard reboot counts too (GetLastRebootStartedAt).
CooldownKept ==
    \A k \in SoftReboots : \A j \in 1 .. k - 1 :
       Recorded(j) /\ reboots[j].run \in hot
          => reboots[k].at - reboots[j].at >= RebootCooldown

\* What deploy/yarddog.cron says: "a down verdict reboots at most once per
\* REBOOT_COOLDOWN".  (The nightly hard reboot is no down verdict.)
OncePerCooldown ==
    \A j, k \in SoftReboots :
       j < k => reboots[k].at - reboots[j].at >= RebootCooldown

\* The run whose every probe was down, and that has closed its row.
SawOutage(r) ==
    /\ runs[r].finishedAt # None /\ runs[r].mode = "soft"
    /\ \A i \in DOMAIN samples[r] : IsDown(samples[r][i])

\* The guards stop only what they are there to stop.  A run that confirmed an
\* outage and closed reached the reboot request, unless one of the runs they
\* look at did not see the outage or is gone, or a recorded reboot was recent.
OutageActedUpon ==
    FALSE \notin RebootEnabledValues =>
    \A r \in DOMAIN runs : SawOutage(r) =>
       \/ runs[r].action = "reboot"
       \/ /\ runs[r].outcome = "unsustained"
          /\ \E p \in r - (RebootMinStreak - 1) .. r - 1 :
                \/ p \notin hot \/ samples[p] = <<>>
                \/ \E i \in DOMAIN samples[p] : ~IsDown(samples[p][i])
       \/ /\ runs[r].outcome = "skipped"
          /\ \E k \in DOMAIN reboots :
                /\ Recorded(k) /\ reboots[k].run < r
                /\ runs[r].finishedAt - reboots[k].at < RebootCooldown

\* The router is rebooted only after the intent is durable: the row says so
\* and the "initiated" message is in the outbox, so a crash that follows
\* leaves a trace of it (rebootSequence).  It needs the store writes to work.
RebootOnRecord ==
    \A k \in DOMAIN reboots :
       /\ runs[reboots[k].run].action = "reboot"
       /\ [run |-> reboots[k].run, msg |-> "initiated"] \in outbox

\* Successive recorded runs that ended in the same announced outcome.
Episode(first, last) ==
    /\ runs[first].outcome \in {"degraded", "skipped"}
    /\ first = 1 \/ runs[first - 1].outcome # runs[first].outcome
    /\ \A r \in first .. last : runs[r].outcome = runs[first].outcome

Told(r) == \E m \in {"degraded", "skipping", "unknown"} :
              [run |-> r, msg |-> m] \in outbox

\* The operator is told exactly once per episode, by its first run, while the
\* rows are hot and the store works (finishDegraded, skipCooldown).
EpisodeToldOnce ==
    \A first, last \in DOMAIN runs :
       first <= last /\ Episode(first, last)
          => {r \in first .. last : Told(r)} = {first}

\* The recovery timestamps of a row tell a possible story: a reboot that was
\* performed, the router gone after it and back after that, the internet
\* restored at the end.  (Only the last flip of each kind is kept.)
RecoveryTimeline ==
    \A r \in DOMAIN runs : LET row == runs[r] IN
       /\ row.rebootStartedAt # None =>
             \E k \in DOMAIN reboots :
                reboots[k] = [run |-> r, at |-> row.rebootStartedAt]
       /\ row.routerDownAt # None =>
             row.rebootStartedAt # None /\ row.routerDownAt > row.rebootStartedAt
       /\ row.routerUpAt # None => row.routerDownAt # None
       /\ row.restoredAt # None =>
             /\ row.restoredAt > row.rebootStartedAt
             /\ row.restoredAt = row.finishedAt /\ row.outcome = "ok"
             /\ row.routerDownAt <= row.restoredAt
             /\ row.routerUpAt <= row.restoredAt

\* The exit code tells cron what happened even when the store lost part of
\* the record: 0 and 6 without a reboot mean no link outage to act on, 0 after
\* one that a later poll saw the internet, 4 that every poll for the whole
\* RECOVERY_TIMEOUT was down, 3 that no reboot is on record, 5 that the router
\* was left alone, 1 that nothing was recorded or announced.
ExitCodeTruthful ==
    pc = "idle" =>
       /\ exit = 0 => \/ RebootedThisRun /\ recovery \ {"down"} # {}
                      \/ ~enabled /\ ~RebootedThisRun
                      \/ mode = "soft" /\ ~IsDown(Result) /\ ~RebootedThisRun
       /\ exit = 1 => run = 0
       /\ exit = 3 => /\ mode = "hard" \/ IsDown(Result)
                      /\ runs[run].rebootStartedAt = None
       /\ exit = 4 => /\ RebootedThisRun /\ recovery = {"down"}
                      /\ waited >= RecoveryTimeout
       /\ exit \in {5, 6} => /\ ~RebootedThisRun /\ mode = "soft"
                             /\ \E i \in DOMAIN seen : seen[i] # "up"

\* A closed row is final: neither a later run, nor its rollover, nor a crash
\* and restart touches it again (UpdateRun).
ClosedRowsAreFinal ==
    [][\A r \in DOMAIN runs :
          runs[r].finishedAt # None => r \in DOMAIN runs' /\ runs'[r] = runs[r]]_runs

\* What the comment on handleGatewayTransition says: the two timestamps are
\* written only the first time the gateway's reachability flips.
GatewayFlipWrittenOnce ==
    [][\A r \in DOMAIN runs :
          runs[r].routerDownAt # None
             => runs'[r].routerDownAt = runs[r].routerDownAt]_runs

\* A run always ends, and releases the flock for the next one.
RunEnds == (pc # "idle") ~> (pc = "idle")

============================================================================
