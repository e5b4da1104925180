----------------------------- MODULE Collector -----------------------------
(***************************************************************************)
(* The collector as cron runs it (cmd/yarddog/main.go) over the two tiers  *)
(* of infrastructure/store.go: several overlapping processes, the flock,   *)
(* the maintenance before and after the watchdog's pass, the rows a pass   *)
(* leaves, its two telemetry workers, and the daemon's readers, which take *)
(* no lock at all.  What a pass decides is module Watchdog; here it is one *)
(* step.                                                                   *)
(*                                                                         *)
(* Every statement or transaction is a step, every store call may fail,    *)
(* and a process may die between any two steps, which frees its flock and  *)
(* loses nothing that was committed.  Run ids grow with insertion (module  *)
(* UuidV7); the clock counts days and may be set to any of them.           *)
(***************************************************************************)
EXTENDS Integers, FiniteSets

CONSTANTS MaxProcs,        \* bound on the collector processes alive at once
          Readers,         \* the daemon's requests
          None,            \* no process, no run, no stamp
          MaxRuns,         \* bound on runs rows ever inserted
          Times,           \* what the clock may say, in days
          NumChecks,       \* bound on checks rows of a run
          HotWindow, Retention, VacuumInterval

ASSUME CollectorAssumption ==
    /\ {MaxProcs, MaxRuns, NumChecks} \subseteq Nat /\ Times \subseteq Nat
    /\ HotWindow \in Nat \ {0}   \* clampHotWindowDays
    /\ Retention \in Nat /\ VacuumInterval \in Nat
    /\ None \notin Int

Procs  == 1..MaxProcs
RunIds == 1..MaxRuns
Kinds  == {"runs", "checks", "metrics", "host", "pings"}
Row(r, n) == [run |-> r, n |-> n]
Rows == [run : RunIds, n : 0..NumChecks + 1]
Workers == {"metrics", "pings"}
AllDone == [w \in Workers |-> "done"]

VARIABLES
    clock,         \* what the wall clock says, in days
    hot, arch,     \* the two tiers: the rows of every kind
    started,       \* started_at by run id
    minted,        \* the highest run id handed out
    lastVacuum,    \* meta[last_vacuum_at], or None
    lock,          \* the process that holds the flock, or None
    stage,         \* what each process does next
    at,            \* the last clock reading a process took
    run,           \* the id of a process's runs row, or None
    worker,        \* its telemetry workers: "done", "waiting" or "sent"
    vacuumed,      \* history: the processes whose VACUUM completed
    req            \* what each of the daemon's requests has read

store  == <<hot, arch, started, minted>>
proc   == <<lock, stage, at, run, worker, vacuumed>>
vars   == <<clock, store, lastVacuum, proc, req>>

Idle == [stage |-> "idle"]
Stages == {"idle", "open", "rollover", "prune", "begin", "insert",
           "checks", "telemetry", "decide", "vacuum", "stamp"}

TypeOK ==
    /\ clock \in Times /\ minted \in 0..MaxRuns
    /\ hot \in [Kinds -> SUBSET Rows] /\ arch \in [Kinds -> SUBSET Rows]
    /\ started \in [RunIds -> Times \cup {None}]
    /\ lastVacuum \in Times \cup {None} /\ vacuumed \subseteq Procs
    /\ lock \in Procs \cup {None}
    /\ stage \in [Procs -> Stages]
    /\ at \in [Procs -> Times \cup {None}]
    /\ run \in [Procs -> RunIds \cup {None}]
    /\ worker \in [Procs -> [Workers -> {"done", "waiting", "sent"}]]

Init ==
    /\ clock \in Times
    /\ hot = [k \in Kinds |-> {}] /\ arch = [k \in Kinds |-> {}]
    /\ started = [r \in RunIds |-> None] /\ minted = 0
    /\ lastVacuum = None /\ vacuumed = {}
    /\ lock = None
    /\ stage = [p \in Procs |-> "idle"]
    /\ at = [p \in Procs |-> None]
    /\ run = [p \in Procs |-> None]
    /\ worker = [p \in Procs |-> AllDone]
    /\ req = [d \in Readers |-> Idle]

(***************************************************************************)
(* The store's statements.                                                 *)
(***************************************************************************)
RunsOf(table) == {x.run : x \in table}
AddRows(kind, new) == hot' = [hot EXCEPT ![kind] = @ \cup new]

\* The subquery every statement of a rollover or a prune repeats: it is
\* evaluated on the tables as the statements before it left them.
Aged(tables, cutoff) ==
    {x.run : x \in {y \in tables["runs"] : started[y.run] < cutoff}}

\* The INSERT ... SELECT statements, children first and runs last.
CopyOut_NoPings(from, to, cutoff) ==
    [k \in Kinds |-> to[k] \cup {x \in from[k] : k # "pings" /\ x.run \in Aged(from, cutoff)}]
CopyOut(from, to, cutoff) ==
    [k \in Kinds |-> to[k] \cup {x \in from[k] : x.run \in Aged(from, cutoff)}]

DeleteChildren(tables, cutoff) ==
    [k \in Kinds |-> {x \in tables[k] :
                         k = "runs" \/ x.run \notin Aged(tables, cutoff)}]
DeleteRuns(tables, cutoff) ==
    [tables EXCEPT !["runs"] = {x \in @ : started[x.run] >= cutoff}]

\* The DELETE statements: runs goes last, the others look it up.
DeleteAged_RunsFirst(tables, cutoff) == DeleteChildren(DeleteRuns(tables, cutoff), cutoff)
DeleteAged(tables, cutoff) == DeleteRuns(DeleteChildren(tables, cutoff), cutoff)

\* A row that is in the archive already violates its primary key there.
KeyConflict(cutoff) ==
    \E k \in Kinds : \E x \in hot[k] : x \in arch[k] /\ x.run \in Aged(hot, cutoff)

(***************************************************************************)
(* A process.                                                              *)
(***************************************************************************)
Becomes(p, s) == stage' = [stage EXCEPT ![p] = s]
Goes(p, from, to) == stage[p] = from /\ Becomes(p, to)
Locals == <<at, run, worker, vacuumed>>

Forget(p) ==
    /\ run' = [run EXCEPT ![p] = None]
    /\ at' = [at EXCEPT ![p] = None]
    /\ worker' = [worker EXCEPT ![p] = AllDone]
    /\ vacuumed' = vacuumed \ {p}

\* The end of a process, however it comes about: the kernel drops its flock.
Dies(p) ==
    /\ Becomes(p, "idle") /\ Forget(p)
    /\ lock' = IF lock = p THEN None ELSE lock

\* cron starts a process: acquireLock is non-blocking and comes before
\* anything is opened, so a tick that overlaps another ends without a trace.
\* The processes alive are numbered from 1.
AcquireLock_Advisory(p) == Goes(p, "idle", "open") /\ lock' = p
AcquireLock(p) ==
    \/ lock = None /\ Goes(p, "idle", "open") /\ lock' = p
    \/ lock # None /\ stage[p] = "idle" /\ UNCHANGED <<stage, lock>>

Start(p) ==
    /\ \A q \in 1..p - 1 : stage[q] # "idle"
    /\ AcquireLock(p)
    /\ UNCHANGED <<clock, store, lastVacuum, Locals, req>>

\* NewStore and wire: either may fail, which ends the process.
OpenStore(p) ==
    /\ \/ /\ Goes(p, "open", "rollover")
          /\ at' = [at EXCEPT ![p] = clock]
          /\ UNCHANGED <<lock, run, worker, vacuumed>>
       \/ stage[p] = "open" /\ Dies(p)
    /\ UNCHANGED <<clock, store, lastVacuum, req>>

RolloverToArchive(p) ==
    /\ Goes(p, "rollover", "prune")
    /\ LET cutoff == at[p] - HotWindow
       IN  \/ /\ ~KeyConflict(cutoff)
              /\ arch' = CopyOut(hot, arch, cutoff)
              /\ hot' = DeleteAged(hot, cutoff)
           \/ UNCHANGED <<hot, arch>>
    /\ UNCHANGED <<clock, started, minted, lastVacuum, lock, Locals, req>>

PruneArchive(p) ==
    /\ Goes(p, "prune", "begin") /\ at' = [at EXCEPT ![p] = None]
    /\ \/ Retention > 0 /\ arch' = DeleteAged(arch, at[p] - Retention)
       \/ UNCHANGED arch
    /\ UNCHANGED <<clock, hot, started, minted, lastVacuum, lock, run, worker, vacuumed, req>>

\* run takes started_at before it probes anything.
Begin(p) ==
    /\ Goes(p, "begin", "insert")
    /\ at' = [at EXCEPT ![p] = clock]
    /\ UNCHANGED <<clock, store, lastVacuum, lock, run, worker, vacuumed, req>>

NextId_Stuck == minted
NextId == minted + 1

\* InsertRun; without a row the pass is over.  A hard run takes no samples.
InsertRun(p) ==
    /\ \/ /\ minted < MaxRuns /\ minted' = NextId
          /\ AddRows("runs", {Row(NextId, 0)})
          /\ started' = [r \in RunIds |-> IF r = NextId THEN at[p] ELSE started[r]]
          /\ run' = [run EXCEPT ![p] = NextId]
          /\ Goes(p, "insert", "checks") \/ Goes(p, "insert", "decide")
       \/ Goes(p, "insert", "vacuum") /\ UNCHANGED <<store, run>>
    /\ at' = [at EXCEPT ![p] = None]
    /\ UNCHANGED <<clock, arch, lastVacuum, lock, worker, vacuumed, req>>

\* persistCheck, one row a call; the confirming and recovering probes of a
\* decision leave theirs the same way.
InsertCheck(p) ==
    /\ stage[p] \in {"checks", "decide"}
    /\ \E n \in 1..NumChecks :
          /\ Row(run[p], n) \notin hot["checks"]
          /\ AddRows("checks", {Row(run[p], n)})
    /\ UNCHANGED <<clock, arch, started, minted, lastVacuum, proc, req>>

\* collectTelemetry: a worker that is switched off is done at once.
CollectTelemetry(p) ==
    /\ Goes(p, "checks", "telemetry")
    /\ worker' \in {[worker EXCEPT ![p] = ws] : ws \in [Workers -> {"done", "waiting"}]}
    /\ UNCHANGED <<clock, store, lastVacuum, lock, at, run, vacuumed, req>>

\* Collect, in a goroutine of its own, puts its snapshot in the channel.  One
\* that hangs never does, and neither does one that panics.
CollectReturns(p, w) ==
    /\ worker[p][w] = "waiting"
    /\ worker' = [worker EXCEPT ![p][w] = "sent"]
    /\ UNCHANGED <<clock, store, lastVacuum, lock, stage, at, run, vacuumed, req>>

\* SaveMetrics: the host row and the samples (none if every collector is off)
\* in one transaction.  SavePings: one round in one transaction.
SaveMetrics_Piecemeal(r) ==
    \E some \in SUBSET {"host", "metrics"} :
        hot' = [k \in Kinds |-> hot[k] \cup (IF k \in some THEN {Row(r, 1)} ELSE {})]
SaveMetrics(r) ==
    \E samples \in SUBSET {Row(r, 1)} :
        hot' = [hot EXCEPT !["host"] = @ \cup {Row(r, 1)}, !["metrics"] = @ \cup samples]
SavePings(r) == AddRows("pings", {Row(r, 1)})

Finished(p, w) == worker' = [worker EXCEPT ![p][w] = "done"]

\* The snapshot arrived: it is saved or the save fails, out of time or not.
TakeSnapshot(p, w) ==
    /\ worker[p][w] = "sent" /\ Finished(p, w)
    /\ \/ w = "metrics" /\ SaveMetrics(run[p])
       \/ w = "pings" /\ SavePings(run[p])
       \/ UNCHANGED hot
    /\ UNCHANGED <<clock, arch, started, minted, lastVacuum, lock, stage, at, run, vacuumed, req>>

\* The worker's own deadline, whatever its collector is doing.
Expires_OnceSent(p, w) == worker[p][w] = "sent"
Expires(p, w) == worker[p][w] # "done"
SnapshotTimeout(p, w) ==
    /\ Expires(p, w) /\ Finished(p, w)
    /\ UNCHANGED <<clock, store, lastVacuum, lock, stage, at, run, vacuumed, req>>

TelemetryDone(p) ==
    /\ worker[p] = AllDone /\ Goes(p, "telemetry", "decide")
    /\ UNCHANGED <<clock, store, lastVacuum, lock, Locals, req>>

\* Everything from the verdict to the exit code: module Watchdog.
Decide(p) ==
    /\ Goes(p, "decide", "vacuum")
    /\ UNCHANGED <<clock, store, lastVacuum, lock, Locals, req>>

\* MaybeVacuum: the VACUUM and its stamp are two statements, and the process
\* ends whether they work or not.
VacuumDue == lastVacuum # None => clock - lastVacuum >= VacuumInterval
Vacuum_StampsFirst(p) ==
    /\ lastVacuum' = clock
    /\ vacuumed' \in {vacuumed, vacuumed \cup {p}}
Vacuum(p) ==
    /\ vacuumed' = vacuumed \cup {p}
    /\ UNCHANGED lastVacuum
MaybeVacuum(p) ==
    /\ \/ /\ VacuumDue /\ Vacuum(p)
          /\ Goes(p, "vacuum", "stamp")
          /\ at' = [at EXCEPT ![p] = clock]
          /\ UNCHANGED <<lock, run, worker>>
       \/ stage[p] = "vacuum" /\ Dies(p) /\ UNCHANGED lastVacuum
    /\ UNCHANGED <<clock, store, req>>
StampVacuum(p) ==
    /\ stage[p] = "stamp" /\ Dies(p)
    /\ lastVacuum' \in {lastVacuum, at[p]}
    /\ UNCHANGED <<clock, store, req>>

Crash(p) ==
    /\ stage[p] # "idle" /\ Dies(p)
    /\ UNCHANGED <<clock, store, lastVacuum, req>>

ClockMoves ==
    /\ clock' \in Times \ {clock}
    /\ UNCHANGED <<store, lastVacuum, proc, req>>

(***************************************************************************)
(* The daemon's requests that take two queries.                            *)
(***************************************************************************)
\* RunByID and ListChecksByRun: UNION ALL over the tiers, so a row in both
\* would be reported twice.
Found(id) == id \in RunsOf(hot["runs"]) \cup RunsOf(arch["runs"])
ChecksIn(tables, id) == {x \in tables["checks"] : x.run = id}
ListChecksByRun_Hot(id) == [rows |-> ChecksIn(hot, id), twice |-> {}]
ListChecksByRun(id) ==
    [rows |-> ChecksIn(hot, id) \cup ChecksIn(arch, id),
     twice |-> ChecksIn(hot, id) \cap ChecksIn(arch, id)]

\* The highest run id of a hot table, or None.
Newest(kind) ==
    IF hot[kind] = {} THEN None
    ELSE CHOOSE r \in RunsOf(hot[kind]) : \A s \in RunsOf(hot[kind]) : s <= r

Asks(d, question) ==
    /\ req[d] = Idle /\ req' = [req EXCEPT ![d] = question]
    /\ UNCHANGED <<clock, store, lastVacuum, proc>>
Answers(d) ==
    /\ req' = [req EXCEPT ![d] = Idle]
    /\ UNCHANGED <<clock, store, lastVacuum, proc>>

\* QueryService.Run; an id in neither tier is a 404 at once.  `seen` is
\* history: the checks that were there when the run row was read.
AskRun(d) == \E id \in RunIds :
    /\ Found(id)
    /\ Asks(d, [stage |-> "detail", id |-> id, seen |-> ListChecksByRun(id).rows])
AnswerRun(d) == req[d].stage = "detail" /\ Answers(d)
Detail(d) == ListChecksByRun(req[d].id)

\* handleLatestMetrics: LatestMetrics, which is a 404 when there are none,
\* and then LatestHost.
AskLatest(d) ==
    /\ Newest("metrics") # None
    /\ Asks(d, [stage |-> "latest", id |-> Newest("metrics")])
AnswerLatest(d) == req[d].stage = "latest" /\ Answers(d)
LatestHost == Newest("host")

----------------------------------------------------------------------------
Step(p) ==
    \/ OpenStore(p) \/ RolloverToArchive(p) \/ PruneArchive(p) \/ Begin(p)
    \/ InsertRun(p) \/ CollectTelemetry(p) \/ TelemetryDone(p) \/ Decide(p)
    \/ MaybeVacuum(p) \/ StampVacuum(p)
    \/ \E w \in Workers : SnapshotTimeout(p, w)

Next ==
    \/ \E p \in Procs :
          \/ Start(p) \/ Step(p) \/ InsertCheck(p) \/ Crash(p)
          \/ \E w \in Workers : CollectReturns(p, w) \/ TakeSnapshot(p, w)
    \/ \E d \in Readers : \/ AskRun(d) \/ AnswerRun(d)
                          \/ AskLatest(d) \/ AnswerLatest(d)
    \/ ClockMoves

Spec == Init /\ [][Next]_vars

\* A process that can take a step of its own takes one in the end, and Go's
\* timers fire.  Nothing is assumed of a collector: a sensor read may hang for
\* good, and a snapshot that arrived may lose the select to its deadline.
Fairness == \A p \in Procs : WF_vars(Step(p))
FairSpec == Spec /\ Fairness

(***************************************************************************)
(* Properties.                                                             *)
(***************************************************************************)
\* A run is in one tier and so are its rows: no rollover, prune, crash or
\* overlapping tick leaves a run twice, a child without its run, or a child in
\* the other tier (the run-boundary invariant of RolloverToArchive and
\* PruneArchive, which ListChecksByRun and RunByID rest on).
RunBoundary ==
    /\ RunsOf(hot["runs"]) \cap RunsOf(arch["runs"]) = {}
    /\ \A k \in Kinds : /\ RunsOf(hot[k]) \subseteq RunsOf(hot["runs"])
                        /\ RunsOf(arch[k]) \subseteq RunsOf(arch["runs"])

\* The row a live process still has to update is in the hot table that
\* UpdateRun writes, whatever the clock did and whoever else cron started.
OpenRunIsHot ==
    \A p \in Procs : stage[p] \in {"checks", "telemetry", "decide"} =>
                        run[p] \in RunsOf(hot["runs"])

\* A run's detail page holds every check that was there when its run row was
\* read and none twice, although the two queries share no transaction with
\* each other or with a rollover; a run pruned in between may lose them all.
DetailWhole ==
    [][\A d \in Readers : AnswerRun(d) =>
          /\ Detail(d).twice = {}
          /\ req[d].seen \subseteq Detail(d).rows \/ ~Found(req[d].id)]_req

\* The host block of the latest-metrics answer is never an older run's than
\* its metrics, and never missing, while that run is hot: handleLatestMetrics
\* takes two queries, between which snapshots are saved and runs rolled over,
\* and a rollover goes by started_at where "latest" goes by id.
HostOfItsRun ==
    [][\A d \in Readers : AnswerLatest(d) /\ req[d].id \in RunsOf(hot["runs"]) =>
          LatestHost # None /\ LatestHost >= req[d].id]_req

\* last_vacuum_at never claims a VACUUM that did not complete, so a failed one
\* is tried again by the next tick and not a week later (MaybeVacuum).
VacuumStampHonest ==
    [][\E p \in vacuumed : lastVacuum' = at[p]]_lastVacuum

\* The flock is always free again in the end, however the collectors hang or
\* panic: a pass that a wedged sensor could hold up would lock out every later
\* tick, and no reboot would be decided any more (collectMetrics and
\* collectPings: "a hung collector must never block the reboot decision").
FlockFreed == []<>(lock = None)

\* To whoever asks about a run, the tables are a TieredHistory: a run and its
\* rows move as one, nothing is lost before it is pruned, nothing comes back.
Tier(r) == CASE Row(r, 0) \in hot["runs"]  -> "hot"
             [] Row(r, 0) \in arch["runs"] -> "archived"
             [] r > minted                -> "absent"
             [] OTHER                     -> "pruned"
Children == [kind : Kinds \ {"runs"}, row : Rows]
RowsWith(tables, r) ==
    UNION {{[kind |-> k, row |-> x] : x \in {y \in tables[k] : y.run = r}} :
              k \in Kinds \ {"runs"}}
RowsBeside(r) ==
    CASE Tier(r) = "hot"      -> RowsWith(hot, r)
      [] Tier(r) = "archived" -> RowsWith(arch, r)
      [] OTHER                -> {}
History == INSTANCE TieredHistory
    WITH Runs <- RunIds, Rows <- Children,
         tier <- [r \in RunIds |-> Tier(r)], rows <- [r \in RunIds |-> RowsBeside(r)]
HistorySpec == History!Spec
============================================================================
