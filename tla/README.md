# yarddog: models, checks and proofs

yarddog watches a home uplink from a small host. A cron job starts the
*collector* (`cmd/yarddog`) every few minutes; it probes the internet, records
the run in SQLite and, when the link is gone, reboots the router and follows
the recovery. A resident *daemon* (`cmd/yarddogd`) serves the record over HTTP.
This directory holds TLA+ modules of that program, TLC configurations that
check them, and TLAPS proofs.

Run the tools in this directory: `tlc -config MCWatchdog_guards.cfg MCWatchdog`,
`tlapm WatchdogGuardProofs.tla`.

## Inventory

| component | state it keeps | operations | what makes it correct | module |
|---|---|---|---|---|
| watchdog pass, `services/orchestrator.go` | the row of this run in `runs`; in memory the verdicts, the gateway's last reachability | `Execute`: soft and hard flow, re-probing, streak and cooldown guards, reboot sequence, recovery loop, ten endings, two telemetry workers | reboots only on confirmed and corroborated evidence, never when disabled, not twice in the cooldown; what it did is on record; the exit code is true; it ends | `Watchdog`, `Collector` (telemetry), `CronSlot` |
| verdict, `domain/check.go` | none | `Verdict` | an empty group never counts as failed; only a dead raw link is "down" | `Verdict` |
| checker, `infrastructure/check.go` | none | `Check`, `Gateway` | one result per target, whatever the order of the answers | partly, `Verdict` |
| outbox, `services/outbox.go` | `tbot_queue` | `Notify`, `Flush`, `attemptSend` | at-least-once delivery, no message lost, none blocking the others | `Outbox` |
| Telegram client, `gateway/telegram` | none | `Send` | a bounded call; the token never leaves it | partly, `Outbox` |
| row ids, `infrastructure/uuid.go` | the process-wide watermark (ms, counter) | `newUUIDv7`, seeding, `uuidv7Floor` | ids grow with insertion through clock steps, restarts and two writers | `UuidV7` |
| tiers of the store, `infrastructure/store.go` | `runs`, `checks`, `metrics`, `pings`, `host` and their archive twins, `last_vacuum_at` | the inserts, rollover, prune, vacuum, the unions over both tiers | a run and its children move together; no run is in two tiers; readers without a transaction see whole answers | `Collector`, `TieredHistory` |
| opening of the store | the database file, its -wal, the files set aside | `OpenStore`: open, migrate, `needsQuarantine`, `quarantineFile`, second open, stamp | history survives; a corrupt file is set aside, never destroyed; a database never meets another's -wal | `OpenStore` |
| collector process, `cmd/yarddog` | the flock | maintenance, flush, pass, vacuum | one process at a time; housekeeping never stops the pass; the flock is always freed | `Collector` |
| router driver, `gateway/router/nokia.go` | the session cookie | login, CSRF token, reboot, logout | a reboot is reported only when confirmed; a check leaves no session behind | `Watchdog`, `HealthCheck` |
| credential probe, `gateway/router/credential_probe.go` | the login in flight | `CheckUP` | at most one session; every waiter answered | `HealthCheck` |
| inspector, `services/health.go`, `infrastructure/health.go` | none | one bounded sweep over the probes | answers by its deadline; a stale database is reported | `HealthCheck`, `OpenStore` |
| query service, `services/query.go` | none | clamps, windows, outage episodes, a run with its checks | bounded queries, maximal episodes, whole answers | partly, `Collector` |
| HTTP API, `gateway/httpapi` | none | handlers, auth, mapping, UI | shapes of answers; parts that belong together | partly, `Collector`, `HealthCheck` |
| daemon, `cmd/yarddogd` | its pooled read handles | start, serve, graceful stop | answers while the collector writes; gets over a quarantine | partly, `OpenStore`, `HealthCheck` |
| configuration, `infrastructure/config.go` | none | parsing, clamps | timings that fit one another | partly, `CronSlot` |
| telemetry collectors, `infrastructure/metrics*.go`, `ping*.go` | none | one bounded snapshot each | never delay or change the decision | as their caller sees them, `Collector` |

How they interact: cron starts collectors, which exclude each other by a flock
and share nothing else but the database. A run calls the store, the checker,
the router and the notifier one after the other (only the two telemetry
snapshots run concurrently). The notifier writes its queue to the same
database. The daemon reads that database from another process, without the
flock; it may hold a file that the collector has renamed away. Concurrent health
requests share one login on the router. Every call can fail; store and notifier
failures are logged and the pass goes on. The process can be killed at any time,
the host can lose power, and its wall clock can be set back (no RTC), which
matters to everything that compares times or orders by them.

The hard behaviours are therefore long histories of runs rather than threads:
a row left by a crash three runs ago, a write that failed, a clock that went
back, an answer that was lost; and, beside them, two processes on one file and
a handful of goroutines around one login. `PROJECT.json` lists them line by
line (`hazards`), with the properties that cover each.

## Modules

| module | models | interface to the code |
|---|---|---|
| `Verdict` | `domain/check.go` | a round of probes is a function from targets to BOOLEAN |
| `Watchdog` | `services/orchestrator.go`, with the store's guard queries, the rollover before each run and the router's outcomes | below |
| `AtLeastOnce` | what the outbox promises (abstract) | accepted, delivered, settled messages |
| `Outbox` | `services/outbox.go`, the queue table, `Send` | `queue` is `tbot_queue` by id; `drain` is the slice `Flush` ranges over |
| `UuidV7` | `infrastructure/uuid.go`, `seedUUIDv7WatermarkFromDB`, the transactions that mint | `lastMs`, `counter` are `uuidv7LastMs`, `uuidv7Counter` |
| `TieredHistory` | what the two tiers promise a reader (abstract) | each run's tier and the rows found beside it |
| `Collector` | `cmd/yarddog/main.go` around the pass, the rollover, prune and vacuum of `store.go`, `collectTelemetry`, the daemon's reads that take two queries | below |
| `OpenStore` | `OpenStore` and `quarantineFile` of `store.go`, the daemon's start, pool and freshness probe | below |
| `HealthCheck` | `services/health.go`, `credential_probe.go`, `CheckCredentials` of `nokia.go` | below |
| `CronSlot` | the clamps of `config.go` through `confirmDown`, in seconds | `elapsed` is the time since cron started the run |
| `MCWatchdog`, `MCOutbox`, `MCUuidV7`, `MCCollector`, `MCOpenStore`, `MCHealthCheck`, `MCCronSlot` | instances for TLC | |
| `WatchdogProofs`, `WatchdogGuardProofs`, `OutboxProofs`, `UuidV7Proofs`, `CollectorProofs`, `CollectorHistoryProofs`, `OpenStoreProofs`, `HealthCheckProofs` | theorems | |

**Watchdog.** `pc` names the call the run makes next and each action is one
call: `Probe`, `InsertRun`, `Confirm` and `Clear` (`confirmDown`), `Decide`,
`OutageSustained`, `Cooldown`, `MarkAction`, `Initiate`, `Reboot`,
`StampReboot` (`rebootSequence`), `PollGateway`, `PollInternet`
(`recoveryLoop`), `ShouldAnnounce`, `Say`, `Settle` (the endings). `StartRun` is
cron starting the collector: the clock moves, aged rows are rolled over, the
settings are loaded. `Crash` can fall between any two calls. The ten endings
differ only in the entries of `Endings`: message, whether `shouldAnnounce` is
asked, action, outcome and exit code. A row of `runs` has the columns of the
table; the error text is left out, and so are the `checks` rows, which no
decision reads. The flushes inside a run are left to `Outbox`: they change
nothing the pass looks at. `samples`, `reboots` and `recovery` are history: what
the probes said and what the router really did, against which the record is
compared. Time is in ticks of RECOVERY_INTERVAL. The waits before the re-probes
of `confirmDown` (`CheckConfirmDelay`) and between the polls of the recovery loop
and the gaps between runs move it; the time the calls themselves take is left
out, so a run decides `CheckConfirmations * CheckConfirmDelay` after its row
started and not a few seconds later. `waited` is the monotonic time since `Reboot` returned, as
`now.Sub` measures it.

**Outbox.** `Notify` enqueues one row and attempts it; `Flush` lists the unsent
rows by `created_at`, ties in any order, and attempts each. `Send` has the
outcomes the operator can tell apart: delivered, delivered but the answer lost,
not delivered. A message the API always rejects is `refused`. The mapping to
`AtLeastOnce`: accepted is what was enqueued, settled is what has `sent_at`.

**UuidV7.** An id is its (ms, counter) prefix. The writers of
different tables (the two telemetry goroutines) share the store's one
connection, so one transaction mints at a time, in any order. An id waits in `pending` from its minting to its commit. A process
that ends loses the watermark; the next one seeds it from the rows on disk.

**Collector.** `stage` says what each of several processes does next and each
statement, transaction or telemetry event is a step: `Start` (`acquireLock`),
`OpenStore`, `RolloverToArchive`, `PruneArchive`, `Begin`, `InsertRun`,
`InsertCheck`, `CollectTelemetry`, `CollectReturns`, `TakeSnapshot`,
`SnapshotTimeout`, `TelemetryDone`, `Decide`, `MaybeVacuum`, `StampVacuum`; and
`Crash` anywhere. `hot` and `arch` hold the rows of the five kinds of tables; a
row is the run it belongs to and a number that tells its siblings apart. A
rollover is one transaction, made of the `INSERT ... SELECT` and `DELETE`
statements in the code's order, each with its subquery on `runs` as the
statements before left it. What the pass decides is one step (`Decide`): it is
module `Watchdog`, whose rollover is the same one seen through `runs` alone. The
daemon's requests take no lock: `AskRun` and `AnswerRun` are the two queries of
`QueryService.Run`, `AskLatest` and `AnswerLatest` those of
`handleLatestMetrics`. To `TieredHistory` a run is absent, hot, archived or
pruned, and its rows are those found in its tier.

**OpenStore.** A database is two files, `main` and `wal`, and a file is which
database it belongs to and the few facts an open looks at (legacy ids, all
tables, rows, the version stamp, malformed). Each step of `OpenStore` is an
action, each rename of `quarantineFile` too (`moved` counts them). `conn` are
the databases an actor has connections to: a connection outlives the renaming of
its file, so the daemon may have one to a database that is gone from the path,
and its pool may mix two. `clock` holds the time that has really passed and what
the wall clock shows; `SetClock` sets the latter back, and `back` adds up by how
much. The suffix of a quarantine, `started_at` and the freshness probe go by the
wall clock. `left` is history: when a main file was renamed away. `AtPath` says whether a connection's file is still
the one at the path. SQLite is modelled by what the code relies on and is marked
external: closing the last connection folds the -wal in and removes it, a -wal
is found by name, a malformed schema is noticed at the open.

**HealthCheck.** A request sweeps the probes in order (`ProbeReturns`), comes to
the router's, and joins the call in flight or leads a new one. What the probe
does under its mutex is one step; the three statements of the leader's deferred
function are three, and requests arrive between them. The cookie jar is shared
by whoever logs in. `earned` and `credit` are history: which sessions the router
granted, and to which call.

## Runs and bounds

| run | instance | shows |
|---|---|---|
| `guards` | 4 runs, both modes, a crash, working store | corroboration holds when nothing fails; a confirmed outage is acted upon unless a guard has its reason; every reboot is on record before it happens; an episode is told once; recovery timestamps are consistent |
| `faults` | 3 runs, both modes, reboots on or off for each run, a store fault, a crash, a lost answer | no reboot while disabled, without confirmation or without corroboration; exit codes stay true |
| `clock` | 3 soft runs, gaps of -3, 1 or 3 ticks, a hot window of 2, a crash, fairness | the cooldown; closed rows are final; every run ends |
| `outbox` | 2 messages, a fault, a crash, a lost answer, 2 flips of the link, fairness | refinement of `AtLeastOnce`; duplicates accounted for; no head-of-line blocking |
| `uuid` | 2 tables, 2 processes, 4 ids, 3 instants, a counter of 2 values | order of ids; the counter's bits; `uuidv7Floor` is a lower bound |
| `collector` | 2 processes, 2 runs of one check each, 1 reader, a clock of two readings set at will, windows of a day, fairness | refinement of `TieredHistory`; the run boundary; an open run stays hot; two-query reads; the vacuum stamp; the flock is freed |
| `openstore` | 4 databases, 5 clock readings, 2 faults in the first ticks (each may set the wall clock back by one), 2 daemon connections, fairness | no foreign -wal; no row destroyed while the clock is not set back; a stale daemon is noticed within `StaleAfter` and what the clock was set back; in the end the daemon serves |
| `health` | 3 requests again and again, one probe before the router's, fairness | one login at a time; an ok is earned; every sweep ends and the slot is free again |
| `recheck`, `lost_reply`, `flips`, `cron_slot` | violated | see Findings |

Why the bounds are enough: the guards look one run back (streak of 2) and at
one earlier reboot, so three runs hold a reboot, the run that corroborates it
and one before; the fourth lets an episode end and begin again. One fault and
one crash per behaviour reach every place they can fall, and the proofs remove
these bounds where it matters most. A recovery of 2 ticks (3 in `flips`) has a
poll before, at and after the deadline. One target of each kind gives all three
verdicts. A counter of two values runs out at once; three instants let the
clock go back and forth within four ids. Bounds are constants in the guards
(`MaxRuns`, `MaxFaults`, `MaxCrashes`, `MaxReplyLosses`, `MaxMessages`,
`MaxLosses`, `MaxFlips`, `AttemptsCap`, `MaxMints`, `MaxOpens`, `MaxProcs`,
`NumChecks`, `MaxDbs`, `MaxClock`, `CalmAt`, `MaxConns`, `NumCalls`);
`Finished` stutters when the bound on runs or processes is reached, so that
TLC's deadlock check stays on. Of the clock's jumps, those back are bounded by
`Gaps`, `ClockSteps` and the faults.

In `collector`, one process can hold the flock while the other tries it, or
wedge while the other ticks by; two runs are a hot one and an archived one, or
two whose ids and times disagree; two clock readings a hot window and a
retention apart put every cutoff on either side of every row. Crashes and failed
statements are not bounded there at all. In `openstore`, one fault makes a
quarantine and the second strikes it; the quarantine of a legacy database needs
none. `CalmAt` ends the faults, so that what must eventually happen can be asked
of the rest; the ticks after it are enough for a death, a retry and a stale
probe. In `health`, a third request arrives while one leads and one waits. Calls
are as many as requests, since a request holds one; a call nobody holds is
reused.

Fairness: `Watchdog!FairSpec` has weak fairness of the steps of a run, because
every call returns (HTTP clients, dials and SQLite have deadlines, the waits
are timers); nothing is assumed of cron. `Outbox!FairSpec` has weak fairness of
an attempt in progress and of `Flush`, because each run cron starts flushes
before anything else (`cmd/yarddog/main.go:122`); so its liveness is about a
host on which cron keeps starting runs. `Collector!FairSpec` has weak fairness
of each process's own steps, among them the telemetry workers' timers, and none
of the sensors: a snapshot may never come, and one that came may lose the
`select` to its deadline. `OpenStore!FairSpec` has weak fairness of the
collector's and the daemon's steps: cron and systemd (`Restart=on-failure`) keep
starting them and `busy_timeout` bounds a statement. `HealthCheck!FairSpec` has
weak fairness of the deadlines, of the goroutines' steps, of a login (the HTTP
client's timeout, which `LoadDaemonConfig` requires) and of a probe whose context
is done; not of a probe before its deadline.

## Findings

- `recheck`: `README.md:16` wants a down verdict to survive re-probing and be
  corroborated by the previous run. What the streak reads is `internet_ok`,
  written from the *first* probe; the correction after a cleared re-probe is a
  separate update whose failure is only logged, and a crash skips it. Then an
  outage that did not survive re-probing corroborates the next one. What does
  hold is `RebootCorroborated` (the earlier run's first probe was down) and,
  while nothing failed, `HealthyCorroboration`.
- `lost_reply`: `deploy/yarddog.cron:21` wants at most one reboot per
  REBOOT_COOLDOWN for a down verdict. A router that goes down before its answer
  arrives makes `Reboot` fail, `reboot_started_at` stays NULL, and the next down
  verdict reboots again. In the trace all runs are soft: the first sees the
  outage, the second confirms it and reboots, but its answer is lost, and the
  third reboots again two ticks later. What holds is `CooldownKept`, which
  counts reboots on record, and while nothing is lost the comment itself
  (`OncePerCooldownHealthy`).
- `flips`: the comment on `handleGatewayTransition` says the timestamps are
  written only the first time; each later flip overwrites them.
- `cron_slot`: `infrastructure/config.go:257-260` says the clamps keep the
  confirmation window inside one cron slot. Five confirmations sixty seconds
  apart, which they let through, are 300 seconds of waiting alone, and
  CHECK_TIMEOUT comes on top unclamped; the next tick finds the flock taken.

Smaller ones, without a run:

- `domain/watchdog.go:8-12` says `Execute` never returns ExitConfigError, and it
  does when `InsertRun` fails.
- `services/orchestrator.go:193` promises one message per episode, which a
  failed enqueue turns into none.
- `quarantineFile` (`store.go:1891-1893`) says that the worst a crash between
  its renames can do is leave the path untouched. After the first rename the main
  file stays without its -wal, so rows committed only there are at the path no
  more (they are set aside: `HistoryKept`). And `path` may be visited between two
  renames by the daemon, which takes no flock; if it then opens a -wal of its
  own, the next main file can find it (`torn` in `NoForeignWal`).
- A database with INTEGER ids and no rows is stamped as current and kept;
  `InsertRun` then fails on it at every tick ("datatype mismatch"), and once it
  is stamped it is never quarantined.
- `store.go:1879` says of a quarantine "renamed, never deleted". The new name
  ends in the second of the wall clock, and `os.Rename` overwrites: if the clock
  is set back and a second quarantine falls on the second of an earlier one,
  the file set aside first is gone. `HistoryKept` therefore speaks of a clock
  that has not been set back (and of starts that do not share a second, as
  cron's do not). It takes two quarantines for the same reason and a setting of
  the clock, one fault more than the run `openstore` has.
- The freshness probe (`health.go:45`) compares `started_at` with the wall clock,
  both of which a clock set back moves apart: a daemon on a file that was renamed
  away is then told fresh for `DAEMON_STALE_AFTER` *and* the time set back.
  `StaleIsNoticed` has that bound; without the second part TLC finds it violated.
- `RecentRuns` goes by id and the rollover by `started_at`. With a clock set back
  a newer run can be archived before an older one; the guard then takes the older
  one for the run just before. `RebootCorroborated` is checked and proved for
  clocks that are not set back, so no property covers that case.
- With DAEMON_MAX_CONNS above 1, the pool may mix connections to a database
  that was set aside and to the fresh one: the freshness probe vouches for the
  connection it got, and `StaleIsNoticed` is about each.
- `handlers.go:76-79` says the host row belongs to the run of the metrics: it
  may be a later run's (a snapshot saved between the two queries, or one whose
  collectors are all off). It is never an older one's (`HostOfItsRun`).
- `MaybeVacuum` runs "at most once every vacuumInterval" only if its stamp
  succeeds; when the stamp fails, every tick vacuums again.
- `credential_probe.go:31-32` says the next `CheckUP` starts fresh once a call
  returned; one that comes between the closing of `done` and the clearing of the
  slot gets the old answer. A leader whose client hangs up fails its waiters.
- In `nokia.go`, a login whose answer could not be read leaves its cookie in the
  jar; the next check then finds it and reports ok for credentials that were
  accepted earlier, not now. `OkIsEarned` therefore allows a session granted to
  a failed login before.
- `deploy/yarddog.cron:25-26` says the nightly hard run at :02 never collides
  with the soft tick at :00: a soft run that recovers a reboot for more than two
  minutes holds the flock, and the hard tick ends without a trace.

## What is proved

TLAPS proves these for all values of the constants; the only assumptions are
those the modules state (`SettingsAssumption`, `BoundsAssumption`,
`TargetsAssumption`, `OutboxAssumption`, `UuidAssumption`,
`CollectorAssumption`, `OpenStoreAssumption`, `HealthAssumption`): types, that
`None` is no value of another kind, and that there is at least one database and
a hot window of at least a day.

- **A run and its row** (`WatchdogProofs`): `Inv` = `TypeOK` and `Control`, where
  `Control` says what the process knows at each call (it has a row, of its own
  mode, and the probes recorded are those in memory). `TypeOK` alone is not
  inductive: `Settle` on a run without a row would be ill-typed. `Frame` says
  what any step may change of the record, and `Knows` what the decisions taken
  so far have established at each call; `GoesTo` and `ComesFrom` say which call
  leads to which. From them:
  - `MonitorOnly` and `RebootConfirmed`;
  - `ClosedRowsAreFinal`, from `RowOpen`: only a run that has not ended writes a
    row, its own, and that row is open;
  - `RebootOnRecord`, from `IntentFirst` (the row and the message precede the
    request) and `Barred` (an ending that overwrites the action column belongs
    to a run that did not reboot);
  - `RecoveryTimeline`, from `Blank` (before its reboot a run has nothing to tell,
    and the gateway was there) and `Underway` (from the stamp on, what the row
    tells lies between the stamp and now, and after the first poll strictly
    after the stamp; a gateway that is gone was seen to go);
  - `ExitCodeTruthful`, from `Reasoned`: each ending is justified when it is
    taken, and nothing before the next run takes its reasons away. No hypothesis
    about the store: the code does not read back what it wrote.
- **What a run concludes from earlier rows** (`WatchdogGuardProofs`):
  - `CooldownKept` needs that stamps are the times of their reboots (`Stamped`,
    `Stamps`) and that past the guard every recorded hot reboot is old enough
    (`Cool`), which no step but time, in the right direction, changes;
  - `RebootCorroborated`: rows are archived oldest first (`Chrono`,
    `HotIsNewest`), so `RecentRuns` looks at the runs *just* before
    (`RecentRunsAreLast`);
  - `HealthyCorroboration`: `internet_ok` is false only where the *last* probe
    was down, or the correction is the next call (`FalseIsRechecked`), hence a
    run past the streak guard follows runs that were down to the end
    (`StreakRechecked`);
  - `OutageActedUpon`: the converse of the guards' safety. A row that saw only
    the link down says so (`DownIsFalse`), so a guard that finds the streak too
    short has a broken one in front of it (`UnsustainedForCause`, by counting),
    and the cause stays (`CauseKept`): rows before a run at work, which is the
    newest (`Newest`), keep what they say, and none comes back from the archive;
  - `EpisodeToldOnce`: a run has told nothing until it closes, and then exactly
    what the row before it does not say already (`Telling`, `ToldOnce`).
  - `OncePerCooldownHealthy`, the sentence of `deploy/yarddog.cron` that
    `lost_reply` refutes, while nothing has failed, no run has died and every
    answer has arrived: before its request a run waits only for its re-probes,
    so a reboot is later than the start of its row by no more than
    `ConfirmWindow`, CHECK_CONFIRMATIONS times CHECK_CONFIRM_DELAY
    (`ActsInWindow`); every reboot gets its stamp (`AllRecorded`); and one the
    guard does not see is archived, so its row is older than the hot window
    (`ColdIsOld`) and the reboot older than that less the confirmation window.

  Some of these have a hypothesis, the one under which the property is true.
  `RebootOnRecord`, `RecoveryTimeline`, `OutageActedUpon` and `EpisodeToldOnce`
  are proved of every state before the first store fault (`faults = 0`; with
  `MaxFaults = 0`, as in the run `guards`, of every state): a lost write leaves
  the record incomplete, and the code only logs it. Crashes are not restricted.
  `EpisodeToldOnce` asks besides that no row has been archived (`hot = DOMAIN
  runs`, the property's "while the rows are hot"): `RecentRuns` does not look
  into the archive, so the run after a rollover of its predecessor tells again.
  The two corroborations and `OncePerCooldownHealthy` assume `Gaps \subseteq
  Nat`, a clock not set back between runs; the last also `RebootCooldown +
  ConfirmWindow <= HotWindow`, which the defaults (2h, 30 days, and 5 x 60 s at
  the most) satisfy with days to spare for the time the calls take, and which
  `config.go` does not enforce. With a clock set back, a newer row can be archived before an
  older one and the guard may then take the older one for the previous run.
- **Outbox** (`OutboxProofs`): the refinement `Spec => ChannelSpec`. The
  invariant `Draining` says that a call attempts each row once and only unsent
  ones, and marks only what was delivered; without it `Send` could deliver a
  settled message. `DuplicatesAccountedFor` counts copies by the cardinality of
  their places in `delivered`, so no induction over the sequence is needed. Its
  invariant is `Paid`: a message that is not marked sent, nor about to be, has
  had all of its copies paid for by mishaps; marking it makes room for one more.
- **Row ids** (`UuidV7Proofs`): `Ordered`: the watermark of a running process
  bounds all ids stored or pending, pending ids sort after their table, and no
  id is behind its row's timestamp. `MintedLast` and `CommittedLast` follow
  from it and `AdvanceRises`.

- **Collector** (`CollectorProofs`): `RunBoundary` is not inductive: that a
  process inserts children of a run that is hot rests on `OpenRunIsHot`, which
  rests on nobody else rolling over meanwhile (`Holding`: past `acquireLock`
  there is only the holder of the flock), on a process rolling over before it
  inserts, and on ids that are not reused (`Recorded`). The clock does not come
  into it. Every action changes the tables in one of five ways (`StoreStep`:
  kept, inserted, gathered, archived, pruned), so the invariant is shown for
  those five. The key step is that the deletes of a rollover or a prune take
  exactly what its inserts copied (`DeleteAgedRows`): the children are deleted
  while the `runs` rows their subquery looks for are still there.
- **Readers** (`CollectorHistoryProofs`): the refinement `Spec => HistorySpec`
  from the five ways and `RunBoundary`: where a run's row is says where all its
  rows are. For the reads of two queries, `Reading` keeps what a request has
  seen so far: what it read is still there unless its run was pruned, and a run
  that has samples and is hot has a host row.
- **OpenStore** (`OpenStoreProofs`): `NoForeignWal` needs `Beside` (what lies
  beside a main file is its own, an empty -wal included) and `Renaming` (from the
  first rename to the last there is no -wal at the path): the main file is
  never moved away from under a -wal, so a fresh one never finds any. `torn`
  is the exception, recorded where it happens. `HistoryKept` is a matter of
  names: a rename destroys what already has its new name. `NamesFree` says that
  this cannot be while the clock is not set back, because a collector starts in a
  second of its own and quarantines once for each reason at most. `OwnRows` and `AtWork` add that rows
  get into a -wal only beside their main file and leave it first, so a rename
  takes away the rows of one database at a time. It is proved while
  `clock.time < MaxClock`: at its bound the model's time stands still, and two
  quarantines could share a second as no two ticks of cron do. `MaxClock` is any
  number. `StaleIsNoticed` follows from `LeftBehind`: a database that had runs is
  at the path, or its main file was renamed away, and no run of it then started
  later than that by more than the wall clock was set back since. It is proved
  for every clock, set back or forward, and without the bound.
- **Health** (`HealthCheckProofs`): `OneLogin` from `Slot` and `Leader` (whoever
  is between taking the slot and giving it back is the only one, and the slot
  holds its call). `OkIsEarned` from `CallsHonest` (a call that is done has
  the result of its login in `err`, which is what the order of the deferred
  statements is for), `JarPaidFor` (a cookie in the jar was granted to a login
  that no call has reported) and `Answered`.

Every safety and action property that a passing run checks is stated by one of
these theorems, and so are both refinements. Only model-checked are the liveness
properties `RunEnds`, `NoHeadOfLineBlocking`, `FlockFreed`, `DaemonServes` and
`EverySweepEnds`: they rest on fairness and `ENABLED`, which are outside what the
prover handles.

## Plan

Done: all the modules above, their runs, and the proofs of every safety property
the passing runs check. What is left, in this order:

1. A clock that runs between runs in `Watchdog`, for the two hazards about
   reboots dated in the future and about messages lost by a failed enqueue.
2. The hypothesis `faults = 0` made local: a fault of an earlier, closed run
   cannot disturb the row of a later one, so `RecoveryTimeline` could be stated
   of the rows whose own writes worked.
3. `Query`: clamps, windows and `collapseOutages` against a reference
   definition of maximal episodes.

## Not modelled

Text and layout (messages, HTTP mapping, token check, dashboard), the parsing of
`/proc`, sysfs and `ping` output, the login's encryption, TLS, and the
installation scripts. Of the query service, the clamps, windows and
`collapseOutages`, which are functions of their arguments (planned). Of the
daemon, the HTTP server's graceful stop, which is the standard library's. SQLite
itself: each statement or transaction is atomic and durable, and the rules about
its -wal that `OpenStore` relies on are assumed. A cron slot's time is measured
in `CronSlot` alone; elsewhere overlapping ticks come at any time. Composing all
the modules into one would multiply their states without joining what they say:
they share the tables, and each keeps the part of a table that its component
reads. `PROJECT.json` gives the status of each component.
