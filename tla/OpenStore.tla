----------------------------- MODULE OpenStore -----------------------------
(***************************************************************************)
(* OpenStore of infrastructure/store.go as its two callers run it: the     *)
(* collector, alone under its flock, which may set a malformed or          *)
(* incompatible database aside and start a fresh one, and the daemon,      *)
(* which may not and is restarted by systemd until it can serve.           *)
(*                                                                         *)
(* A database is its main file and its -wal; SQLite finds the second by    *)
(* the name of the first and takes what it finds for its own.  Files are   *)
(* what they hold of the few facts that an open looks at.  Each rename is  *)
(* a step, a process may die or fail between any two, and connections live *)
(* on in files that were renamed away.  The -shm is rebuilt by whoever     *)
(* opens the database and holds nothing.                                   *)
(*                                                                         *)
(* SQLite is modelled by what the code relies on: closing the last         *)
(* connection folds the -wal into the main file and removes it, unless the *)
(* main file was moved; an open notices a malformed schema.                *)
(***************************************************************************)
EXTENDS Integers, FiniteSets

CONSTANTS None,
          MaxDbs,          \* bound on the databases ever created
          MaxClock,        \* where time stops
          CalmAt,          \* when the faults are over
          MaxFaults,       \* bound on damage, deaths, restarts, failed calls, clock
                           \* settings and daemons that connect mid-quarantine
          ClockSteps,      \* how far one setting moves the wall clock, in ticks
          MaxConns,        \* DAEMON_MAX_CONNS
          StaleAfter       \* DAEMON_STALE_AFTER, in ticks

Actors == {"collector", "daemon"}
Dbs    == 1..MaxDbs
\* "legacy": runs has INTEGER ids; "tables": all of migrate's tables are there;
\* "rows": runs has a row; "stamp": schema_version is the current one.
Facts  == {"legacy", "tables", "rows", "stamp", "malformed"}
File(d, facts) == [db |-> d, holds |-> facts]
Files == [db : Dbs, holds : SUBSET Facts]

ASSUME OpenStoreAssumption ==
    /\ {MaxDbs, MaxClock, CalmAt, MaxFaults, MaxConns, StaleAfter} \subseteq Nat
    /\ MaxDbs # 0 /\ None \notin Files /\ None \notin Int /\ ClockSteps \subseteq Int

VARIABLES
    main, wal,     \* what is at the database's path and beside it
    aside,         \* the files quarantineFile renamed
    created,       \* how many databases were created
    lastRun,       \* per database, its newest run's started_at, or None
    clock,         \* in ticks of cron: the time since the installation, what the
                   \* wall clock shows, and how far it was ever set back in all
    stage,         \* what each actor does next
    conn,          \* the databases each actor has connections to
    why,           \* why the collector quarantines
    moved,         \* how many renames of the quarantine are done
    faults,        \* how many faults are left
    left,          \* history: per database, the time at which its main file was
                   \* renamed away, or None
    torn           \* history: the daemon held or opened a main file whose
                   \* -wal a quarantine had moved, before the main file was

disk == <<main, wal, aside, left, created>>
vars == <<disk, lastRun, clock, stage, conn, why, moved, faults, torn>>

TypeOK ==
    /\ main \in Files \cup {None} /\ wal \in Files \cup {None}
    /\ \A a \in aside : a.name \in {"main", "wal"} /\ a.file \in Files
    /\ created \in 0..MaxDbs /\ moved \in 0..3
    /\ clock \in [time : 0..MaxClock, wall : Int, back : Nat]
    /\ lastRun \in [Dbs -> Int \cup {None}]
    /\ left \in [Dbs -> (0..MaxClock) \cup {None}]
    /\ stage \in [Actors -> {"down", "open", "check", "close", "quarantine",
                             "reopen", "stamp", "ready", "done"}]
    /\ conn \in [Actors -> SUBSET Dbs]
    /\ why \in {None, "corrupt", "incompatible"}
    /\ faults \in 0..MaxFaults /\ torn \in BOOLEAN

(***************************************************************************)
(* What is at the path.                                                    *)
(***************************************************************************)
Holds(file) == IF file = None THEN {} ELSE file.holds
Foreign(file) == file # None /\ Holds(wal) # {} /\ wal.db # file.db

\* What an open of this file at the path reads: another database's frames
\* replayed over this one's pages make neither.
SeenIn(file) == Holds(file) \cup Holds(wal)
                \cup (IF Foreign(file) THEN {"malformed"} ELSE {})
Seen == SeenIn(main)

\* A first installation, or a database an earlier version left behind, closed
\* properly or by a power cut.
Init ==
    /\ \/ main = None /\ wal = None /\ created = 0
       \/ /\ \E holds \in {{"legacy"}, {"legacy", "rows"}, {"tables", "rows", "stamp"}} :
                main = File(1, holds)
          /\ wal \in {None, File(1, {"rows"})}
          /\ created = 1
    /\ lastRun = [d \in Dbs |-> IF d = 1 /\ "rows" \in Seen THEN 0 ELSE None]
    /\ aside = {} /\ left = [d \in Dbs |-> None]
    /\ clock = [time |-> 0, wall |-> 0, back |-> 0]
    /\ stage = [o \in Actors |-> "down"] /\ conn = [o \in Actors |-> {}]
    /\ why = None /\ moved = 0
    /\ faults = MaxFaults /\ torn = FALSE

AtPath(o) == main # None /\ main.db \in conn[o]
LastOut(o) == \A p \in Actors \ {o} : ~AtPath(p)

\* Adds a fact to the -wal, if that is still where o's connection writes.
Write(o, facts) ==
    wal' = IF AtPath(o) /\ wal # None THEN [wal EXCEPT !.holds = @ \cup facts] ELSE wal

Becomes(o, s) == stage' = [stage EXCEPT ![o] = s]
Goes(o, from, to) == stage[o] = from /\ Becomes(o, to)

\* Close: the last connection folds the -wal in.
Close(o) ==
    /\ conn' = [conn EXCEPT ![o] = {}]
    /\ IF AtPath(o) /\ LastOut(o) /\ wal # None
       THEN main' = [main EXCEPT !.holds = Seen] /\ wal' = None
       ELSE UNCHANGED <<main, wal>>

Fault ==
    /\ faults > 0 /\ clock.time < CalmAt
    /\ faults' = faults - 1

(***************************************************************************)
(* OpenStore, step by step.                                                *)
(***************************************************************************)
SelfHeals_Nobody(o) == FALSE
SelfHeals(o) == o = "collector"

\* sql.Open creates the file if it is absent.
Found == IF main = None THEN File(created + 1, {}) ELSE main
FindOrCreate ==
    /\ Found.db \in Dbs
    /\ main' = Found /\ created' = IF main = None THEN created + 1 ELSE created
Malformed == "malformed" \in SeenIn(Found)

\* o is connected to what is at the path; an empty -wal is anybody's.
Connected(o, new, frames) ==
    /\ conn' = [conn EXCEPT ![o] = new]
    /\ wal' = IF Holds(wal) = {} THEN File(Found.db, frames)
              ELSE [wal EXCEPT !.holds = @ \cup frames]
    /\ IF o = "daemon" /\ moved > 0 THEN Fault /\ torn' = TRUE
                                    ELSE UNCHANGED <<faults, torn>>

\* openOnce: migrate adds the tables that are missing.
Connect(o) ==
    /\ FindOrCreate /\ ~Malformed
    /\ Connected(o, {Found.db}, {"tables"} \ SeenIn(Found))

OpenOnce(o) ==
    /\ Goes(o, "open", "check") /\ Connect(o)
    /\ UNCHANGED <<aside, left, lastRun, clock, why, moved>>

\* It does not open: the collector quarantines, the daemon exits.
OpenMalformed(o) ==
    /\ FindOrCreate /\ Malformed
    /\ IF SelfHeals(o)
       THEN Goes(o, "open", "quarantine") /\ why' = "corrupt"
       ELSE Goes(o, "open", "down") /\ UNCHANGED why
    /\ UNCHANGED <<wal, aside, left, lastRun, clock, conn, moved, faults, torn>>

\* needsQuarantine.
Incompatible == "stamp" \notin Seen /\ "rows" \in Seen

\* A connection whose file was renamed under it may answer either way.
NeedsQuarantine(o) ==
    /\ \/ /\ ~AtPath(o) \/ ~Incompatible
          /\ Goes(o, "check", "stamp") /\ UNCHANGED why
       \/ /\ ~AtPath(o) \/ Incompatible
          /\ Goes(o, "check", "close")
          /\ why' = IF SelfHeals(o) THEN "incompatible" ELSE why
    /\ UNCHANGED <<disk, lastRun, clock, conn, moved, faults, torn>>

CloseIncompatible(o) ==
    /\ Goes(o, "close", IF SelfHeals(o) THEN "quarantine" ELSE "down")
    /\ Close(o)
    /\ UNCHANGED <<aside, left, created, lastRun, clock, why, moved, faults, torn>>

\* The suffix tells quarantines apart by reason and by the second.
Suffix_NoTime == [reason |-> why, at |-> 0]
Suffix == [reason |-> why, at |-> clock.wall]

\* os.Rename, which replaces what has the new name; a file that is not there
\* is tolerated.
Aside(name, file) ==
    IF file = None THEN aside
    ELSE {a \in aside : a.name # name \/ a.suffix # Suffix}
         \cup {[name |-> name, file |-> file, suffix |-> Suffix]}

QuarantineOrder_MainFirst == <<"main", "wal", "shm">>
QuarantineOrder == <<"wal", "shm", "main">>

\* quarantineFile, one rename a step.
QuarantineFile ==
    /\ stage["collector"] = "quarantine" /\ moved < 3
    /\ moved' = moved + 1
    /\ CASE QuarantineOrder[moved'] = "wal" ->
              aside' = Aside("wal", wal) /\ wal' = None /\ UNCHANGED <<main, left>>
         [] QuarantineOrder[moved'] = "shm" -> UNCHANGED <<main, wal, aside, left>>
         [] QuarantineOrder[moved'] = "main" ->
              /\ aside' = Aside("main", main) /\ main' = None /\ UNCHANGED wal
              /\ left' = IF main = None THEN left ELSE [left EXCEPT ![main.db] = clock.time]
    /\ UNCHANGED <<created, lastRun, clock, stage, conn, why, faults, torn>>

Quarantined ==
    /\ moved = 3 /\ Goes("collector", "quarantine", "reopen") /\ moved' = 0
    /\ UNCHANGED <<disk, lastRun, clock, conn, why, faults, torn>>

\* openOnce again.  Only after a corrupt file is what it finds looked at.
Reopen ==
    /\ Connect("collector")
    /\ Goes("collector", "reopen", IF why = "corrupt" THEN "check" ELSE "stamp")
    /\ why' = None
    /\ UNCHANGED <<aside, left, lastRun, clock, moved>>

ReopenMalformed ==
    /\ FindOrCreate /\ Malformed
    /\ Goes("collector", "reopen", "down") /\ why' = None
    /\ UNCHANGED <<wal, aside, left, lastRun, clock, conn, moved, faults, torn>>

\* ensureSchemaVersionStamped, the seeding and chmodStoreFiles.
Stamp(o) ==
    /\ Goes(o, "stamp", "ready") /\ Write(o, {"stamp"})
    /\ UNCHANGED <<main, aside, left, created, lastRun, clock, conn, why, moved, faults, torn>>

(***************************************************************************)
(* The two processes around it.                                            *)
(***************************************************************************)
Tick == IF clock.time < MaxClock
        THEN [clock EXCEPT !.time = @ + 1, !.wall = @ + 1] ELSE clock

\* cron: no two starts of the collector share a second.
StartCollector ==
    /\ Goes("collector", "down", "open") /\ clock' = Tick
    /\ UNCHANGED <<disk, lastRun, conn, why, moved, faults, torn>>

\* A tick on which no collector was started.
MissedTick ==
    /\ stage["collector"] = "down" /\ clock' = Tick /\ clock' # clock
    /\ UNCHANGED <<disk, lastRun, stage, conn, why, moved, faults, torn>>

\* The wall clock is set, back or forward; not between two renames, which go
\* by the name that was made before the first.
SetClock ==
    /\ Fault /\ moved = 0
    /\ \E step \in ClockSteps :
          clock' = [clock EXCEPT !.wall = @ + step,
                                 !.back = @ + IF step < 0 THEN -step ELSE 0]
    /\ UNCHANGED <<disk, lastRun, stage, conn, why, moved, torn>>

\* InsertRun: a TEXT id does not go into a legacy table.
InsertRun ==
    /\ Goes("collector", "ready", "done")
    /\ IF "legacy" \in Seen THEN UNCHANGED <<wal, lastRun>>
       ELSE Write("collector", {"rows"}) /\ lastRun' = [lastRun EXCEPT ![main.db] = clock.wall]
    /\ UNCHANGED <<main, aside, left, created, clock, conn, why, moved, faults, torn>>

CollectorEnds ==
    /\ Goes("collector", "done", "down") /\ Close("collector")
    /\ UNCHANGED <<aside, left, created, lastRun, clock, why, moved, faults, torn>>

\* systemd: Restart=on-failure.
StartDaemon ==
    /\ Goes("daemon", "down", "open")
    /\ UNCHANGED <<disk, lastRun, clock, conn, why, moved, faults, torn>>

\* The pool opens another connection by path, and no migrate runs on it.
PoolConnects ==
    /\ stage["daemon"] = "ready" /\ Cardinality(conn["daemon"]) < MaxConns
    /\ FindOrCreate /\ Found.db \notin conn["daemon"]
    /\ Connected("daemon", conn["daemon"] \cup {Found.db}, {})
    /\ UNCHANGED <<aside, left, lastRun, clock, stage, why, moved>>

\* A store call fails, or the daemon is told to stop: the process closes what
\* it has open and ends.
GivesUp(o) ==
    /\ Fault /\ stage[o] # "down"
    /\ Becomes(o, "down") /\ Close(o)
    /\ torn' = (torn \/ (o = "collector" /\ moved \in 1..2 /\ AtPath("daemon")))
    /\ IF o = "collector" THEN why' = None /\ moved' = 0 ELSE UNCHANGED <<why, moved>>
    /\ UNCHANGED <<aside, left, created, lastRun, clock>>

\* A power cut: nothing is closed.
PowerCut ==
    /\ Fault
    /\ stage' = [o \in Actors |-> "down"] /\ conn' = [o \in Actors |-> {}]
    /\ why' = None /\ moved' = 0
    /\ UNCHANGED <<disk, lastRun, clock, torn>>

\* The medium fails under the main file or the -wal.
Damage ==
    /\ Fault
    /\ \/ /\ main # None /\ main' = [main EXCEPT !.holds = @ \cup {"malformed"}]
          /\ UNCHANGED wal
       \/ /\ wal # None /\ wal' = [wal EXCEPT !.holds = @ \cup {"malformed"}]
          /\ UNCHANGED main
    /\ UNCHANGED <<aside, left, created, lastRun, clock, stage, conn, why, moved, torn>>

----------------------------------------------------------------------------
OpenStep(o) == \/ OpenOnce(o) \/ OpenMalformed(o) \/ NeedsQuarantine(o)
               \/ CloseIncompatible(o) \/ Stamp(o)
CollectorStep == \/ StartCollector \/ OpenStep("collector") \/ QuarantineFile
                 \/ Quarantined \/ Reopen \/ ReopenMalformed \/ InsertRun \/ CollectorEnds
DaemonStep == StartDaemon \/ OpenStep("daemon")

Next ==
    \/ CollectorStep \/ DaemonStep
    \/ MissedTick \/ SetClock \/ PoolConnects \/ PowerCut \/ Damage
    \/ \E o \in Actors : GivesUp(o)

Spec == Init /\ [][Next]_vars

\* cron keeps starting the collector and systemd the daemon, and neither hangs
\* in the middle of an open: busy_timeout bounds every statement.
FairSpec == Spec /\ WF_vars(CollectorStep) /\ WF_vars(DaemonStep)

(***************************************************************************)
(* Properties.                                                             *)
(***************************************************************************)
\* A database is never opened over the frames of another: whatever dies
\* between the renames, "path is only ever vacated once its own sidecars are
\* already safely out of the way" (quarantineFile).  The one exception is a
\* daemon that is connected in the middle of a quarantine.
NoForeignWal == Foreign(main) => torn

\* No row is ever destroyed: a database that ever had runs still has them, at
\* the path or set aside ("renamed, never deleted"), after any number of
\* quarantines, failed ones among them; as long as the wall clock is not set
\* back, when a second quarantine could come by the name of an earlier one.
HistoryKept ==
    clock.back = 0 =>
        \A d \in Dbs : lastRun[d] # None =>
            \/ \E f \in {main, wal} : f # None /\ f.db = d /\ "rows" \in f.holds
            \/ \E a \in aside : a.file.db = d /\ "rows" \in a.file.holds

\* Whatever the daemon finds on its first start, a later run of the collector
\* makes it able to serve, and it then stays up ("systemd restarts it until
\* the collector's own next run has quarantined and recreated the database").
DaemonServes == <>[](stage["daemon"] = "ready")

\* freshnessProbe.CheckUP through a connection to database d.
Fresh_AnyRun(d) == lastRun[d] # None
Fresh(d) == lastRun[d] # None /\ clock.wall - lastRun[d] <= StaleAfter

\* A daemon left behind on a database that was set aside finds out, on every
\* connection that still leads there, although nothing ever closes such a
\* connection: the freshness probe says no more than StaleAfter later, and what
\* the wall clock, by which it judges, was set back besides.
StaleIsNoticed ==
    \A d \in conn["daemon"] : stage["daemon"] = "ready" /\ Fresh(d) =>
        \/ main # None /\ main.db = d
        \/ left[d] # None /\ clock.time - left[d] <= StaleAfter + clock.back
============================================================================
