-------------------------- MODULE OpenStoreProofs --------------------------
(***************************************************************************)
(* No database is opened over the frames of another, for any number of     *)
(* databases, quarantines, faults, connections and clock readings.  The    *)
(* order of the renames is all there is to it: the -wal leaves first, so   *)
(* that the main file is never moved away from under one (Renaming), and   *)
(* whatever is beside a main file is its own (Beside), unless the daemon   *)
(* was there between two renames.  And no rows are lost while the wall     *)
(* clock is not set back, which rests on names: no rename may hit a file   *)
(* that was set aside before (NamesFree).  Whatever the clock does, a      *)
(* database that left the path has no later run than that (LeftBehind).    *)
(***************************************************************************)
EXTENDS OpenStore, TLAPS

\* Only a collector at work on it is in the middle of a quarantine, and the
\* -wal is gone after its first rename.
Renaming ==
    /\ moved > 0 => stage["collector"] = "quarantine"
    /\ moved > 0 /\ ~torn => wal = None

\* The -wal at the path is that of the main file at the path.
Beside == ~torn /\ wal # None => main # None /\ wal.db = main.db

Inv == TypeOK /\ Renaming /\ Beside

LEMMA ConstantFacts ==
    /\ MaxDbs \in Nat /\ MaxClock \in Nat /\ CalmAt \in Nat /\ MaxFaults \in Nat /\ MaxConns \in Nat
    /\ None \notin Int /\ ClockSteps \subseteq Int
    /\ \A f \in Files : f # None
    /\ \A d \in Dbs : d \in Int
BY OpenStoreAssumption DEF Dbs

LEMMA FileTypes ==
    /\ \A d \in Dbs : \A facts \in SUBSET Facts :
          File(d, facts) \in Files /\ File(d, facts).db = d /\ File(d, facts).holds = facts
    /\ \A f \in Files : \A facts \in SUBSET Facts :
          LET g == [f EXCEPT !.holds = @ \cup facts]
          IN  g \in Files /\ g.db = f.db /\ g.holds = f.holds \cup facts
BY DEF File, Files

LEMMA InitInv == Init => Inv
<1> SUFFICES ASSUME Init PROVE Inv
  OBVIOUS
<1>1. main \in Files \cup {None} /\ wal \in Files \cup {None} /\ created \in 0..MaxDbs
      /\ (wal # None => main # None /\ wal.db = main.db)
  <2>1. CASE main = None /\ wal = None /\ created = 0
    BY <2>1, ConstantFacts
  <2>2. CASE ~(main = None /\ wal = None /\ created = 0)
    <3>1. PICK holds \in {{"legacy"}, {"legacy", "rows"}, {"tables", "rows", "stamp"}} : main = File(1, holds)
      BY <2>2 DEF Init
    <3>2. wal \in {None, File(1, {"rows"})} /\ created = 1
      BY <2>2 DEF Init
    <3>3. 1 \in Dbs /\ holds \in SUBSET Facts /\ {"rows"} \in SUBSET Facts /\ 1 \in 0..MaxDbs
      BY <3>1, ConstantFacts, OpenStoreAssumption DEF Dbs, Facts
    <3>4. /\ File(1, holds) \in Files /\ File(1, holds).db = 1
          /\ File(1, {"rows"}) \in Files /\ File(1, {"rows"}).db = 1
      BY <3>3, FileTypes
    <3> QED BY <3>1, <3>2, <3>3, <3>4, ConstantFacts
  <2> QED BY <2>1, <2>2
<1>2. /\ lastRun \in [Dbs -> Int \cup {None}] /\ left \in [Dbs -> (0..MaxClock) \cup {None}]
      /\ clock \in [time : 0..MaxClock, wall : Int, back : Nat] /\ faults \in 0..MaxFaults
  BY ConstantFacts DEF Init
<1>3. stage \in [Actors -> {"down", "open", "check", "close", "quarantine", "reopen", "stamp", "ready", "done"}]
      /\ conn \in [Actors -> SUBSET Dbs]
  BY DEF Init
<1>4. aside = {} /\ why = None /\ moved = 0 /\ torn = FALSE
  BY DEF Init
<1>5. TypeOK
  <2>1. moved \in 0..3 /\ why \in {None, "corrupt", "incompatible"}
        /\ \A a \in aside : a.name \in {"main", "wal"} /\ a.file \in Files
    BY <1>4
  <2>2. torn \in BOOLEAN
    BY <1>4, Zenon
  <2> QED BY <1>1, <1>2, <1>3, <2>1, <2>2 DEF TypeOK
<1>6. Renaming /\ Beside
  BY <1>1, <1>4 DEF Renaming, Beside
<1> QED BY <1>5, <1>6 DEF Inv

(***************************************************************************)
(* What an open, a close and a write do to the two files at the path.      *)
(***************************************************************************)
LEMMA SeenTypes == ASSUME Inv PROVE Seen \in SUBSET Facts /\ Holds(wal) \in SUBSET Facts
BY DEF Inv, TypeOK, Seen, SeenIn, Holds, Files, Facts

LEMMA FindOrCreateKeeps ==
    ASSUME Inv, FindOrCreate
    PROVE  /\ Found \in Files /\ Found.db \in Dbs /\ main' = Found /\ main' # None
           /\ created' \in 0..MaxDbs
           /\ ~torn /\ wal # None => Found = main /\ wal.db = Found.db
<1>1. Found.db \in Dbs /\ main' = Found
  BY DEF FindOrCreate
<1>2. CASE main = None
  <2>1. Found = File(created + 1, {}) /\ created' = created + 1
    BY <1>2 DEF Found, FindOrCreate
  <2>2. created + 1 \in Dbs
    BY <1>1, <2>1 DEF File
  <2>3. Found \in Files
    BY <2>1, <2>2, FileTypes
  <2>4. created' \in 0..MaxDbs
    BY <2>1, <2>2, ConstantFacts DEF Dbs, Inv, TypeOK
  <2> QED BY <1>1, <1>2, <2>3, <2>4, ConstantFacts DEF Inv, Beside
<1>3. CASE main # None
  BY <1>1, <1>3, ConstantFacts DEF Found, FindOrCreate, Inv, TypeOK, Beside
<1> QED BY <1>2, <1>3

LEMMA ConnectedKeeps ==
    ASSUME Inv, NEW o \in Actors, NEW new \in SUBSET Dbs, NEW frames \in SUBSET Facts,
           FindOrCreate, Connected(o, new, frames), o = "daemon" \/ moved = 0
    PROVE  /\ main' \in Files /\ main' # None /\ wal' \in Files /\ created' \in 0..MaxDbs
           /\ conn' \in [Actors -> SUBSET Dbs] /\ faults' \in 0..MaxFaults /\ torn' \in BOOLEAN
           /\ ~torn' => wal'.db = main'.db /\ moved = 0
<1>1. /\ Found \in Files /\ Found.db \in Dbs /\ main' = Found /\ main' # None
      /\ created' \in 0..MaxDbs
      /\ ~torn /\ wal # None => Found = main /\ wal.db = Found.db
  BY FindOrCreateKeeps
<1>2. conn' \in [Actors -> SUBSET Dbs]
  BY DEF Connected, Inv, TypeOK
<1>3. faults' \in 0..MaxFaults /\ torn' \in BOOLEAN /\ (~torn' => ~torn /\ moved = 0)
  <2>1. moved \in 0..3 /\ faults \in 0..MaxFaults /\ torn \in BOOLEAN
    BY DEF Inv, TypeOK
  <2>2. CASE o = "daemon" /\ moved > 0
    BY <2>1, <2>2, ConstantFacts DEF Connected, Fault
  <2>3. CASE ~(o = "daemon" /\ moved > 0)
    BY <2>1, <2>3, ConstantFacts DEF Connected
  <2> QED BY <2>2, <2>3
<1>4. wal' \in Files /\ (~torn => wal'.db = Found.db)
  <2>1. CASE Holds(wal) = {}
    <3>1. wal' = File(Found.db, frames)
      BY <2>1 DEF Connected
    <3> QED BY <1>1, <3>1, FileTypes
  <2>2. CASE Holds(wal) # {}
    <3>1. wal # None /\ wal \in Files
      BY <2>2 DEF Holds, Inv, TypeOK
    <3>2. wal' = [wal EXCEPT !.holds = @ \cup frames]
      BY <2>2 DEF Connected
    <3>3. wal' \in Files /\ wal'.db = wal.db
      BY <3>1, <3>2, FileTypes
    <3> QED BY <1>1, <3>1, <3>3
  <2> QED BY <2>1, <2>2
<1> QED BY <1>1, <1>2, <1>3, <1>4

LEMMA CloseKeeps ==
    ASSUME Inv, NEW o \in Actors, Close(o)
    PROVE  /\ main' \in Files \cup {None} /\ wal' \in Files \cup {None}
           /\ conn' \in [Actors -> SUBSET Dbs]
           /\ wal' # None => wal' = wal /\ main' = main
<1>1. conn' \in [Actors -> SUBSET Dbs]
  BY DEF Close, Inv, TypeOK
<1>2. CASE UNCHANGED <<main, wal>>
  BY <1>1, <1>2 DEF Inv, TypeOK
<1>3. CASE ~UNCHANGED <<main, wal>>
  <2>1. main # None /\ main' = [main EXCEPT !.holds = Seen] /\ wal' = None
    BY <1>3 DEF Close, AtPath
  <2>2. main \in Files /\ Seen \in SUBSET Facts
    BY <2>1, SeenTypes DEF Inv, TypeOK
  <2>3. main' \in Files
    BY <2>1, <2>2 DEF Files
  <2> QED BY <1>1, <2>1, <2>3
<1> QED BY <1>2, <1>3

LEMMA WriteKeeps ==
    ASSUME Inv, NEW o \in Actors, NEW facts \in SUBSET Facts, Write(o, facts)
    PROVE  /\ wal' \in Files \cup {None} /\ (wal' # None => wal # None /\ wal'.db = wal.db)
<1>1. CASE wal' = wal
  BY <1>1 DEF Inv, TypeOK
<1>2. CASE wal' # wal
  <2>1. wal \in Files /\ wal # None /\ wal' = [wal EXCEPT !.holds = @ \cup facts]
    BY <1>2 DEF Write, Inv, TypeOK
  <2> QED BY <2>1, FileTypes
<1> QED BY <1>1, <1>2

\* An actor that goes from one stage to another is not in a quarantine unless
\* it was.
LEMMA StageKeeps ==
    ASSUME Inv, NEW o \in Actors,
           NEW s \in {"down", "open", "check", "close", "quarantine", "reopen", "stamp", "ready", "done"},
           Becomes(o, s), o = "collector" => stage[o] # "quarantine" \/ s = "quarantine"
    PROVE  /\ stage' \in [Actors -> {"down", "open", "check", "close", "quarantine",
                                    "reopen", "stamp", "ready", "done"}]
           /\ moved > 0 => stage'["collector"] = "quarantine"
BY DEF Inv, TypeOK, Renaming, Becomes, Actors

(***************************************************************************)
(* The steps, by what they do.                                             *)
(***************************************************************************)
LEMMA ConnectSteps ==
    ASSUME Inv,
           (\E o \in Actors : OpenOnce(o)) \/ Reopen \/ PoolConnects
    PROVE  Inv'
<1> DEFINE Kept(o) == /\ main' \in Files /\ main' # None /\ wal' \in Files /\ created' \in 0..MaxDbs
                      /\ conn' \in [Actors -> SUBSET Dbs] /\ faults' \in 0..MaxFaults /\ torn' \in BOOLEAN
                      /\ ~torn' => wal'.db = main'.db /\ moved = 0
<1>1. \A frames : frames \in SUBSET Facts => frames \ SeenIn(Found) \in SUBSET Facts
  OBVIOUS
<1>2. {"tables"} \in SUBSET Facts /\ {} \in SUBSET Facts
  BY DEF Facts
<1>3. ASSUME NEW o \in Actors, Connect(o), o = "daemon" \/ moved = 0
      PROVE  Kept(o)
  <2>1. {Found.db} \in SUBSET Dbs /\ {"tables"} \ SeenIn(Found) \in SUBSET Facts
    BY <1>1, <1>2, <1>3 DEF Connect, FindOrCreate
  <2> QED BY <1>3, <2>1, ConnectedKeeps DEF Connect
<1>4. ASSUME NEW o \in Actors, OpenOnce(o) PROVE Inv'
  <2>1. o = "daemon" \/ moved = 0
    BY <1>4 DEF OpenOnce, Goes, Inv, TypeOK, Renaming, Actors
  <2>2. Kept(o)
    BY <1>3, <1>4, <2>1 DEF OpenOnce
  <2>3. /\ stage' \in [Actors -> {"down", "open", "check", "close", "quarantine",
                                  "reopen", "stamp", "ready", "done"}]
        /\ moved > 0 => stage'["collector"] = "quarantine"
    BY <1>4, StageKeeps DEF OpenOnce, Goes
  <2>4. UNCHANGED <<aside, left, lastRun, clock, why, moved>>
    BY <1>4 DEF OpenOnce
  <2>5. TypeOK'
    BY <2>2, <2>3, <2>4 DEF Inv, TypeOK
  <2>6. Renaming' /\ Beside'
    BY <2>2, <2>3, <2>4 DEF Inv, TypeOK, Renaming, Beside
  <2> QED BY <2>5, <2>6 DEF Inv
<1>5. CASE Reopen
  <2>1. moved = 0 /\ "collector" \in Actors
    BY <1>5 DEF Reopen, Goes, Inv, TypeOK, Renaming, Actors
  <2>2. Kept("collector")
    BY <1>3, <1>5, <2>1 DEF Reopen
  <2>3. /\ stage' \in [Actors -> {"down", "open", "check", "close", "quarantine",
                                  "reopen", "stamp", "ready", "done"}]
        /\ moved > 0 => stage'["collector"] = "quarantine"
    BY <1>5, <2>1, StageKeeps DEF Reopen, Goes
  <2>4. UNCHANGED <<aside, left, lastRun, clock, moved>> /\ why' = None
    BY <1>5 DEF Reopen
  <2>5. TypeOK'
    BY <2>2, <2>3, <2>4 DEF Inv, TypeOK
  <2>6. Renaming' /\ Beside'
    BY <2>1, <2>2, <2>4 DEF Inv, TypeOK, Renaming, Beside
  <2> QED BY <2>5, <2>6 DEF Inv
<1>6. CASE PoolConnects
  <2>1. "daemon" \in Actors /\ conn["daemon"] \cup {Found.db} \in SUBSET Dbs
    BY <1>6 DEF PoolConnects, FindOrCreate, Inv, TypeOK, Actors
  <2>2. Kept("daemon")
    BY <1>2, <1>6, <2>1, ConnectedKeeps DEF PoolConnects
  <2>3. UNCHANGED <<aside, left, lastRun, clock, stage, why, moved>>
    BY <1>6 DEF PoolConnects
  <2>4. TypeOK'
    BY <2>2, <2>3 DEF Inv, TypeOK
  <2>5. Renaming' /\ Beside'
    BY <2>2, <2>3 DEF Inv, TypeOK, Renaming, Beside
  <2> QED BY <2>4, <2>5 DEF Inv
<1> QED BY <1>4, <1>5, <1>6

LEMMA MalformedSteps ==
    ASSUME Inv, (\E o \in Actors : OpenMalformed(o)) \/ ReopenMalformed
    PROVE  Inv'
<1>1. /\ main' \in Files /\ created' \in 0..MaxDbs
      /\ ~torn /\ wal # None => main' # None /\ wal.db = main'.db
      /\ UNCHANGED <<wal, aside, left, lastRun, clock, conn, moved, faults, torn>>
  BY FindOrCreateKeeps DEF OpenMalformed, ReopenMalformed
<1>2. /\ stage' \in [Actors -> {"down", "open", "check", "close", "quarantine",
                                "reopen", "stamp", "ready", "done"}]
      /\ moved > 0 => stage'["collector"] = "quarantine"
      /\ why' \in {None, "corrupt", "incompatible"}
  <2>1. why' \in {None, "corrupt", "incompatible"}
    BY DEF OpenMalformed, ReopenMalformed, Inv, TypeOK
  <2>2. ASSUME NEW o \in Actors, OpenMalformed(o)
        PROVE  /\ stage' \in [Actors -> {"down", "open", "check", "close", "quarantine",
                                         "reopen", "stamp", "ready", "done"}]
               /\ moved > 0 => stage'["collector"] = "quarantine"
    BY <2>2, StageKeeps DEF OpenMalformed, Goes
  <2>3. "collector" \in Actors
    BY DEF Actors
  <2> QED BY <2>1, <2>2, <2>3, StageKeeps DEF ReopenMalformed, Goes
<1>3. TypeOK'
  BY <1>1, <1>2 DEF Inv, TypeOK
<1>4. Renaming' /\ Beside'
  BY <1>1, <1>2 DEF Inv, Renaming, Beside
<1> QED BY <1>3, <1>4 DEF Inv

\* Whoever closes takes the -wal of the main file with it, or leaves both.
LEMMA ClosingSteps ==
    ASSUME Inv, (\E o \in Actors : CloseIncompatible(o) \/ GivesUp(o)) \/ CollectorEnds
    PROVE  Inv'
<1>1. ASSUME NEW o \in Actors, Close(o),
             stage' \in [Actors -> {"down", "open", "check", "close", "quarantine",
                                   "reopen", "stamp", "ready", "done"}],
             moved' = 0 \/ (moved' = moved /\ (moved > 0 => stage'["collector"] = "quarantine")),
             why' \in {None, "corrupt", "incompatible"},
             faults' \in 0..MaxFaults, torn' \in BOOLEAN, torn => torn',
             UNCHANGED <<aside, left, created, lastRun, clock>>
      PROVE  Inv'
  <2>1. /\ main' \in Files \cup {None} /\ wal' \in Files \cup {None}
        /\ conn' \in [Actors -> SUBSET Dbs]
        /\ wal' # None => wal' = wal /\ main' = main
    BY <1>1, CloseKeeps
  <2>2. moved' \in 0..3
    BY <1>1 DEF Inv, TypeOK
  <2>3. TypeOK'
    BY <1>1, <2>1, <2>2 DEF Inv, TypeOK
  <2>4. Renaming'
    BY <1>1, <2>1 DEF Inv, Renaming
  <2>5. Beside'
    BY <1>1, <2>1 DEF Inv, Beside
  <2> QED BY <2>3, <2>4, <2>5 DEF Inv
<1>2. torn \in BOOLEAN /\ faults \in 0..MaxFaults /\ why \in {None, "corrupt", "incompatible"}
  BY DEF Inv, TypeOK
<1>3. ASSUME NEW o \in Actors, CloseIncompatible(o) PROVE Inv'
  <2>1. stage[o] = "close" /\ (Becomes(o, "quarantine") \/ Becomes(o, "down"))
    BY <1>3 DEF CloseIncompatible, Goes
  <2>2. /\ stage' \in [Actors -> {"down", "open", "check", "close", "quarantine",
                                  "reopen", "stamp", "ready", "done"}]
        /\ moved > 0 => stage'["collector"] = "quarantine"
    BY <2>1, StageKeeps
  <2> QED BY <1>1, <1>2, <1>3, <2>2 DEF CloseIncompatible
<1>4. CASE CollectorEnds
  <2>1. "collector" \in Actors
    BY DEF Actors
  <2>2. /\ stage' \in [Actors -> {"down", "open", "check", "close", "quarantine",
                                  "reopen", "stamp", "ready", "done"}]
        /\ moved > 0 => stage'["collector"] = "quarantine"
    BY <1>4, <2>1, StageKeeps DEF CollectorEnds, Goes
  <2> QED BY <1>1, <1>2, <1>4, <2>1, <2>2 DEF CollectorEnds
<1>5. ASSUME NEW o \in Actors, GivesUp(o) PROVE Inv'
  <2>1. stage' \in [Actors -> {"down", "open", "check", "close", "quarantine",
                              "reopen", "stamp", "ready", "done"}]
    BY <1>5 DEF GivesUp, Becomes, Inv, TypeOK
  <2>2. moved' = 0 \/ (moved' = moved /\ (moved > 0 => stage'["collector"] = "quarantine"))
    BY <1>5 DEF GivesUp, Becomes, Inv, TypeOK, Renaming, Actors
  <2>3. why' \in {None, "corrupt", "incompatible"}
    BY <1>2, <1>5 DEF GivesUp
  <2>4. faults' \in 0..MaxFaults
    BY <1>2, <1>5, ConstantFacts DEF GivesUp, Fault
  <2>5. torn' \in BOOLEAN /\ (torn => torn')
    BY <1>2, <1>5 DEF GivesUp
  <2> QED BY <1>1, <1>5, <2>1, <2>2, <2>3, <2>4, <2>5 DEF GivesUp
<1> QED BY <1>3, <1>4, <1>5

\* The -wal is renamed first and the main file last.
LEMMA QuarantineSteps ==
    ASSUME Inv, QuarantineFile
    PROVE  Inv'
<1>1. moved \in {0, 1, 2} /\ moved' = moved + 1
  BY DEF QuarantineFile, Inv, TypeOK
<1>2. UNCHANGED <<created, lastRun, clock, stage, conn, why, faults, torn>> /\ stage["collector"] = "quarantine"
  BY DEF QuarantineFile
<1>3. ASSUME NEW name \in {"main", "wal"}, NEW file \in Files \cup {None}, aside' = Aside(name, file)
      PROVE  \A a \in aside' : a.name \in {"main", "wal"} /\ a.file \in Files
  BY <1>3 DEF Aside, Inv, TypeOK
<1>4. CASE moved = 0
  <2>1. aside' = Aside("wal", wal) /\ wal' = None /\ UNCHANGED <<main, left>>
    BY <1>1, <1>4 DEF QuarantineFile, QuarantineOrder
  <2>2. TypeOK'
    BY <1>1, <1>2, <1>3, <2>1 DEF Inv, TypeOK
  <2> QED BY <1>2, <2>1, <2>2 DEF Inv, Renaming, Beside
<1>5. CASE moved = 1
  <2>1. UNCHANGED <<main, wal, aside, left>>
    BY <1>1, <1>5 DEF QuarantineFile, QuarantineOrder
  <2>2. TypeOK'
    BY <1>1, <1>2, <2>1 DEF Inv, TypeOK
  <2> QED BY <1>2, <1>5, <2>1, <2>2 DEF Inv, Renaming, Beside
<1>6. CASE moved = 2
  <2>1. aside' = Aside("main", main) /\ main' = None /\ UNCHANGED wal
    BY <1>1, <1>6 DEF QuarantineFile, QuarantineOrder
  <2>2. left' \in [Dbs -> (0..MaxClock) \cup {None}]
    <3>1. left' = left \/ left' = [left EXCEPT ![main.db] = clock.time]
      BY <1>1, <1>6 DEF QuarantineFile, QuarantineOrder
    <3> QED BY <3>1 DEF Inv, TypeOK
  <2>3. TypeOK'
    BY <1>1, <1>2, <1>3, <2>1, <2>2 DEF Inv, TypeOK
  <2> QED BY <1>2, <1>6, <2>1, <2>3 DEF Inv, Renaming, Beside
<1> QED BY <1>1, <1>4, <1>5, <1>6

LEMMA WritingSteps ==
    ASSUME Inv, (\E o \in Actors : Stamp(o)) \/ InsertRun
    PROVE  Inv'
<1>1. {"stamp"} \in SUBSET Facts /\ {"rows"} \in SUBSET Facts /\ "collector" \in Actors
  BY DEF Facts, Actors
<1>2. /\ wal' \in Files \cup {None} /\ (wal' # None => wal # None /\ wal'.db = wal.db)
      /\ lastRun' \in [Dbs -> Int \cup {None}]
      /\ UNCHANGED <<main, aside, left, created, clock, conn, why, moved, faults, torn>>
  <2>1. ASSUME NEW o \in Actors, Stamp(o)
        PROVE  wal' \in Files \cup {None} /\ (wal' # None => wal # None /\ wal'.db = wal.db)
    BY <1>1, <2>1, WriteKeeps DEF Stamp
  <2>2. CASE InsertRun
    <3>1. wal' = wal \/ Write("collector", {"rows"})
      BY <2>2 DEF InsertRun
    <3>2. wal' = wal => wal' \in Files \cup {None}
      BY DEF Inv, TypeOK
    <3>3. wal' \in Files \cup {None} /\ (wal' # None => wal # None /\ wal'.db = wal.db)
      BY <1>1, <3>1, <3>2, WriteKeeps
    <3>4. lastRun' = lastRun \/ lastRun' = [lastRun EXCEPT ![main.db] = clock.wall]
      BY <2>2 DEF InsertRun
    <3>5. lastRun' \in [Dbs -> Int \cup {None}]
      BY <3>4 DEF Inv, TypeOK
    <3> QED BY <2>2, <3>3, <3>5 DEF InsertRun
  <2>3. ASSUME NEW o \in Actors, Stamp(o)
        PROVE  /\ UNCHANGED <<main, aside, left, created, clock, conn, why, moved, faults, torn>>
               /\ lastRun' \in [Dbs -> Int \cup {None}]
    BY <2>3 DEF Stamp, Inv, TypeOK
  <2> QED BY <2>1, <2>2, <2>3 DEF InsertRun
<1>3. /\ stage' \in [Actors -> {"down", "open", "check", "close", "quarantine",
                                "reopen", "stamp", "ready", "done"}]
      /\ moved > 0 => stage'["collector"] = "quarantine"
  BY <1>1, StageKeeps DEF Stamp, InsertRun, Goes
<1>4. TypeOK'
  BY <1>2, <1>3 DEF Inv, TypeOK
<1> QED BY <1>2, <1>3, <1>4 DEF Inv, Renaming, Beside

\* Steps that touch neither file.
LEMMA OtherSteps ==
    ASSUME Inv,
           \/ \E o \in Actors : NeedsQuarantine(o)
           \/ Quarantined \/ StartCollector \/ MissedTick \/ SetClock \/ StartDaemon \/ PowerCut
    PROVE  Inv'
<1>1. /\ UNCHANGED <<disk, lastRun, torn>>
      /\ clock' \in [time : 0..MaxClock, wall : Int, back : Nat] /\ faults' \in 0..MaxFaults
      /\ why' \in {None, "corrupt", "incompatible"} /\ conn' \in [Actors -> SUBSET Dbs]
  <2>1. /\ clock \in [time : 0..MaxClock, wall : Int, back : Nat] /\ faults \in 0..MaxFaults
        /\ Tick \in [time : 0..MaxClock, wall : Int, back : Nat]
    <3>1. clock \in [time : 0..MaxClock, wall : Int, back : Nat] /\ faults \in 0..MaxFaults
      BY DEF Inv, TypeOK
    <3>2. clock.time < MaxClock => clock.time + 1 \in 0..MaxClock /\ clock.wall + 1 \in Int
      BY <3>1, ConstantFacts
    <3> QED BY <3>1, <3>2 DEF Tick
  <2>2. why \in {None, "corrupt", "incompatible"} /\ conn \in [Actors -> SUBSET Dbs]
    BY DEF Inv, TypeOK
  <2>3. ASSUME PowerCut PROVE faults' \in 0..MaxFaults /\ conn' \in [Actors -> SUBSET Dbs]
    BY <2>1, <2>3, ConstantFacts DEF PowerCut, Fault
  <2>4. ASSUME SetClock
        PROVE  /\ UNCHANGED <<disk, lastRun, torn, why, conn>> /\ faults' \in 0..MaxFaults
               /\ clock' \in [time : 0..MaxClock, wall : Int, back : Nat]
    <3>1. PICK step \in ClockSteps :
             clock' = [clock EXCEPT !.wall = @ + step, !.back = @ + IF step < 0 THEN -step ELSE 0]
      BY <2>4 DEF SetClock
    <3>2. /\ step \in Int /\ clock.wall + step \in Int
          /\ clock.back + (IF step < 0 THEN -step ELSE 0) \in Nat
      BY <2>1, ConstantFacts
    <3>3. clock' \in [time : 0..MaxClock, wall : Int, back : Nat]
      BY <2>1, <3>1, <3>2
    <3>4. faults' \in 0..MaxFaults
      <4>1. faults > 0 /\ faults' = faults - 1
        BY <2>4, Zenon DEF SetClock, Fault
      <4> QED BY <2>1, <4>1, ConstantFacts
    <3>5. UNCHANGED <<disk, lastRun, torn, why, conn>>
      BY <2>4, Zenon DEF SetClock
    <3> QED BY <3>3, <3>4, <3>5
  <2> QED BY <2>1, <2>2, <2>3, <2>4 DEF NeedsQuarantine, Quarantined, StartCollector, MissedTick,
                                        StartDaemon, PowerCut
<1>2. /\ stage' \in [Actors -> {"down", "open", "check", "close", "quarantine",
                                "reopen", "stamp", "ready", "done"}]
      /\ moved' = 0 \/ (moved' = moved /\ (moved > 0 => stage'["collector"] = "quarantine"))
  <2>1. "collector" \in Actors /\ "daemon" \in Actors
    BY DEF Actors
  <2>2. CASE \E o \in Actors : NeedsQuarantine(o)
    BY <2>2, StageKeeps DEF NeedsQuarantine, Goes
  <2>3. CASE Quarantined
    BY <2>3 DEF Quarantined, Goes, Becomes, Inv, TypeOK
  <2>4. CASE StartCollector \/ StartDaemon
    BY <2>1, <2>4, StageKeeps DEF StartCollector, StartDaemon, Goes
  <2>5. CASE MissedTick \/ SetClock
    BY <2>5 DEF MissedTick, SetClock, Inv, TypeOK, Renaming
  <2>6. CASE PowerCut
    BY <2>6 DEF PowerCut
  <2> QED BY <2>2, <2>3, <2>4, <2>5, <2>6
<1>3. moved' \in 0..3
  BY <1>2 DEF Inv, TypeOK
<1>4. TypeOK'
  BY <1>1, <1>2, <1>3 DEF disk, Inv, TypeOK
<1> QED BY <1>1, <1>2, <1>4 DEF disk, Inv, Renaming, Beside

\* Damage changes what a file holds and not whose it is.
LEMMA DamageSteps ==
    ASSUME Inv, Damage
    PROVE  Inv'
<1>1. {"malformed"} \in SUBSET Facts
  BY DEF Facts
<1>2. faults' \in 0..MaxFaults
  BY ConstantFacts DEF Damage, Fault, Inv, TypeOK
<1>3. UNCHANGED <<aside, left, created, lastRun, clock, stage, conn, why, moved, torn>>
  BY DEF Damage
<1>4. /\ main' \in Files \cup {None} /\ wal' \in Files \cup {None}
      /\ main # None => main' # None /\ main'.db = main.db
      /\ wal' # None => wal # None /\ wal'.db = wal.db
  <2>1. CASE main # None /\ main' = [main EXCEPT !.holds = @ \cup {"malformed"}] /\ UNCHANGED wal
    BY <1>1, <2>1, FileTypes, ConstantFacts DEF Inv, TypeOK
  <2>2. CASE wal # None /\ wal' = [wal EXCEPT !.holds = @ \cup {"malformed"}] /\ UNCHANGED main
    BY <1>1, <2>2, FileTypes, ConstantFacts DEF Inv, TypeOK
  <2> QED BY <2>1, <2>2 DEF Damage
<1>5. TypeOK'
  BY <1>2, <1>3, <1>4 DEF Inv, TypeOK
<1> QED BY <1>3, <1>4, <1>5 DEF Inv, Renaming, Beside

LEMMA NextInv == Inv /\ [Next]_vars => Inv'
<1> SUFFICES ASSUME Inv, [Next]_vars PROVE Inv'
  OBVIOUS
<1>1. CASE UNCHANGED vars
  BY <1>1 DEF vars, disk, Inv, TypeOK, Renaming, Beside
<1>2. CASE \E o \in Actors : OpenStep(o)
  BY <1>2, ConnectSteps, MalformedSteps, ClosingSteps, WritingSteps, OtherSteps DEF OpenStep
<1>3. CASE CollectorStep \/ DaemonStep
  <2>1. "collector" \in Actors /\ "daemon" \in Actors
    BY DEF Actors
  <2> QED BY <1>2, <1>3, <2>1, ConnectSteps, MalformedSteps, ClosingSteps, WritingSteps,
             QuarantineSteps, OtherSteps DEF CollectorStep, DaemonStep
<1>4. CASE MissedTick \/ SetClock \/ PoolConnects \/ PowerCut \/ Damage \/ \E o \in Actors : GivesUp(o)
  BY <1>4, ConnectSteps, ClosingSteps, OtherSteps, DamageSteps
<1> QED BY <1>1, <1>3, <1>4 DEF Next

\* The two processes keep the invariant from the first installation on.
THEOREM InvAlways == Spec => []Inv
BY InitInv, NextInv, PTL DEF Spec

\* The files, the stages and the connections stay what they are meant to be.
THEOREM TypeCorrect == Spec => []TypeOK
<1>1. Inv => TypeOK
  BY DEF Inv
<1> QED BY <1>1, InvAlways, PTL

\* A main file never finds another database's -wal beside it, however many
\* quarantines die between their renames (quarantineFile).
THEOREM NoForeignWalHolds == Spec => []NoForeignWal
<1>1. Inv => NoForeignWal
  BY DEF Inv, TypeOK, Beside, NoForeignWal, Foreign, Holds
<1> QED BY <1>1, InvAlways, PTL
(***************************************************************************)
(* Nothing is lost.  Every step keeps the rows that are at the path there, *)
(* but for the renames, and those find their new names free: two           *)
(* quarantines differ in when or why, as long as the wall clock is not set *)
(* back.  (And until MaxClock: there the model's time, unlike time, stands *)
(* still.)                                                                 *)
(***************************************************************************)
Working == {"check", "close", "stamp", "ready", "done"}

\* A collector at work is connected to what is at the path.
AtWork == stage["collector"] \in Working =>
             AtPath("collector") /\ wal # None /\ wal.db = main.db

\* Rows get into a -wal only beside their main file, and leave it first.
OwnRows == "rows" \in Holds(wal) => main # None /\ wal.db = main.db /\ moved = 0

Path == AtWork /\ OwnRows

RowsAtPath(d) == \E f \in {main, wal} : f # None /\ f.db = d /\ "rows" \in f.holds

\* What every step but a rename does to the path.
Stays ==
    /\ main # None => main' # None /\ main'.db = main.db
    /\ \A d : RowsAtPath(d) => RowsAtPath(d)'

LEMMA ActorsFacts ==
    /\ "collector" \in Actors /\ "daemon" \in Actors /\ "collector" # "daemon"
    /\ \A o \in Actors : o # "collector" => o = "daemon"
BY DEF Actors

LEMMA FindOrCreateStays ==
    ASSUME Inv, FindOrCreate
    PROVE  /\ main' = Found /\ Found # None /\ Found.db \in Dbs
           /\ main # None => Found = main
           /\ main = None => Found.holds = {}
<1>1. Found # None /\ main' = Found /\ Found.db \in Dbs
  BY FindOrCreateKeeps
<1>2. main = None => Found.holds = {}
  BY DEF Found, File
<1> QED BY <1>1, <1>2 DEF Found

\* A connection adds frames to the -wal, or starts one, and never rows.
LEMMA ConnectedStays ==
    ASSUME Inv, Path, NEW o \in Actors, NEW new \in SUBSET Dbs, NEW frames \in SUBSET Facts,
           FindOrCreate, Connected(o, new, frames), "rows" \notin frames
    PROVE  /\ Stays
           /\ wal' # None /\ (Holds(wal) = {} \/ wal.db = Found.db => wal'.db = Found.db)
           /\ "rows" \in Holds(wal') => main' # None /\ wal'.db = main'.db /\ moved = 0
           /\ \A p \in Actors : p # o => conn'[p] = conn[p]
           /\ conn'[o] = new
<1>1. /\ main' = Found /\ Found # None /\ Found.db \in Dbs
      /\ main # None => Found = main
  BY FindOrCreateStays
<1>2. (\A p \in Actors : p # o => conn'[p] = conn[p]) /\ conn'[o] = new
  BY DEF Connected, Inv, TypeOK
<1>3. CASE Holds(wal) = {}
  <2>1. /\ wal' = File(Found.db, frames) /\ wal' \in Files /\ wal' # None
        /\ wal'.db = Found.db /\ wal'.holds = frames
    BY <1>1, <1>3, FileTypes, ConstantFacts DEF Connected
  <2>2. \A d : RowsAtPath(d) => main # None /\ main.db = d /\ "rows" \in main.holds
    BY <1>3 DEF RowsAtPath, Holds
  <2>3. Stays
    BY <1>1, <2>2 DEF Stays, RowsAtPath
  <2>4. "rows" \notin Holds(wal')
    BY <2>1 DEF Holds
  <2> QED BY <1>2, <2>1, <2>3, <2>4
<1>4. CASE Holds(wal) # {}
  <2>1. wal # None /\ wal \in Files
    BY <1>4 DEF Holds, Inv, TypeOK
  <2>2. wal' = [wal EXCEPT !.holds = @ \cup frames]
    BY <1>4 DEF Connected
  <2>3. wal' \in Files /\ wal' # None /\ wal'.db = wal.db /\ wal'.holds = wal.holds \cup frames
    BY <2>1, <2>2, FileTypes, ConstantFacts
  <2>4. Stays
    BY <1>1, <2>1, <2>3 DEF Stays, RowsAtPath
  <2>5. "rows" \in Holds(wal') => "rows" \in Holds(wal)
    BY <2>1, <2>3 DEF Holds
  <2> QED BY <1>1, <1>2, <1>4, <2>3, <2>4, <2>5 DEF Path, OwnRows
<1> QED BY <1>3, <1>4

LEMMA ConnectPath ==
    ASSUME Inv, Path, (\E o \in Actors : OpenOnce(o)) \/ Reopen \/ PoolConnects
    PROVE  Stays /\ Path'
<1>1. ASSUME NEW o \in Actors, Connect(o)
      PROVE  /\ Stays /\ main' = Found /\ Found.db \in conn'[o]
             /\ wal' # None /\ wal'.db = Found.db
             /\ "rows" \in Holds(wal') => main' # None /\ wal'.db = main'.db /\ moved = 0
             /\ \A p \in Actors : p # o => conn'[p] = conn[p]
  <2>1. /\ {Found.db} \in SUBSET Dbs /\ {"tables"} \ SeenIn(Found) \in SUBSET Facts
        /\ "rows" \notin {"tables"} \ SeenIn(Found)
    BY <1>1 DEF Connect, FindOrCreate, Facts
  <2>2. Found # None /\ main' = Found
    BY <1>1, FindOrCreateStays DEF Connect
  <2>3. Holds(wal) = {} \/ wal.db = Found.db
    BY <1>1, <2>2 DEF Connect, Malformed, SeenIn, Foreign
  <2>4. FindOrCreate /\ Connected(o, {Found.db}, {"tables"} \ SeenIn(Found))
    BY <1>1 DEF Connect
  <2>5. /\ Stays /\ wal' # None /\ wal'.db = Found.db /\ conn'[o] = {Found.db}
        /\ "rows" \in Holds(wal') => main' # None /\ wal'.db = main'.db /\ moved = 0
        /\ \A p \in Actors : p # o => conn'[p] = conn[p]
    BY <2>1, <2>3, <2>4, ConnectedStays
  <2> QED BY <2>2, <2>5
<1>2. ASSUME NEW o \in Actors, Connect(o), UNCHANGED moved,
             \A p \in Actors : p # o => stage'[p] = stage[p],
             o = "daemon" => (stage["collector"] \in Working => main # None)
      PROVE  Stays /\ Path'
  <2>1. OwnRows'
    BY <1>1, <1>2 DEF OwnRows
  <2>2. CASE o = "collector"
    BY <1>1, <1>2, <2>1, <2>2, FindOrCreateStays DEF Path, AtWork, AtPath, Connect
  <2>3. CASE o = "daemon"
    <3>1. stage'["collector"] = stage["collector"] /\ conn'["collector"] = conn["collector"]
      BY <1>1, <1>2, <2>3, ActorsFacts
    <3>2. main # None => main' = main
      BY <1>1, <1>2, FindOrCreateStays DEF Connect
    <3> QED BY <1>1, <1>2, <2>1, <2>3, <3>1, <3>2 DEF Path, AtWork, AtPath
  <2> QED BY <2>2, <2>3, ActorsFacts
<1>3. stage["collector"] \in Working => main # None
  BY DEF Path, AtWork, AtPath
<1>4. ASSUME NEW o \in Actors, OpenOnce(o) PROVE Stays /\ Path'
  <2>1. \A p \in Actors : p # o => stage'[p] = stage[p]
    BY <1>4 DEF OpenOnce, Goes, Becomes, Inv, TypeOK
  <2> QED BY <1>2, <1>3, <1>4, <2>1 DEF OpenOnce
<1>5. CASE Reopen
  <2>1. \A p \in Actors : p # "collector" => stage'[p] = stage[p]
    BY <1>5 DEF Reopen, Goes, Becomes, Inv, TypeOK
  <2> QED BY <1>2, <1>3, <1>5, <2>1, ActorsFacts DEF Reopen
<1>6. CASE PoolConnects
  <2>1. /\ conn["daemon"] \cup {Found.db} \in SUBSET Dbs /\ {} \in SUBSET Facts
        /\ FindOrCreate /\ Connected("daemon", conn["daemon"] \cup {Found.db}, {})
    BY <1>6, ActorsFacts DEF PoolConnects, FindOrCreate, Inv, TypeOK
  <2>2. UNCHANGED <<stage, moved>>
    BY <1>6 DEF PoolConnects
  <2>3. /\ Stays /\ wal' # None
        /\ Holds(wal) = {} \/ wal.db = Found.db => wal'.db = Found.db
        /\ "rows" \in Holds(wal') => main' # None /\ wal'.db = main'.db /\ moved = 0
        /\ conn'["collector"] = conn["collector"]
    BY <2>1, ConnectedStays, ActorsFacts
  <2>4. main # None => main' = main /\ Found = main
    BY <2>1, FindOrCreateStays
  <2>5. AtWork'
    BY <1>3, <2>2, <2>3, <2>4 DEF Path, AtWork, AtPath
  <2> QED BY <2>2, <2>3, <2>5 DEF Path, OwnRows
<1> QED BY <1>4, <1>5, <1>6

\* A main file that does not open stays where it is.
LEMMA MalformedPath ==
    ASSUME Inv, Path, (\E o \in Actors : OpenMalformed(o)) \/ ReopenMalformed
    PROVE  Stays /\ Path'
<1>1. /\ main' = Found /\ Found # None /\ (main # None => main' = main)
      /\ UNCHANGED <<wal, conn, moved>>
  BY FindOrCreateStays DEF OpenMalformed, ReopenMalformed
<1>2. Stays /\ OwnRows'
  BY <1>1 DEF Stays, RowsAtPath, Path, OwnRows
<1>3. stage'["collector"] \in Working => stage'["collector"] = stage["collector"]
  BY ActorsFacts DEF OpenMalformed, ReopenMalformed, Goes, Becomes, Inv, TypeOK, Working
<1> QED BY <1>1, <1>2, <1>3 DEF Path, AtWork, AtPath

\* Closing folds the rows of the -wal into the main file they belong to; while
\* the collector is at work only the collector is the last one out.
LEMMA ClosePath ==
    ASSUME Inv, Path, NEW o \in Actors, Close(o), moved' \in {moved, 0},
           stage'["collector"] \in Working =>
              o = "daemon" /\ stage'["collector"] = stage["collector"]
    PROVE  Stays /\ Path'
<1>1. \A p \in Actors : p # o => conn'[p] = conn[p]
  BY DEF Close, Inv, TypeOK
<1>2. CASE UNCHANGED <<main, wal>>
  BY <1>1, <1>2, ActorsFacts DEF Stays, RowsAtPath, Path, AtWork, AtPath, OwnRows
<1>3. CASE ~UNCHANGED <<main, wal>>
  <2>1. /\ main # None /\ main' = [main EXCEPT !.holds = Seen] /\ wal' = None
        /\ LastOut(o)
    BY <1>3 DEF Close, AtPath
  <2>2. main \in Files /\ Seen \in SUBSET Facts
    BY <2>1, SeenTypes DEF Inv, TypeOK
  <2>3. /\ main' \in Files /\ main' # None /\ main'.db = main.db
        /\ main'.holds = Seen
    BY <2>1, <2>2, ConstantFacts DEF Files
  <2>4. Holds(main) \subseteq Seen /\ Holds(wal) \subseteq Seen
    BY DEF Seen, SeenIn
  <2>5. Stays
    <3>1. ASSUME NEW d, RowsAtPath(d) PROVE main.db = d /\ "rows" \in Seen
      BY <2>1, <2>4, <3>1 DEF RowsAtPath, Holds, Path, OwnRows
    <3> QED BY <2>1, <2>3, <3>1 DEF Stays, RowsAtPath
  <2>6. stage'["collector"] \notin Working
    BY <2>1, ActorsFacts DEF LastOut, Path, AtWork
  <2> QED BY <2>1, <2>5, <2>6 DEF Path, AtWork, OwnRows, Holds
<1> QED BY <1>2, <1>3

LEMMA ClosingPath ==
    ASSUME Inv, Path, (\E o \in Actors : CloseIncompatible(o) \/ GivesUp(o)) \/ CollectorEnds
    PROVE  Stays /\ Path'
<1>1. ASSUME NEW o \in Actors, CloseIncompatible(o) \/ GivesUp(o) PROVE Stays /\ Path'
  <2>1. stage'["collector"] \in Working => o = "daemon" /\ stage'["collector"] = stage["collector"]
    BY <1>1, ActorsFacts DEF CloseIncompatible, GivesUp, SelfHeals, Goes, Becomes, Inv, TypeOK, Working
  <2>2. Close(o) /\ moved' \in {moved, 0}
    BY <1>1 DEF CloseIncompatible, GivesUp
  <2> QED BY <2>1, <2>2, ClosePath
<1>2. CASE CollectorEnds
  <2>1. stage'["collector"] \notin Working
    BY <1>2, ActorsFacts DEF CollectorEnds, Goes, Becomes, Inv, TypeOK, Working
  <2>2. Close("collector") /\ moved' \in {moved, 0}
    BY <1>2 DEF CollectorEnds
  <2> QED BY <2>1, <2>2, ClosePath, ActorsFacts
<1> QED BY <1>1, <1>2

\* A write adds to the -wal; the only one of a run is made by a collector at
\* work, so it goes beside its own main file.
LEMMA WritePath ==
    ASSUME Inv, Path, NEW o \in Actors, NEW facts \in SUBSET Facts, Write(o, facts),
           UNCHANGED <<main, conn, moved>>,
           "rows" \in facts => o = "collector" /\ stage["collector"] \in Working,
           stage'["collector"] \in Working => stage["collector"] \in Working
    PROVE  /\ Stays /\ Path'
           /\ "rows" \in facts => RowsAtPath(main.db)'
<1>1. CASE wal' = wal
  <2>1. "rows" \in facts => RowsAtPath(main.db)
    <3> SUFFICES ASSUME "rows" \in facts PROVE RowsAtPath(main.db)
      OBVIOUS
    <3>1. AtPath("collector") /\ wal # None /\ wal.db = main.db /\ o = "collector"
      BY DEF Path, AtWork
    <3>2. wal \in Files /\ wal' = [wal EXCEPT !.holds = @ \cup facts]
      BY <3>1 DEF Write, Inv, TypeOK
    <3>3. wal'.holds = wal.holds \cup facts
      BY <3>2, FileTypes
    <3> QED BY <1>1, <3>1, <3>3 DEF RowsAtPath
  <2> QED BY <1>1, <2>1 DEF Stays, RowsAtPath, Path, AtWork, AtPath, OwnRows
<1>2. CASE wal' # wal
  <2>1. wal \in Files /\ wal # None /\ wal' = [wal EXCEPT !.holds = @ \cup facts]
    BY <1>2 DEF Write, Inv, TypeOK
  <2>2. /\ wal' \in Files /\ wal' # None /\ wal'.db = wal.db
        /\ wal'.holds = wal.holds \cup facts
    BY <2>1, FileTypes, ConstantFacts
  <2>3. Stays
    BY <2>1, <2>2 DEF Stays, RowsAtPath
  <2>4. "rows" \in facts => main # None /\ wal.db = main.db /\ moved = 0
    BY DEF Path, AtWork, AtPath, Inv, TypeOK, Renaming, Working
  <2>5. OwnRows'
    BY <2>1, <2>2, <2>4 DEF Path, OwnRows, Holds
  <2>6. AtWork'
    BY <2>2 DEF Path, AtWork, AtPath
  <2>7. "rows" \in facts => RowsAtPath(main.db)'
    BY <2>2, <2>4 DEF RowsAtPath
  <2> QED BY <2>3, <2>5, <2>6, <2>7 DEF Path
<1> QED BY <1>1, <1>2

LEMMA StampPath == ASSUME Inv, Path, NEW o \in Actors, Stamp(o) PROVE Stays /\ Path'
<1>1. /\ {"stamp"} \in SUBSET Facts /\ "rows" \notin {"stamp"}
      /\ Write(o, {"stamp"}) /\ UNCHANGED <<main, conn, moved>>
  BY DEF Stamp, Facts
<1>2. stage'["collector"] \in Working => stage["collector"] \in Working
  BY ActorsFacts DEF Stamp, Goes, Becomes, Inv, TypeOK, Working
<1> QED BY <1>1, <1>2, WritePath

\* A run that is recorded is recorded at the path.
LEMMA InsertRunPath ==
    ASSUME Inv, Path, InsertRun
    PROVE  /\ Stays /\ Path' /\ main # None
           /\ lastRun' # lastRun => /\ lastRun' = [lastRun EXCEPT ![main.db] = clock.wall]
                                    /\ RowsAtPath(main.db)'
<1>1. /\ stage["collector"] = "ready" /\ stage["collector"] \in Working
      /\ UNCHANGED <<main, conn, moved>>
  BY DEF InsertRun, Goes, Working
<1>2. main # None
  BY <1>1 DEF Path, AtWork, AtPath
<1>3. CASE UNCHANGED <<wal, lastRun>>
  BY <1>1, <1>2, <1>3 DEF Stays, RowsAtPath, Path, AtWork, AtPath, OwnRows
<1>4. CASE Write("collector", {"rows"}) /\ lastRun' = [lastRun EXCEPT ![main.db] = clock.wall]
  <2>1. {"rows"} \in SUBSET Facts
    BY DEF Facts
  <2> QED BY <1>1, <1>2, <1>4, <2>1, WritePath, ActorsFacts
<1> QED BY <1>3, <1>4 DEF InsertRun

LEMMA OtherPath ==
    ASSUME Inv, Path,
           \/ \E o \in Actors : NeedsQuarantine(o)
           \/ Quarantined \/ StartCollector \/ MissedTick \/ SetClock \/ StartDaemon \/ PowerCut
    PROVE  Stays /\ Path'
<1>1. UNCHANGED <<main, wal>> /\ moved' \in {moved, 0}
  BY DEF NeedsQuarantine, Quarantined, StartCollector, MissedTick, SetClock, StartDaemon, PowerCut, disk
<1>2. Stays /\ OwnRows'
  BY <1>1 DEF Stays, RowsAtPath, Path, OwnRows
<1>3. stage'["collector"] \in Working => stage["collector"] \in Working /\ conn' = conn
  BY ActorsFacts DEF NeedsQuarantine, Quarantined, StartCollector, MissedTick, SetClock,
     StartDaemon, PowerCut, Goes, Becomes, Inv, TypeOK, Working
<1> QED BY <1>1, <1>2, <1>3 DEF Path, AtWork, AtPath

LEMMA DamagePath == ASSUME Inv, Path, Damage PROVE Stays /\ Path'
<1>1. {"malformed"} \in SUBSET Facts /\ "rows" \notin {"malformed"}
  BY DEF Facts
<1>2. UNCHANGED <<stage, conn, moved>>
  BY DEF Damage
<1>3. CASE main # None /\ main' = [main EXCEPT !.holds = @ \cup {"malformed"}] /\ UNCHANGED wal
  <2>1. main' # None /\ main'.db = main.db /\ main'.holds = main.holds \cup {"malformed"}
    BY <1>1, <1>3, FileTypes, ConstantFacts DEF Inv, TypeOK
  <2> QED BY <1>2, <1>3, <2>1 DEF Stays, RowsAtPath, Path, AtWork, AtPath, OwnRows
<1>4. CASE wal # None /\ wal' = [wal EXCEPT !.holds = @ \cup {"malformed"}] /\ UNCHANGED main
  <2>1. wal' # None /\ wal'.db = wal.db /\ wal'.holds = wal.holds \cup {"malformed"}
    BY <1>1, <1>4, FileTypes, ConstantFacts DEF Inv, TypeOK
  <2> QED BY <1>2, <1>4, <2>1 DEF Stays, RowsAtPath, Path, AtWork, AtPath, OwnRows, Holds
<1> QED BY <1>3, <1>4 DEF Damage

\* Every step but a rename and an insert, and what it leaves alone besides.
Elsewhere ==
    \/ \E o \in Actors : OpenStep(o) \/ GivesUp(o)
    \/ StartCollector \/ Quarantined \/ Reopen \/ ReopenMalformed \/ CollectorEnds
    \/ StartDaemon \/ MissedTick \/ SetClock \/ PoolConnects \/ PowerCut \/ Damage

LEMMA NextSplits == Next => Elsewhere \/ QuarantineFile \/ InsertRun
BY ActorsFacts DEF Next, Elsewhere, CollectorStep, DaemonStep

LEMMA ElsewherePath ==
    ASSUME Inv, Path, Elsewhere
    PROVE  Stays /\ Path' /\ UNCHANGED <<aside, left, lastRun>>
<1>1. UNCHANGED <<aside, left, lastRun>>
  BY DEF Elsewhere, OpenStep, OpenOnce, OpenMalformed, NeedsQuarantine, CloseIncompatible,
     Stamp, GivesUp, StartCollector, Quarantined, Reopen, ReopenMalformed, CollectorEnds,
     StartDaemon, MissedTick, SetClock, PoolConnects, PowerCut, Damage, disk
<1>2. Stays /\ Path'
  BY ConnectPath, MalformedPath, ClosingPath, StampPath, OtherPath, DamagePath
     DEF Elsewhere, OpenStep
<1> QED BY <1>1, <1>2

\* The -wal is empty of rows once the renames have begun.
LEMMA QuarantinePath == ASSUME Inv, Path, QuarantineFile PROVE Path'
<1>1. /\ stage'["collector"] \notin Working /\ moved \in {0, 1, 2} /\ moved' = moved + 1
  BY DEF QuarantineFile, Working, Inv, TypeOK
<1>2. CASE moved = 0
  <2>1. wal' = None
    BY <1>1, <1>2 DEF QuarantineFile, QuarantineOrder
  <2> QED BY <1>1, <2>1 DEF Path, AtWork, OwnRows, Holds
<1>3. CASE moved # 0
  <2>1. "rows" \notin Holds(wal)
    BY <1>3 DEF Path, OwnRows
  <2>2. moved = 1 => wal' = wal
    BY <1>1 DEF QuarantineFile, QuarantineOrder
  <2>3. moved = 2 => wal' = wal
    BY <1>1 DEF QuarantineFile, QuarantineOrder
  <2> QED BY <1>1, <1>3, <2>1, <2>2, <2>3 DEF Path, AtWork, OwnRows
<1> QED BY <1>2, <1>3

LEMMA PathNext == Inv /\ Path /\ [Next]_vars => Path'
<1> SUFFICES ASSUME Inv, Path, [Next]_vars PROVE Path'
  OBVIOUS
<1>1. CASE UNCHANGED vars
  BY <1>1 DEF vars, disk, Path, AtWork, AtPath, OwnRows
<1> QED BY <1>1, NextSplits, ElsewherePath, QuarantinePath, InsertRunPath

\* Why the collector is in a quarantine, or about to be.
Reasons ==
    /\ stage["collector"] = "close" => why = "incompatible"
    /\ stage["collector"] = "quarantine" => why \in {"corrupt", "incompatible"}

\* No file bears the name of a time to come, but for what the clock was set back.
Dated == \A a \in aside : a.suffix.at \in Int /\ a.suffix.at <= clock.wall + clock.back

MayBeIncompatible ==
    \/ stage["collector"] \in {"check", "close"}
    \/ stage["collector"] \in {"quarantine", "reopen"} /\ why = "corrupt"

StillToMove == {QuarantineOrder[j] : j \in moved + 1 .. 3}

\* The names a quarantine is going to use are free: a collector starts in a
\* second of its own, and quarantines once for each reason at most.
NamesFree ==
    /\ stage["collector"] = "open" => \A a \in aside : a.suffix.at # clock.wall
    /\ MayBeIncompatible =>
          \A a \in aside : a.suffix # [reason |-> "incompatible", at |-> clock.wall]
    /\ stage["collector"] = "quarantine" =>
          \A a \in aside : a.suffix = Suffix => a.name \notin StillToMove

LEMMA ReasonsNext == Inv /\ Reasons /\ [Next]_vars => Reasons'
<1> SUFFICES ASSUME Inv, Reasons, [Next]_vars PROVE Reasons'
  OBVIOUS
<1>1. CASE UNCHANGED vars
  BY <1>1 DEF vars, Reasons
<1>2. CASE QuarantineFile \/ InsertRun
  BY <1>2, ActorsFacts DEF QuarantineFile, InsertRun, Goes, Becomes, Reasons, Inv, TypeOK
<1>3. CASE \E o \in Actors : OpenStep(o)
  BY <1>3, ActorsFacts DEF OpenStep, OpenOnce, OpenMalformed, NeedsQuarantine,
     CloseIncompatible, Stamp, SelfHeals, Goes, Becomes, Reasons, Inv, TypeOK
<1>4. CASE \E o \in Actors : GivesUp(o)
  BY <1>4, ActorsFacts DEF GivesUp, Becomes, Reasons, Inv, TypeOK
<1>5. CASE Elsewhere /\ ~\E o \in Actors : OpenStep(o) \/ GivesUp(o)
  BY <1>5, ActorsFacts DEF Elsewhere, StartCollector, Quarantined, Reopen, ReopenMalformed,
     CollectorEnds, StartDaemon, MissedTick, SetClock, PoolConnects, PowerCut, Damage,
     Goes, Becomes, Reasons, Inv, TypeOK
<1> QED BY <1>1, <1>2, <1>3, <1>4, <1>5, NextSplits

\* Time does not go back, and the wall clock only as far as is counted.
LEMMA ClockNext ==
    ASSUME Inv, [Next]_vars
    PROVE  /\ {clock.time, clock'.time, clock.back, clock'.back} \subseteq Nat
           /\ {clock.wall, clock'.wall} \subseteq Int
           /\ clock.time <= clock'.time /\ clock.back <= clock'.back
           /\ clock.wall + clock.back - clock.time <= clock'.wall + clock'.back - clock'.time
<1>1. clock \in [time : 0..MaxClock, wall : Int, back : Nat]
  BY DEF Inv, TypeOK
<1>2. \/ clock' = clock \/ clock' = Tick
      \/ \E step \in ClockSteps :
            clock' = [clock EXCEPT !.wall = @ + step, !.back = @ + IF step < 0 THEN -step ELSE 0]
  BY DEF Next, CollectorStep, DaemonStep, OpenStep, OpenOnce, OpenMalformed, NeedsQuarantine,
     CloseIncompatible, Stamp, GivesUp, StartCollector, Quarantined, Reopen, ReopenMalformed,
     CollectorEnds, StartDaemon, MissedTick, SetClock, PoolConnects, PowerCut, Damage,
     QuarantineFile, InsertRun, vars
<1>3. CASE clock' = clock
  BY <1>1, <1>3, ConstantFacts
<1>4. CASE clock' = Tick
  BY <1>1, <1>4, ConstantFacts DEF Tick
<1>5. CASE clock' # clock /\ clock' # Tick
  <2>1. PICK step \in ClockSteps :
           clock' = [clock EXCEPT !.wall = @ + step, !.back = @ + IF step < 0 THEN -step ELSE 0]
    BY <1>2, <1>5
  <2>2. step \in Int
    BY ConstantFacts
  <2> QED BY <1>1, <2>1, <2>2, ConstantFacts
<1> QED BY <1>3, <1>4, <1>5

LEMMA DatedNext == Inv /\ Path /\ Dated /\ [Next]_vars => Dated'
<1> SUFFICES ASSUME Inv, Path, Dated, [Next]_vars, NEW a \in aside'
             PROVE  a.suffix.at \in Int /\ a.suffix.at <= clock'.wall + clock'.back
  BY DEF Dated
<1>1. /\ {clock.time, clock'.time, clock.back, clock'.back} \subseteq Nat
      /\ {clock.wall, clock'.wall} \subseteq Int
      /\ clock.wall + clock.back <= clock'.wall + clock'.back
  BY ClockNext
<1>2. CASE a \in aside
  BY <1>1, <1>2 DEF Dated
<1>3. CASE a \notin aside
  <2>1. QuarantineFile
    BY <1>3, NextSplits, ElsewherePath DEF InsertRun, vars, disk
  <2>2. a.suffix = Suffix
    <3>1. aside' \in {aside, Aside("wal", wal), Aside("main", main)}
      <4>1. moved \in {0, 1, 2} /\ moved' = moved + 1
        BY <2>1 DEF QuarantineFile, Inv, TypeOK
      <4>2. QuarantineOrder[moved'] \in {"wal", "shm", "main"}
        BY <4>1 DEF QuarantineOrder
      <4> QED BY <2>1, <4>2 DEF QuarantineFile
    <3>2. ASSUME NEW name, NEW file, NEW b \in Aside(name, file)
          PROVE  b \in aside \/ b.suffix = Suffix
      BY <3>2 DEF Aside
    <3> QED BY <1>3, <3>1, <3>2
  <2> QED BY <1>1, <2>2 DEF Suffix
<1> QED BY <1>2, <1>3

\* A rename takes a free name, and leaves those of the renames after it free.
LEMMA QuarantineNames ==
    ASSUME Inv, Reasons, NamesFree, QuarantineFile
    PROVE  /\ NamesFree' /\ aside \subseteq aside'
           /\ \/ /\ main' = main /\ wal' = wal /\ aside' = aside
              \/ /\ moved = 0 /\ main' = main /\ wal' = None
                 /\ wal # None => \E a \in aside' : a.file = wal
              \/ /\ moved = 2 /\ main' = None /\ wal' = wal
                 /\ main # None => \E a \in aside' : a.file = main
<1>1. /\ moved \in {0, 1, 2} /\ moved' = moved + 1
      /\ stage["collector"] = "quarantine" /\ UNCHANGED <<clock, stage, why>>
  BY DEF QuarantineFile, Inv, TypeOK
<1>2. /\ StillToMove = {QuarantineOrder[j] : j \in moved + 1 .. 3}
      /\ moved = 0 => "wal" \in StillToMove /\ StillToMove' = {"shm", "main"}
      /\ moved = 1 => StillToMove' \subseteq StillToMove
      /\ moved = 2 => "main" \in StillToMove /\ StillToMove' = {}
  <2>1. QuarantineOrder[1] = "wal" /\ QuarantineOrder[2] = "shm" /\ QuarantineOrder[3] = "main"
    BY DEF QuarantineOrder
  <2>2. /\ moved = 0 => moved + 1 .. 3 = {1, 2, 3} /\ moved' + 1 .. 3 = {2, 3}
        /\ moved = 1 => moved + 1 .. 3 = {2, 3} /\ moved' + 1 .. 3 = {3}
        /\ moved = 2 => moved + 1 .. 3 = {3} /\ moved' + 1 .. 3 = {}
    BY <1>1
  <2>3. StillToMove' = {QuarantineOrder[j] : j \in moved' + 1 .. 3}
    BY DEF StillToMove, QuarantineOrder
  <2> QED BY <1>1, <2>1, <2>2, <2>3 DEF StillToMove
<1>3. /\ Suffix.at = clock.wall /\ Suffix' = Suffix
      /\ MayBeIncompatible' <=> MayBeIncompatible
      /\ MayBeIncompatible => Suffix # [reason |-> "incompatible", at |-> clock.wall]
  BY <1>1 DEF Suffix, MayBeIncompatible
<1>4. \A a \in aside : a.suffix = Suffix => a.name \notin StillToMove
  BY <1>1 DEF NamesFree
<1>5. ASSUME NEW name, NEW file, name \in StillToMove, aside' = Aside(name, file)
      PROVE  /\ aside \subseteq aside'
             /\ \A a \in aside' : a \in aside \/ (a.name = name /\ a.suffix = Suffix)
             /\ file # None => \E a \in aside' : a.name = name /\ a.file = file /\ a.suffix = Suffix
  <2>1. CASE file = None
    BY <1>5, <2>1 DEF Aside
  <2>2. CASE file # None
    <3> DEFINE new == [name |-> name, file |-> file, suffix |-> Suffix]
    <3>1. \A a \in aside : a.name # name \/ a.suffix # Suffix
      BY <1>4, <1>5
    <3>2. aside' = {a \in aside : a.name # name \/ a.suffix # Suffix} \cup {new}
      BY <1>5, <2>2 DEF Aside
    <3>3. aside' = aside \cup {new}
      BY <3>1, <3>2
    <3>4. new.name = name /\ new.file = file /\ new.suffix = Suffix
      OBVIOUS
    <3> HIDE DEF new
    <3> QED BY <3>3, <3>4
  <2> QED BY <2>1, <2>2
<1>6. ASSUME NEW name, name \notin StillToMove', StillToMove' \subseteq StillToMove,
             \A a \in aside' : a \in aside \/ (a.name = name /\ a.suffix = Suffix)
      PROVE  NamesFree'
  BY <1>1, <1>3, <1>4, <1>6 DEF NamesFree
<1>7. CASE moved = 0
  <2>1. aside' = Aside("wal", wal) /\ wal' = None /\ main' = main
    BY <1>1, <1>7 DEF QuarantineFile, QuarantineOrder
  <2>2. "wal" \in StillToMove /\ "wal" \notin StillToMove' /\ StillToMove' \subseteq StillToMove
    BY <1>2, <1>7 DEF QuarantineOrder
  <2> QED BY <1>5, <1>6, <1>7, <2>1, <2>2
<1>8. CASE moved = 1
  <2>1. UNCHANGED <<main, wal, aside>>
    BY <1>1, <1>8 DEF QuarantineFile, QuarantineOrder
  <2>2. NamesFree'
    BY <1>1, <1>2, <1>3, <1>4, <1>8, <2>1 DEF NamesFree
  <2> QED BY <2>1, <2>2
<1>9. CASE moved = 2
  <2>1. aside' = Aside("main", main) /\ main' = None /\ wal' = wal
    BY <1>1, <1>9 DEF QuarantineFile, QuarantineOrder
  <2>2. "main" \in StillToMove /\ StillToMove' = {}
    BY <1>2, <1>9
  <2> QED BY <1>3, <1>5, <1>6, <1>9, <2>1, <2>2
<1> QED BY <1>1, <1>7, <1>8, <1>9

LEMMA NamesNext ==
    ASSUME Inv, Path, Reasons, Dated, [Next]_vars, NamesFree,
           clock'.time < MaxClock, clock.back = 0, clock'.back = 0
    PROVE  NamesFree'
<1>0. /\ clock.wall \in Int /\ clock'.wall \in Int
      /\ \A a \in aside : a.suffix.at \in Int /\ a.suffix.at <= clock.wall
  BY ClockNext DEF Dated
<1>1. CASE QuarantineFile
  BY <1>1, QuarantineNames
<1>2. CASE UNCHANGED vars
  BY <1>2 DEF vars, disk, NamesFree, MayBeIncompatible, StillToMove, Suffix
<1>3. CASE InsertRun
  BY <1>3, ActorsFacts DEF InsertRun, Goes, Becomes, NamesFree, MayBeIncompatible, Inv, TypeOK
<1>4. CASE Elsewhere
  <2>1. aside' = aside
    BY <1>4, ElsewherePath
  <2>2. CASE StartCollector
    <3>1. clock'.wall = clock.wall + 1 /\ stage'["collector"] = "open"
      <4>1. clock.time < MaxClock /\ clock' = Tick /\ stage'["collector"] = "open"
        BY <2>2, ClockNext, ActorsFacts, ConstantFacts DEF StartCollector, Goes, Becomes, Inv, TypeOK
      <4> QED BY <4>1 DEF Tick, Inv, TypeOK
    <3>2. \A a \in aside : a.suffix.at # clock'.wall
      BY <1>0, <3>1
    <3> QED BY <2>1, <3>1, <3>2 DEF NamesFree, MayBeIncompatible
  <2>3. CASE MissedTick
    <3>1. stage'["collector"] = "down"
      BY <2>3 DEF MissedTick
    <3> QED BY <3>1 DEF NamesFree, MayBeIncompatible
  <2>4. CASE SetClock
    <3>1. PICK step \in ClockSteps :
             clock' = [clock EXCEPT !.wall = @ + step, !.back = @ + IF step < 0 THEN -step ELSE 0]
      BY <2>4 DEF SetClock
    <3>2. step \in Int /\ ~(step < 0)
      BY <3>1, ConstantFacts DEF Inv, TypeOK
    <3>3. UNCHANGED <<stage, why, moved>>
      BY <2>4 DEF SetClock
    <3>4. CASE step = 0
      <4>1. clock'.wall = clock.wall
        BY <3>1, <3>4 DEF Inv, TypeOK
      <4> QED BY <2>1, <3>3, <4>1 DEF NamesFree, MayBeIncompatible, StillToMove, Suffix
    <3>5. CASE step # 0
      <4>1. clock'.wall > clock.wall
        BY <3>1, <3>2, <3>5 DEF Inv, TypeOK
      <4>2. \A a \in aside : a.suffix.at # clock'.wall
        BY <1>0, <4>1
      <4> QED BY <2>1, <4>2 DEF NamesFree, Suffix
    <3> QED BY <3>4, <3>5
  <2>5. CASE ~StartCollector /\ ~MissedTick /\ ~SetClock
    <3>1. clock' = clock
      BY <1>4, <2>5 DEF Elsewhere, OpenStep, OpenOnce, OpenMalformed, NeedsQuarantine,
         CloseIncompatible, Stamp, GivesUp, Quarantined, Reopen, ReopenMalformed,
         CollectorEnds, StartDaemon, PoolConnects, PowerCut, Damage
    <3>2. stage'["collector"] = "open" => stage["collector"] = "open"
      BY <1>4, <2>5, ActorsFacts DEF Elsewhere, OpenStep, OpenOnce, OpenMalformed,
         NeedsQuarantine, CloseIncompatible, Stamp, GivesUp, Quarantined, Reopen,
         ReopenMalformed, CollectorEnds, StartDaemon, PoolConnects, PowerCut, Damage,
         Goes, Becomes, Inv, TypeOK
    <3>3. MayBeIncompatible' => MayBeIncompatible \/ stage["collector"] = "open"
      BY <1>4, <2>5, ActorsFacts DEF Elsewhere, OpenStep, OpenOnce, OpenMalformed,
         NeedsQuarantine, CloseIncompatible, Stamp, GivesUp, Quarantined, Reopen,
         ReopenMalformed, CollectorEnds, StartDaemon, PoolConnects, PowerCut, Damage,
         Goes, Becomes, SelfHeals, Inv, TypeOK, Reasons, MayBeIncompatible
    <3>4. stage'["collector"] = "quarantine" =>
             \/ stage["collector"] = "quarantine" /\ why' = why /\ moved' = moved
             \/ stage["collector"] = "open"
             \/ stage["collector"] = "close" /\ why' = "incompatible"
      BY <1>4, <2>5, ActorsFacts DEF Elsewhere, OpenStep, OpenOnce, OpenMalformed,
         NeedsQuarantine, CloseIncompatible, Stamp, GivesUp, Quarantined, Reopen,
         ReopenMalformed, CollectorEnds, StartDaemon, PoolConnects, PowerCut, Damage,
         Goes, Becomes, SelfHeals, Inv, TypeOK, Reasons
    <3>5. ASSUME stage'["collector"] = "quarantine", NEW a \in aside, a.suffix = Suffix'
          PROVE  a.name \notin StillToMove'
      <4>1. CASE stage["collector"] = "quarantine" /\ why' = why /\ moved' = moved
        BY <3>1, <3>5, <4>1 DEF NamesFree, Suffix, StillToMove
      <4>2. CASE stage["collector"] = "open"
        BY <3>1, <3>5, <4>2 DEF NamesFree, Suffix
      <4>3. CASE stage["collector"] = "close" /\ why' = "incompatible"
        BY <3>1, <3>5, <4>3 DEF NamesFree, Suffix, MayBeIncompatible
      <4> QED BY <3>4, <3>5, <4>1, <4>2, <4>3
    <3> QED BY <2>1, <3>1, <3>2, <3>3, <3>5 DEF NamesFree
  <2> QED BY <2>2, <2>3, <2>4, <2>5
<1> QED BY <1>1, <1>2, <1>3, <1>4, NextSplits

RowsAside(d) == \E a \in aside : a.file.db = d /\ "rows" \in a.file.holds

\* HistoryKept, wherever the clock is set.
Kept == \A d \in Dbs : lastRun[d] # None => RowsAtPath(d) \/ RowsAside(d)

LEMMA KeptNext ==
    ASSUME Inv, Path, Reasons, NamesFree, Kept, [Next]_vars
    PROVE  Kept'
<1> SUFFICES ASSUME NEW d \in Dbs, lastRun'[d] # None
             PROVE  RowsAtPath(d)' \/ RowsAside(d)'
  BY DEF Kept
<1>1. lastRun[d] # None => RowsAtPath(d) \/ RowsAside(d)
  BY DEF Kept
<1>2. CASE UNCHANGED vars
  BY <1>1, <1>2 DEF vars, disk, RowsAtPath, RowsAside
<1>3. CASE Elsewhere
  <2>1. Stays /\ UNCHANGED <<aside, lastRun>>
    BY <1>3, ElsewherePath
  <2> QED BY <1>1, <2>1 DEF Stays, RowsAside
<1>4. CASE InsertRun
  <2>1. /\ Stays /\ main # None
        /\ lastRun' # lastRun => /\ lastRun' = [lastRun EXCEPT ![main.db] = clock.wall]
                                 /\ RowsAtPath(main.db)'
    BY <1>4, InsertRunPath
  <2>2. aside' = aside /\ main' = main
    BY <1>4 DEF InsertRun
  <2>3. CASE lastRun'[d] = lastRun[d]
    BY <1>1, <2>1, <2>2, <2>3 DEF Stays, RowsAside
  <2>4. CASE lastRun'[d] # lastRun[d]
    <3>1. main.db = d
      BY <2>1, <2>4 DEF Inv, TypeOK
    <3> QED BY <2>1, <2>2, <2>4, <3>1 DEF RowsAtPath
  <2> QED BY <2>3, <2>4
<1>5. CASE QuarantineFile
  <2>1. lastRun' = lastRun
    BY <1>5 DEF QuarantineFile
  <2>2. /\ aside \subseteq aside'
        /\ \/ /\ main' = main /\ wal' = wal /\ aside' = aside
           \/ /\ moved = 0 /\ main' = main /\ wal' = None
              /\ wal # None => \E a \in aside' : a.file = wal
           \/ /\ moved = 2 /\ main' = None /\ wal' = wal
              /\ main # None => \E a \in aside' : a.file = main
    BY <1>5, QuarantineNames
  <2> QED BY <1>1, <2>1, <2>2 DEF RowsAtPath, RowsAside
<1> QED BY <1>2, <1>3, <1>4, <1>5, NextSplits

\* The inductive invariant: the last two until time stops or the clock is set back.
Safekept ==
    /\ Path /\ Reasons /\ Dated
    /\ clock.time < MaxClock /\ clock.back = 0 => NamesFree /\ Kept

LEMMA SafekeptInit == Init => Safekept
<1> SUFFICES ASSUME Init PROVE Safekept
  OBVIOUS
<1>1. /\ aside = {} /\ moved = 0
      /\ stage["collector"] = "down"
  BY ActorsFacts DEF Init
<1>2. \/ main = None /\ wal = None
      \/ /\ main # None /\ main.db = 1
         /\ wal = None \/ (wal # None /\ wal.db = 1 /\ wal.holds = {"rows"})
  <2>1. ASSUME NEW facts \in SUBSET Facts
        PROVE  File(1, facts) # None /\ File(1, facts).db = 1 /\ File(1, facts).holds = facts
    <3>1. 1 \in Dbs
      BY OpenStoreAssumption DEF Dbs
    <3> QED BY <3>1, FileTypes, ConstantFacts
  <2>2. {{"legacy"}, {"legacy", "rows"}, {"tables", "rows", "stamp"}, {"rows"}}
           \subseteq SUBSET Facts
    BY DEF Facts
  <2>3. /\ {"rows"} \in SUBSET Facts
        /\ \A facts \in {{"legacy"}, {"legacy", "rows"}, {"tables", "rows", "stamp"}} :
              facts \in SUBSET Facts
    BY <2>2
  <2> QED BY <2>1, <2>3 DEF Init
<1>3. Path /\ OwnRows
  <2>1. "rows" \in Holds(wal) => main # None /\ wal.db = main.db
    BY <1>2 DEF Holds
  <2> QED BY <1>1, <2>1 DEF Path, AtWork, OwnRows, Working
<1>4. Reasons
  BY <1>1 DEF Reasons
<1>5. \A d \in Dbs : lastRun[d] # None => lastRun[d] = 0 /\ d = 1 /\ "rows" \in Seen
  BY DEF Init
<1>6. Dated
  BY <1>1 DEF Dated
<1>7. NamesFree
  BY <1>1 DEF NamesFree, MayBeIncompatible
<1>8. "rows" \in Seen => main # None /\ main.db = 1 /\ RowsAtPath(1)
  <2>1. "rows" \in Seen => "rows" \in Holds(main) \/ "rows" \in Holds(wal)
    BY DEF Seen, SeenIn
  <2> QED BY <1>2, <2>1 DEF Holds, RowsAtPath
<1>9. Kept
  BY <1>5, <1>8 DEF Kept
<1> QED BY <1>3, <1>4, <1>6, <1>7, <1>9 DEF Safekept

LEMMA SafekeptNext == Inv /\ Safekept /\ [Next]_vars => Safekept'
<1> SUFFICES ASSUME Inv, Safekept, [Next]_vars PROVE Safekept'
  OBVIOUS
<1>1. Path /\ Reasons /\ Dated
  BY DEF Safekept
<1>2. Path' /\ Reasons' /\ Dated'
  BY <1>1, PathNext, ReasonsNext, DatedNext
<1>3. ASSUME clock'.time < MaxClock, clock'.back = 0 PROVE NamesFree' /\ Kept'
  <2>1. clock.time < MaxClock /\ clock.back = 0
    BY <1>3, ClockNext, ConstantFacts
  <2>2. NamesFree /\ Kept
    BY <2>1 DEF Safekept
  <2> QED BY <1>1, <1>3, <2>1, <2>2, NamesNext, KeptNext
<1> QED BY <1>2, <1>3 DEF Safekept

LEMMA SafekeptAlways == Spec => []Safekept
<1> QED BY SafekeptInit, SafekeptNext, InvAlways, PTL DEF Spec

\* No row is ever destroyed, however many databases are set aside and wherever
\* a quarantine dies (quarantineFile's "renamed, never deleted"), as long as
\* the wall clock is not set back; until the model's time stands still at its
\* bound and two quarantines share a second.
THEOREM HistoryKeptHolds == Spec => [](clock.time < MaxClock => HistoryKept)
<1>1. Safekept => (clock.time < MaxClock => HistoryKept)
  BY DEF Safekept, Kept, HistoryKept, RowsAtPath, RowsAside
<1> QED BY <1>1, SafekeptAlways, PTL

(***************************************************************************)
(* A daemon left behind.  What the wall clock showed when a run was        *)
(* recorded is not ahead of what it shows by more than it was set back     *)
(* since, and no run is recorded in a database whose main file has left.   *)
(***************************************************************************)
LeftBehind ==
    /\ main # None => main.db <= created /\ left[main.db] = None
    /\ \A d \in Dbs :
          /\ left[d] # None => d <= created /\ left[d] <= clock.time
          /\ lastRun[d] # None =>
                /\ lastRun[d] <= clock.wall + clock.back
                /\ (main # None /\ main.db = d) \/ left[d] # None
                /\ left[d] # None =>
                      lastRun[d] <= left[d] + clock.wall - clock.time + clock.back

LEMMA LeftBehindInit == Init => LeftBehind
<1> SUFFICES ASSUME Init PROVE LeftBehind
  OBVIOUS
<1>1. 1 \in Dbs /\ MaxDbs \in Nat
  BY OpenStoreAssumption DEF Dbs
<1>2. \/ main = None /\ wal = None
      \/ main # None /\ main.db = 1 /\ created = 1
  <2>1. ASSUME NEW facts \in SUBSET Facts PROVE File(1, facts) # None /\ File(1, facts).db = 1
    BY <1>1, FileTypes, ConstantFacts
  <2>2. \A facts \in {{"legacy"}, {"legacy", "rows"}, {"tables", "rows", "stamp"}} :
           facts \in SUBSET Facts
    BY DEF Facts
  <2> QED BY <2>1, <2>2 DEF Init
<1>3. main = None /\ wal = None => "rows" \notin Seen
  BY DEF Seen, SeenIn, Holds, Foreign
<1>4. /\ left = [d \in Dbs |-> None] /\ clock.wall = 0 /\ clock.back = 0
      /\ \A d \in Dbs : lastRun[d] # None => lastRun[d] = 0 /\ d = 1 /\ "rows" \in Seen
  BY DEF Init
<1> QED BY <1>1, <1>2, <1>3, <1>4 DEF LeftBehind

\* A new database has a number of its own.
LEMMA CreatedKeeps ==
    ASSUME Inv, LeftBehind, FindOrCreate
    PROVE  /\ main' # None /\ main'.db \in Dbs /\ main'.db <= created' /\ left[main'.db] = None
           /\ created \in Nat /\ created' \in Nat /\ created <= created'
           /\ main # None => main'.db = main.db
<1>1. Found.db \in Dbs /\ main' = Found /\ main' # None /\ (main # None => Found = main)
  BY FindOrCreateStays
<1>2. created \in Nat
  BY ConstantFacts DEF Inv, TypeOK
<1>3. CASE main = None
  <2>1. Found.db = created + 1 /\ created' = created + 1
    BY <1>3 DEF Found, File, FindOrCreate
  <2>2. \A d \in Dbs : left[d] # None => d <= created
    BY DEF LeftBehind
  <2>3. left[Found.db] = None
    BY <1>1, <1>2, <2>1, <2>2
  <2> QED BY <1>1, <1>2, <1>3, <2>1, <2>3
<1>4. CASE main # None
  BY <1>1, <1>2, <1>4 DEF LeftBehind, FindOrCreate
<1> QED BY <1>3, <1>4

LEMMA LeftBehindNext == Inv /\ Path /\ LeftBehind /\ [Next]_vars => LeftBehind'
<1> SUFFICES ASSUME Inv, Path, LeftBehind, [Next]_vars PROVE LeftBehind'
  OBVIOUS
<1>1. /\ {clock.time, clock'.time, clock.back, clock'.back} \subseteq Nat
      /\ {clock.wall, clock'.wall} \subseteq Int
      /\ clock.time <= clock'.time
      /\ clock.wall + clock.back - clock.time <= clock'.wall + clock'.back - clock'.time
      /\ clock.wall + clock.back <= clock'.wall + clock'.back
  BY ClockNext
<1>2. /\ \A d \in Dbs : left[d] # None => left[d] \in Nat
      /\ \A d \in Dbs : lastRun[d] # None => lastRun[d] \in Int
      /\ \A d \in Dbs : d \in Nat
      /\ created \in Nat /\ (main # None => main.db \in Dbs)
  BY ConstantFacts DEF Inv, TypeOK, Dbs, Files
\* A step that moves no main file away and records no run.
<1>3. ASSUME left' = left, lastRun' = lastRun, main # None => main' # None /\ main'.db = main.db,
             main' # None => main'.db <= created' /\ left[main'.db] = None,
             created' \in Nat, created <= created'
      PROVE  LeftBehind'
  <2>1. ASSUME NEW d \in Dbs, left[d] # None
        PROVE  d <= created' /\ left[d] <= clock'.time
    BY <1>1, <1>2, <1>3, <2>1 DEF LeftBehind
  <2>2. ASSUME NEW d \in Dbs, lastRun[d] # None
        PROVE  /\ lastRun[d] <= clock'.wall + clock'.back
               /\ (main' # None /\ main'.db = d) \/ left[d] # None
    BY <1>1, <1>2, <1>3, <2>2 DEF LeftBehind
  <2>3. ASSUME NEW d \in Dbs, lastRun[d] # None, left[d] # None
        PROVE  lastRun[d] <= left[d] + clock'.wall - clock'.time + clock'.back
    <3>1. /\ lastRun[d] \in Int /\ left[d] \in Nat
          /\ lastRun[d] <= left[d] + clock.wall - clock.time + clock.back
      BY <1>2, <2>3 DEF LeftBehind
    <3> QED BY <1>1, <3>1
  <2> QED BY <1>3, <2>1, <2>2, <2>3 DEF LeftBehind
<1>4. CASE Elsewhere
  <2>1. Stays /\ UNCHANGED <<left, lastRun>>
    <3>1. UNCHANGED <<left, lastRun>>
      BY <1>4 DEF Elsewhere, OpenStep, OpenOnce, OpenMalformed, NeedsQuarantine,
         CloseIncompatible, Stamp, GivesUp, StartCollector, Quarantined, Reopen, ReopenMalformed,
         CollectorEnds, StartDaemon, MissedTick, SetClock, PoolConnects, PowerCut, Damage, disk
    <3> QED BY <1>4, <3>1, ElsewherePath
  <2>2. CASE FindOrCreate
    BY <1>3, <2>1, <2>2, CreatedKeeps
  <2>3. CASE ~FindOrCreate
    <3>1. created' = created /\ (main = None => main' = None)
      BY <1>4, <2>3 DEF Elsewhere, OpenStep, OpenOnce, OpenMalformed, Connect, NeedsQuarantine,
         CloseIncompatible, Close, AtPath, Stamp, GivesUp, StartCollector, Quarantined, Reopen,
         ReopenMalformed, CollectorEnds, StartDaemon, MissedTick, SetClock, PoolConnects,
         PowerCut, Damage, disk
    <3> QED BY <1>2, <1>3, <2>1, <3>1 DEF LeftBehind, Stays
  <2> QED BY <2>2, <2>3
<1>5. CASE InsertRun
  <2>1. /\ main # None /\ main' = main /\ left' = left /\ created' = created /\ clock' = clock
        /\ lastRun' = lastRun \/ lastRun' = [lastRun EXCEPT ![main.db] = clock.wall]
    BY <1>5, InsertRunPath DEF InsertRun
  <2>2. CASE lastRun' = lastRun
    BY <1>2, <1>3, <2>1, <2>2 DEF LeftBehind
  <2>3. CASE lastRun' = [lastRun EXCEPT ![main.db] = clock.wall]
    <3>1. /\ lastRun'[main.db] = clock.wall /\ left[main.db] = None
          /\ \A d \in Dbs : d # main.db => lastRun'[d] = lastRun[d]
      BY <1>2, <2>1, <2>3 DEF LeftBehind, Inv, TypeOK
    <3>2. clock.wall <= clock.wall + clock.back
      BY <1>1
    <3> QED BY <2>1, <3>1, <3>2 DEF LeftBehind
  <2> QED BY <2>1, <2>2, <2>3
<1>6. CASE QuarantineFile
  <2>1. lastRun' = lastRun /\ created' = created /\ clock' = clock
    BY <1>6 DEF QuarantineFile
  <2>2. \/ main' = main /\ left' = left
        \/ /\ main' = None
           /\ left' = IF main = None THEN left ELSE [left EXCEPT ![main.db] = clock.time]
    <3>1. moved \in {0, 1, 2} /\ moved' = moved + 1
      BY <1>6 DEF QuarantineFile, Inv, TypeOK
    <3>2. CASE moved = 0
      BY <1>6, <3>1, <3>2 DEF QuarantineFile, QuarantineOrder
    <3>3. CASE moved = 1
      BY <1>6, <3>1, <3>3 DEF QuarantineFile, QuarantineOrder
    <3>4. CASE moved = 2
      <4>1. main' = None /\ left' = IF main = None THEN left ELSE [left EXCEPT ![main.db] = clock.time]
        BY <1>6, <3>1, <3>4 DEF QuarantineFile, QuarantineOrder
      <4> QED BY <4>1
    <3> QED BY <3>1, <3>2, <3>3, <3>4
  <2>3. CASE main' = main /\ left' = left
    BY <1>2, <1>3, <2>1, <2>3 DEF LeftBehind
  <2>4. CASE main' = None /\ main = None /\ left' = left
    BY <1>2, <1>3, <2>1, <2>4 DEF LeftBehind
  <2>5. CASE main' = None /\ main # None /\ left' = [left EXCEPT ![main.db] = clock.time]
    <3>1. /\ left'[main.db] = clock.time /\ clock.time # None
          /\ \A d \in Dbs : d # main.db => left'[d] = left[d]
      BY <1>1, <1>2, <2>5, ConstantFacts DEF Inv, TypeOK
    <3>2. main.db <= created
      BY <2>5 DEF LeftBehind
    <3>3. ASSUME lastRun[main.db] # None
          PROVE  lastRun[main.db] <= clock.time + clock.wall - clock.time + clock.back
      <4>1. lastRun[main.db] \in Int /\ lastRun[main.db] <= clock.wall + clock.back
        BY <1>2, <2>5, <3>3 DEF LeftBehind
      <4> QED BY <1>1, <4>1
    <3>4. clock.time <= clock.time
      BY <1>1
    <3>5. ASSUME NEW d \in Dbs
          PROVE  /\ left'[d] # None => d <= created /\ left'[d] <= clock.time
                 /\ lastRun[d] # None =>
                       /\ lastRun[d] <= clock.wall + clock.back
                       /\ left'[d] # None
                       /\ lastRun[d] <= left'[d] + clock.wall - clock.time + clock.back
      <4>1. CASE d = main.db
        BY <3>1, <3>2, <3>3, <3>4, <4>1 DEF LeftBehind
      <4>2. CASE d # main.db
        BY <3>1, <4>2 DEF LeftBehind
      <4> QED BY <4>1, <4>2
    <3> QED BY <2>1, <2>5, <3>5 DEF LeftBehind
  <2> QED BY <2>2, <2>3, <2>4, <2>5
<1>7. CASE UNCHANGED vars
  BY <1>2, <1>3, <1>7 DEF vars, disk, LeftBehind
<1> QED BY <1>4, <1>5, <1>6, <1>7, NextSplits

\* A daemon left behind on a database that was set aside stops calling it fresh
\* within StaleAfter of the quarantine, and what the wall clock was set back
\* besides (freshnessProbe.CheckUP).
THEOREM StaleIsNoticedHolds == Spec => []StaleIsNoticed
<1>1. Inv /\ LeftBehind => StaleIsNoticed
  <2> SUFFICES ASSUME Inv, LeftBehind, NEW d \in conn["daemon"], Fresh(d),
                      ~(main # None /\ main.db = d)
               PROVE  left[d] # None /\ clock.time - left[d] <= StaleAfter + clock.back
    BY DEF StaleIsNoticed
  <2>1. d \in Dbs /\ lastRun[d] # None /\ clock.wall - lastRun[d] <= StaleAfter
    BY ActorsFacts DEF Fresh, Inv, TypeOK
  <2>2. left[d] # None /\ lastRun[d] <= left[d] + clock.wall - clock.time + clock.back
    BY <2>1 DEF LeftBehind
  <2>3. /\ left[d] \in Nat /\ lastRun[d] \in Int /\ StaleAfter \in Nat
        /\ clock.time \in Nat /\ clock.wall \in Int /\ clock.back \in Nat
    BY <2>1, <2>2, ConstantFacts, OpenStoreAssumption DEF Inv, TypeOK
  <2> QED BY <2>1, <2>2, <2>3
<1>2. Inv /\ Safekept /\ LeftBehind /\ [Next]_vars => LeftBehind'
  BY LeftBehindNext DEF Safekept
<1> QED BY <1>1, <1>2, LeftBehindInit, InvAlways, SafekeptAlways, PTL DEF Spec
============================================================================
