-------------------------- MODULE CollectorProofs --------------------------
(***************************************************************************)
(* The run boundary and the flock, for any number of processes, runs,      *)
(* readers and clock readings.  Every step of the collector changes the    *)
(* tables in one of five ways (StoreStep); which of them a process may     *)
(* take follows from its holding the flock.  Runs are moved by what        *)
(* started_at says, so the clock may do as it likes: that a rollover takes *)
(* no run that is still open rests on the flock alone.                     *)
(***************************************************************************)
EXTENDS Collector, TLAPS

Tables == [Kinds -> SUBSET Rows]
Open == {"checks", "telemetry", "decide"}

\* Whoever is past acquireLock holds the flock.
Holding == \A p \in Procs : stage[p] # "idle" => lock = p

\* A process has taken the clock reading it is about to use, its workers run
\* in collectTelemetry only, and it stamps after its VACUUM.
Busy == \A p \in Procs :
    /\ (\E w \in Workers : worker[p][w] # "done") => stage[p] = "telemetry"
    /\ stage[p] \in {"rollover", "prune", "insert", "stamp"} => at[p] \in Times
    /\ stage[p] = "stamp" => p \in vacuumed

\* What is recorded of a run besides its tier: ids come from minted, started_at
\* is set, a runs row is alone, and samples come with their host row.
Recorded ==
    /\ \A x \in hot["runs"] \cup arch["runs"] :
          x.n = 0 /\ x.run <= minted /\ started[x.run] \in Times
    /\ RunsOf(hot["metrics"]) \subseteq RunsOf(hot["host"])

Inv == TypeOK /\ Holding /\ Busy /\ Recorded /\ RunBoundary /\ OpenRunIsHot

(***************************************************************************)
(* The ways in which the tables change.                                    *)
(***************************************************************************)
Kept == UNCHANGED store

Inserted(r) ==
    /\ minted + 1 = r /\ r \in RunIds /\ minted' = r
    /\ hot' \in Tables /\ hot'["runs"] = hot["runs"] \cup {Row(r, 0)}
    /\ \A k \in Kinds \ {"runs"} : hot'[k] = hot[k]
    /\ started' \in [RunIds -> Times \cup {None}] /\ started'[r] \in Times
    /\ \A s \in RunIds \ {r} : started'[s] = started[s]
    /\ UNCHANGED arch

Gathered(r) ==
    /\ r \in RunsOf(hot["runs"])
    /\ hot' \in Tables /\ hot'["runs"] = hot["runs"]
    /\ \A k \in Kinds : /\ hot[k] \subseteq hot'[k]
                        /\ \A x \in hot'[k] : x \in hot[k] \/ x.run = r
    /\ hot'["metrics"] # hot["metrics"] => r \in RunsOf(hot'["host"])
    /\ UNCHANGED <<arch, started, minted>>

Archived(aged) ==
    /\ aged \subseteq RunsOf(hot["runs"])
    /\ hot' \in Tables /\ arch' \in Tables
    /\ \A k \in Kinds : hot'[k] = {x \in hot[k] : x.run \notin aged}
    /\ \A k \in Kinds : arch'[k] = arch[k] \cup {x \in hot[k] : x.run \in aged}
    /\ UNCHANGED <<started, minted>>

Pruned(aged) ==
    /\ aged \subseteq RunsOf(arch["runs"])
    /\ arch' \in Tables
    /\ \A k \in Kinds : arch'[k] = {x \in arch[k] : x.run \notin aged}
    /\ UNCHANGED <<hot, started, minted>>

StoreStep ==
    \/ Kept
    \/ \E r \in RunIds : Inserted(r) \/ Gathered(r)
    \/ \E aged \in SUBSET RunIds : Archived(aged) \/ Pruned(aged)

\* What the assumptions on the constants say, fact by fact.
LEMMA ConstantFacts ==
    /\ \A t \in Times : t \in Int
    /\ Times \subseteq Nat /\ HotWindow \in Nat /\ Retention \in Nat /\ VacuumInterval \in Nat
    /\ MaxProcs \in Nat /\ MaxRuns \in Nat /\ NumChecks \in Nat /\ None \notin Int
BY CollectorAssumption

\* The deletes of a rollover or a prune take exactly the aged runs' rows.
LEMMA DeleteAgedRows ==
    ASSUME NEW tables \in Tables, NEW cutoff \in Int,
           \A x \in tables["runs"] : started[x.run] \in Times
    PROVE  /\ Aged(tables, cutoff) \subseteq RunsOf(tables["runs"])
           /\ Aged(tables, cutoff) \in SUBSET RunIds
           /\ DeleteAged(tables, cutoff) \in Tables
           /\ \A k \in Kinds : DeleteAged(tables, cutoff)[k] =
                                  {x \in tables[k] : x.run \notin Aged(tables, cutoff)}
<1> DEFINE aged == Aged(tables, cutoff)
<1>1. aged \subseteq RunsOf(tables["runs"]) /\ aged \in SUBSET RunIds
  BY DEF Aged, RunsOf, Tables, Kinds, Rows
<1>2. \A x \in tables["runs"] : x.run \in aged <=> ~(started[x.run] >= cutoff)
  <2>1. \A x \in tables["runs"] : started[x.run] \in Int
    BY ConstantFacts
  <2>2. \A x \in tables["runs"] : started[x.run] < cutoff <=> ~(started[x.run] >= cutoff)
    BY <2>1
  <2> QED BY <2>2 DEF Aged
<1> DEFINE rest == [k \in Kinds |-> {x \in tables[k] : k = "runs" \/ x.run \notin aged}]
<1>3. DeleteAged(tables, cutoff) = [rest EXCEPT !["runs"] = {x \in @ : started[x.run] >= cutoff}]
  BY DEF DeleteAged, DeleteChildren, DeleteRuns
<1>4. rest \in Tables /\ rest["runs"] = tables["runs"]
  BY DEF Tables, Kinds
<1>5. /\ DeleteAged(tables, cutoff) \in Tables
      /\ DeleteAged(tables, cutoff)["runs"] = {x \in tables["runs"] : started[x.run] >= cutoff}
      /\ \A k \in Kinds \ {"runs"} : DeleteAged(tables, cutoff)[k] = rest[k]
  <2> HIDE DEF rest
  <2> QED BY <1>3, <1>4 DEF Tables, Kinds
<1>6. \A k \in Kinds \ {"runs"} : rest[k] = {x \in tables[k] : x.run \notin aged}
  OBVIOUS
<1> HIDE DEF aged, rest
<1>7. {x \in tables["runs"] : started[x.run] >= cutoff} = {x \in tables["runs"] : x.run \notin aged}
  BY <1>2
<1>8. \A k \in Kinds : DeleteAged(tables, cutoff)[k] = {x \in tables[k] : x.run \notin aged}
  BY <1>5, <1>6, <1>7
<1> QED BY <1>1, <1>5, <1>8 DEF aged

LEMMA RolloverStep ==
    ASSUME Inv, NEW p \in Procs, RolloverToArchive(p)
    PROVE  StoreStep
<1>1. CASE UNCHANGED <<hot, arch>>
  BY <1>1 DEF RolloverToArchive, StoreStep, Kept, store
<1>2. CASE ~UNCHANGED <<hot, arch>>
  <2> DEFINE cutoff == at[p] - HotWindow
             aged == Aged(hot, cutoff)
  <2>1. arch' = CopyOut(hot, arch, cutoff) /\ hot' = DeleteAged(hot, cutoff)
    BY <1>2 DEF RolloverToArchive
  <2>2. hot \in Tables /\ arch \in Tables
    BY DEF Inv, TypeOK, Tables
  <2>3. cutoff \in Int
    <3>1. at[p] \in Times
      BY DEF RolloverToArchive, Goes, Inv, Busy
    <3>2. at[p] \in Int
      BY <3>1, ConstantFacts
    <3>3. HotWindow \in Int /\ Retention \in Int
      BY ConstantFacts
    <3> QED BY <3>2, <3>3
  <2>4. \A x \in hot["runs"] : started[x.run] \in Times
    BY DEF Inv, Recorded
  <2> HIDE DEF cutoff
  <2>5. /\ aged \subseteq RunsOf(hot["runs"]) /\ aged \in SUBSET RunIds
        /\ hot' \in Tables
        /\ \A k \in Kinds : hot'[k] = {x \in hot[k] : x.run \notin aged}
    BY <2>1, <2>2, <2>3, <2>4, DeleteAgedRows
  <2>6. /\ arch' \in Tables
        /\ \A k \in Kinds : arch'[k] = arch[k] \cup {x \in hot[k] : x.run \in aged}
    BY <2>1, <2>2 DEF CopyOut, Tables
  <2>7. Archived(aged)
    BY <2>5, <2>6 DEF Archived, RolloverToArchive
  <2> QED BY <2>5, <2>7 DEF StoreStep
<1> QED BY <1>1, <1>2

LEMMA PruneStep ==
    ASSUME Inv, NEW p \in Procs, PruneArchive(p)
    PROVE  StoreStep
<1>1. CASE UNCHANGED arch
  BY <1>1 DEF PruneArchive, StoreStep, Kept, store
<1>2. CASE ~UNCHANGED arch
  <2> DEFINE cutoff == at[p] - Retention
             aged == Aged(arch, cutoff)
  <2>1. arch' = DeleteAged(arch, cutoff)
    BY <1>2 DEF PruneArchive
  <2>2. cutoff \in Int
    <3>1. at[p] \in Times
      BY DEF PruneArchive, Goes, Inv, Busy
    <3>2. at[p] \in Int
      BY <3>1, ConstantFacts
    <3>3. HotWindow \in Int /\ Retention \in Int
      BY ConstantFacts
    <3> QED BY <3>2, <3>3
  <2>3. arch \in Tables /\ \A x \in arch["runs"] : started[x.run] \in Times
    BY DEF Inv, TypeOK, Tables, Recorded
  <2> HIDE DEF cutoff
  <2>4. /\ aged \subseteq RunsOf(arch["runs"]) /\ aged \in SUBSET RunIds
        /\ arch' \in Tables
        /\ \A k \in Kinds : arch'[k] = {x \in arch[k] : x.run \notin aged}
    BY <2>1, <2>2, <2>3, DeleteAgedRows
  <2>5. Pruned(aged)
    BY <2>4 DEF Pruned, PruneArchive
  <2> QED BY <2>4, <2>5 DEF StoreStep
<1> QED BY <1>1, <1>2


\* The rows a pass writes belong to its own run, which is hot.
LEMMA RowTypes ==
    \A r \in RunIds : \A n \in 0..NumChecks + 1 : Row(r, n) \in Rows /\ Row(r, n).run = r /\ Row(r, n).n = n
BY DEF Row, Rows

LEMMA InsertRunStep ==
    ASSUME Inv, NEW p \in Procs, InsertRun(p)
    PROVE  StoreStep
<1>1. CASE UNCHANGED store
  BY <1>1 DEF StoreStep, Kept
<1>2. CASE ~UNCHANGED store
  <2>1. /\ minted < MaxRuns /\ minted' = NextId
        /\ AddRows("runs", {Row(NextId, 0)})
        /\ started' = [r \in RunIds |-> IF r = NextId THEN at[p] ELSE started[r]]
        /\ stage[p] = "insert" /\ UNCHANGED arch
    BY <1>2 DEF InsertRun, Goes
  <2>2. minted + 1 \in RunIds /\ NextId = minted + 1
    BY <2>1, ConstantFacts DEF Inv, TypeOK, RunIds, NextId
  <2>3. at[p] \in Times
    BY <2>1 DEF Inv, Busy
  <2>4. Row(NextId, 0) \in Rows
    BY <2>2, ConstantFacts, RowTypes
  <2>5. /\ hot' \in Tables /\ hot'["runs"] = hot["runs"] \cup {Row(NextId, 0)}
        /\ \A k \in Kinds \ {"runs"} : hot'[k] = hot[k]
    BY <2>1, <2>4 DEF AddRows, Inv, TypeOK, Tables, Kinds
  <2>6. /\ started' \in [RunIds -> Times \cup {None}] /\ started'[NextId] \in Times
        /\ \A s \in RunIds \ {NextId} : started'[s] = started[s]
    BY <2>1, <2>2, <2>3 DEF Inv, TypeOK
  <2>7. Inserted(NextId)
    BY <2>1, <2>2, <2>5, <2>6 DEF Inserted
  <2> QED BY <2>2, <2>7 DEF StoreStep
<1> QED BY <1>1, <1>2

LEMMA InsertCheckStep ==
    ASSUME Inv, NEW p \in Procs, InsertCheck(p)
    PROVE  StoreStep
<1>1. run[p] \in RunsOf(hot["runs"]) /\ run[p] \in RunIds
  BY DEF InsertCheck, Inv, OpenRunIsHot, TypeOK, RunsOf, Rows, Kinds
<1>2. PICK n \in 1..NumChecks : AddRows("checks", {Row(run[p], n)})
  BY DEF InsertCheck
<1>3. Row(run[p], n) \in Rows /\ Row(run[p], n).run = run[p]
  BY <1>1, <1>2, ConstantFacts, RowTypes
<1>4. Gathered(run[p])
  BY <1>1, <1>2, <1>3 DEF InsertCheck, AddRows, Gathered, Inv, TypeOK, Tables, Kinds
<1> QED BY <1>1, <1>4 DEF StoreStep

LEMMA TakeSnapshotStep ==
    ASSUME Inv, NEW p \in Procs, NEW w \in Workers, TakeSnapshot(p, w)
    PROVE  StoreStep
<1>1. stage[p] = "telemetry"
  BY DEF TakeSnapshot, Inv, Busy
<1>2. run[p] \in RunsOf(hot["runs"]) /\ run[p] \in RunIds
  BY <1>1 DEF Inv, OpenRunIsHot, TypeOK, RunsOf, Rows, Kinds
<1>3. Row(run[p], 1) \in Rows /\ Row(run[p], 1).run = run[p]
  BY <1>2, ConstantFacts, RowTypes
<1>4. CASE SaveMetrics(run[p])
  <2>1. PICK samples \in SUBSET {Row(run[p], 1)} :
           hot' = [hot EXCEPT !["host"] = @ \cup {Row(run[p], 1)}, !["metrics"] = @ \cup samples]
    BY <1>4 DEF SaveMetrics
  <2>2. hot' \in Tables /\ hot'["runs"] = hot["runs"]
    BY <1>3, <2>1 DEF Inv, TypeOK, Tables, Kinds
  <2>3. \A k \in Kinds : /\ hot[k] \subseteq hot'[k]
                         /\ \A x \in hot'[k] : x \in hot[k] \/ x.run = run[p]
    BY <1>3, <2>1 DEF Inv, TypeOK, Kinds
  <2>4. run[p] \in RunsOf(hot'["host"])
    BY <1>3, <2>1 DEF Inv, TypeOK, Kinds, RunsOf
  <2> QED BY <1>2, <2>2, <2>3, <2>4 DEF TakeSnapshot, Gathered, StoreStep
<1>5. CASE SavePings(run[p])
  BY <1>2, <1>3, <1>5
     DEF TakeSnapshot, SavePings, AddRows, Gathered, Inv, TypeOK, Tables, Kinds, StoreStep
<1>6. CASE UNCHANGED hot
  BY <1>6 DEF TakeSnapshot, StoreStep, Kept, store
<1> QED BY <1>4, <1>5, <1>6 DEF TakeSnapshot

\* No other step touches the tables.
LEMMA NextStoreStep ==
    ASSUME Inv, [Next]_vars
    PROVE  StoreStep
<1>1. CASE UNCHANGED vars
  BY <1>1 DEF vars, StoreStep, Kept
<1>2. ASSUME NEW p \in Procs, Start(p) \/ Step(p) \/ InsertCheck(p) \/ Crash(p)
      PROVE  StoreStep
  <2>1. CASE Start(p) \/ Crash(p)
    BY <2>1 DEF Start, Crash, StoreStep, Kept
  <2>2. CASE \/ OpenStore(p) \/ Begin(p) \/ CollectTelemetry(p) \/ TelemetryDone(p) \/ Decide(p)
             \/ MaybeVacuum(p) \/ StampVacuum(p)
    BY <2>2 DEF OpenStore, Begin, CollectTelemetry, TelemetryDone, Decide, MaybeVacuum,
                StampVacuum, StoreStep, Kept
  <2>3. CASE \E w \in Workers : SnapshotTimeout(p, w)
    BY <2>3 DEF SnapshotTimeout, StoreStep, Kept
  <2> QED BY <1>2, <2>1, <2>2, <2>3, RolloverStep, PruneStep, InsertRunStep, InsertCheckStep DEF Step
<1>3. ASSUME NEW p \in Procs, NEW w \in Workers, CollectReturns(p, w) \/ TakeSnapshot(p, w)
      PROVE  StoreStep
  <2>1. CASE CollectReturns(p, w)
    BY <2>1 DEF CollectReturns, StoreStep, Kept
  <2> QED BY <1>3, <2>1, TakeSnapshotStep
<1>4. ASSUME NEW d \in Readers, AskRun(d) \/ AnswerRun(d) \/ AskLatest(d) \/ AnswerLatest(d)
      PROVE  StoreStep
  BY <1>4 DEF AskRun, AnswerRun, AskLatest, AnswerLatest, Asks, Answers, StoreStep, Kept
<1>5. CASE ClockMoves
  BY <1>5 DEF ClockMoves, StoreStep, Kept
<1> QED BY <1>1, <1>2, <1>3, <1>4, <1>5 DEF Next

(***************************************************************************)
(* What the ways to change the tables preserve.                            *)
(***************************************************************************)
LEMMA RecordedKept ==
    ASSUME Inv, StoreStep
    PROVE  Recorded' /\ RunBoundary'
<1>1. CASE Kept
  BY <1>1 DEF Kept, store, Inv, Recorded, RunBoundary, RunsOf
<1>2. ASSUME NEW r \in RunIds, Inserted(r) PROVE Recorded' /\ RunBoundary'
  <2>1. \A x \in hot["runs"] \cup arch["runs"] : x.run <= minted /\ x.run \in RunIds
    BY DEF Inv, Recorded, TypeOK, Rows, Kinds
  <2>2. r \notin RunsOf(hot["runs"]) \cup RunsOf(arch["runs"])
    <3>1. minted \in Int /\ r = minted + 1
      BY <1>2, ConstantFacts DEF Inserted, Inv, TypeOK
    <3> QED BY <2>1, <3>1 DEF RunsOf, RunIds
  <2>3. Row(r, 0).run = r /\ Row(r, 0).n = 0
    BY DEF Row
  <2>4. \A x \in hot["runs"] \cup arch["runs"] : started'[x.run] \in Times
    BY <1>2, <2>1, <2>2 DEF Inserted, Inv, Recorded, RunsOf
  <2>5. minted \in Int /\ minted' = minted + 1 /\ r = minted'
    BY <1>2, ConstantFacts DEF Inserted, Inv, TypeOK
  <2>6. \A x \in hot["runs"] \cup arch["runs"] : x.run <= minted'
    BY <2>1, <2>5 DEF RunIds
  <2>7. hot'["runs"] = hot["runs"] \cup {Row(r, 0)} /\ arch' = arch /\ started'[r] \in Times
    BY <1>2 DEF Inserted
  <2>8. hot'["metrics"] = hot["metrics"] /\ hot'["host"] = hot["host"]
    BY <1>2 DEF Inserted, Kinds
  <2>9. Recorded'
    <3>1. r <= minted'
      BY <2>5 DEF RunIds
    <3>2. \A x \in hot'["runs"] \cup arch'["runs"] : x \in hot["runs"] \cup arch["runs"] \/ x = Row(r, 0)
      BY <2>7
    <3> QED BY <2>3, <2>4, <2>6, <2>7, <2>8, <3>1, <3>2 DEF Inv, Recorded, RunsOf
  <2>10. RunsOf(hot'["runs"]) = RunsOf(hot["runs"]) \cup {r}
    BY <2>3, <2>7 DEF RunsOf
  <2>11. \A k \in Kinds \ {"runs"} : RunsOf(hot'[k]) = RunsOf(hot[k])
    BY <1>2 DEF Inserted
  <2>12. RunBoundary'
    <3>1. RunBoundary
      BY DEF Inv
    <3>2. RunsOf(hot'["runs"]) \cap RunsOf(arch'["runs"]) = {}
      BY <2>2, <2>7, <2>10, <3>1 DEF RunBoundary
    <3>3. ASSUME NEW k \in Kinds
          PROVE  /\ RunsOf(hot'[k]) \subseteq RunsOf(hot'["runs"])
                 /\ RunsOf(arch'[k]) \subseteq RunsOf(arch'["runs"])
      BY <2>7, <2>10, <2>11, <3>1 DEF RunBoundary
    <3> QED BY <3>2, <3>3 DEF RunBoundary, RunsOf
  <2> QED BY <2>9, <2>12
<1>3. ASSUME NEW r \in RunIds, Gathered(r) PROVE Recorded' /\ RunBoundary'
  <2>1. \A k \in Kinds : RunsOf(hot'[k]) \subseteq RunsOf(hot[k]) \cup {r} /\ RunsOf(hot[k]) \subseteq RunsOf(hot'[k])
    BY <1>3 DEF Gathered, RunsOf
  <2>2. RunBoundary'
    BY <1>3, <2>1 DEF Gathered, Inv, RunBoundary
  <2>3. RunsOf(hot'["metrics"]) \subseteq RunsOf(hot'["host"])
    <3>1. RunsOf(hot["host"]) \subseteq RunsOf(hot'["host"])
      BY <2>1 DEF Kinds
    <3>2. RunsOf(hot'["metrics"]) \subseteq RunsOf(hot["metrics"]) \cup {r}
      BY <2>1 DEF Kinds
    <3>3. RunsOf(hot["metrics"]) \subseteq RunsOf(hot["host"])
      BY DEF Inv, Recorded
    <3> QED BY <1>3, <3>1, <3>2, <3>3 DEF Gathered
  <2> QED BY <1>3, <2>2, <2>3 DEF Gathered, Inv, Recorded
<1>4. ASSUME NEW aged \in SUBSET RunIds, Archived(aged) PROVE Recorded' /\ RunBoundary'
  <2>1. \A k \in Kinds : /\ RunsOf(hot'[k]) = RunsOf(hot[k]) \ aged
                         /\ RunsOf(arch'[k]) = RunsOf(arch[k]) \cup (RunsOf(hot[k]) \cap aged)
    BY <1>4 DEF Archived, RunsOf
  <2>2. RunBoundary'
    BY <1>4, <2>1 DEF Archived, Inv, RunBoundary, Kinds
  <2>3. RunsOf(hot'["metrics"]) \subseteq RunsOf(hot'["host"])
    BY <2>1 DEF Inv, Recorded, Kinds
  <2>4. hot'["runs"] \cup arch'["runs"] \subseteq hot["runs"] \cup arch["runs"]
    BY <1>4 DEF Archived, Kinds
  <2> QED BY <1>4, <2>2, <2>3, <2>4 DEF Archived, Inv, Recorded
<1>5. ASSUME NEW aged \in SUBSET RunIds, Pruned(aged) PROVE Recorded' /\ RunBoundary'
  <2>1. \A k \in Kinds : RunsOf(arch'[k]) = RunsOf(arch[k]) \ aged
    BY <1>5 DEF Pruned, RunsOf
  <2>2. RunBoundary'
    BY <1>5, <2>1 DEF Pruned, Inv, RunBoundary, Kinds
  <2>3. arch'["runs"] \subseteq arch["runs"]
    BY <1>5 DEF Pruned, Kinds
  <2> QED BY <1>5, <2>2, <2>3 DEF Pruned, Inv, Recorded
<1> QED BY <1>1, <1>2, <1>3, <1>4, <1>5 DEF StoreStep

(***************************************************************************)
(* The processes.                                                          *)
(***************************************************************************)
ProcType ==
    /\ clock \in Times
    /\ lastVacuum \in Times \cup {None} /\ vacuumed \subseteq Procs
    /\ lock \in Procs \cup {None}
    /\ stage \in [Procs -> Stages]
    /\ at \in [Procs -> Times \cup {None}]
    /\ run \in [Procs -> RunIds \cup {None}]
    /\ worker \in [Procs -> [Workers -> {"done", "waiting", "sent"}]]

PInv == ProcType /\ Holding /\ Busy

LEMMA AllDoneType == AllDone \in [Workers -> {"done", "waiting", "sent"}]
BY DEF AllDone

\* No process has the number None.
LEMMA NoneIsNobody == None \notin Procs /\ None \notin RunIds
BY ConstantFacts DEF Procs, RunIds

\* The end of a process leaves nothing of it.
LEMMA DiesPInv ==
    ASSUME PInv, NEW p \in Procs, Dies(p), UNCHANGED clock,
           lastVacuum' \in Times \cup {None}
    PROVE  PInv'
<1>1. /\ stage' = [stage EXCEPT ![p] = "idle"] /\ run' = [run EXCEPT ![p] = None]
      /\ at' = [at EXCEPT ![p] = None] /\ worker' = [worker EXCEPT ![p] = AllDone]
      /\ vacuumed' = vacuumed \ {p} /\ lock' = IF lock = p THEN None ELSE lock
  BY DEF Dies, Becomes, Forget
<1>2. ProcType'
  BY <1>1, AllDoneType DEF PInv, ProcType, Stages
<1>3. \A q \in Procs \ {p} : /\ stage'[q] = stage[q] /\ at'[q] = at[q]
                             /\ worker'[q] = worker[q] /\ (q \in vacuumed => q \in vacuumed')
  BY <1>1 DEF PInv, ProcType
<1>4. stage'[p] = "idle" /\ worker'[p] = AllDone
  BY <1>1 DEF PInv, ProcType
<1>5. Holding'
  BY <1>1, <1>3, <1>4 DEF PInv, Holding
<1>6. Busy'
  <2>1. \A w \in Workers : worker'[p][w] = "done"
    BY <1>4 DEF AllDone
  <2> QED BY <1>3, <1>4, <2>1 DEF PInv, Busy
<1> QED BY <1>2, <1>5, <1>6 DEF PInv

\* A process that goes on with its pass and takes no clock reading.
LEMMA GoesPInv ==
    ASSUME PInv, NEW p \in Procs, stage[p] # "idle",
           NEW s \in Stages \ {"telemetry", "stamp", "rollover", "insert"},
           Becomes(p, s), stage[p] = "rollover" \/ s # "prune",
           worker[p] = AllDone,
           at' \in {at, [at EXCEPT ![p] = None]}, s = "prune" => at' = at,
           run' \in [Procs -> RunIds \cup {None}],
           UNCHANGED <<clock, lastVacuum, lock, worker, vacuumed>>
    PROVE  PInv'
<1>1. stage' = [stage EXCEPT ![p] = s]
  BY DEF Becomes
<1>2. ProcType'
  BY <1>1 DEF PInv, ProcType
<1>3. Holding'
  BY <1>1 DEF PInv, ProcType, Holding
<1>4. \A q \in Procs \ {p} : stage'[q] = stage[q] /\ at'[q] = at[q]
  BY <1>1 DEF PInv, ProcType
<1>5. stage'[p] = s
  BY <1>1 DEF PInv, ProcType
<1>6. \A w \in Workers : worker[p][w] = "done"
  BY DEF AllDone
<1>7. Busy'
  BY <1>4, <1>5, <1>6 DEF PInv, Busy
<1> QED BY <1>2, <1>3, <1>7 DEF PInv

\* Outside collectTelemetry the workers are done.
LEMMA WorkersDone ==
    ASSUME PInv, NEW p \in Procs, stage[p] # "telemetry"
    PROVE  worker[p] = AllDone
<1>1. worker[p] \in [Workers -> {"done", "waiting", "sent"}] /\ \A w \in Workers : worker[p][w] = "done"
  BY DEF PInv, ProcType, Busy
<1>2. worker[p] = [w \in Workers |-> "done"]
  BY <1>1
<1> QED BY <1>2 DEF AllDone

\* A process that reads the clock as it goes on.
LEMMA ReadsPInv ==
    ASSUME PInv, NEW p \in Procs, stage[p] # "idle", stage[p] # "telemetry",
           NEW s \in {"rollover", "insert", "stamp"}, Becomes(p, s),
           at' = [at EXCEPT ![p] = clock],
           vacuumed' \in {vacuumed, vacuumed \cup {p}}, s = "stamp" => p \in vacuumed',
           UNCHANGED <<clock, lastVacuum, lock, run, worker>>
    PROVE  PInv'
<1>1. stage' = [stage EXCEPT ![p] = s]
  BY DEF Becomes
<1>2. ProcType'
  BY <1>1 DEF PInv, ProcType, Stages
<1>3. Holding'
  BY <1>1 DEF PInv, ProcType, Holding
<1>4. \A q \in Procs \ {p} : /\ stage'[q] = stage[q] /\ at'[q] = at[q]
                             /\ (q \in vacuumed => q \in vacuumed')
  BY <1>1 DEF PInv, ProcType
<1>5. stage'[p] = s /\ at'[p] \in Times
  BY <1>1 DEF PInv, ProcType
<1>6. \A w \in Workers : worker[p][w] = "done"
  BY WorkersDone DEF AllDone
<1>7. Busy'
  BY <1>4, <1>5, <1>6 DEF PInv, Busy
<1> QED BY <1>2, <1>3, <1>7 DEF PInv

\* The workers' own steps.
LEMMA WorkerPInv ==
    ASSUME PInv, NEW p \in Procs, stage[p] = "telemetry",
           NEW ws \in [Workers -> {"done", "waiting", "sent"}],
           worker' = [worker EXCEPT ![p] = ws],
           UNCHANGED <<clock, lastVacuum, lock, stage, at, run, vacuumed>>
    PROVE  PInv'
<1>1. ProcType'
  BY DEF PInv, ProcType
<1>2. Holding' /\ Busy'
  BY DEF PInv, ProcType, Holding, Busy
<1> QED BY <1>1, <1>2 DEF PInv

\* acquireLock lets one process in, and only when nobody is.
LEMMA StartPInv ==
    ASSUME PInv, NEW p \in Procs, Start(p)
    PROVE  PInv'
<1>1. CASE UNCHANGED <<stage, lock>>
  BY <1>1 DEF Start, Locals, PInv, ProcType, Holding, Busy
<1>2. CASE lock = None /\ Goes(p, "idle", "open") /\ lock' = p
  <2>1. \A q \in Procs : stage[q] = "idle"
    BY <1>2, NoneIsNobody DEF PInv, Holding
  <2>2. stage' = [stage EXCEPT ![p] = "open"]
    BY <1>2 DEF Goes, Becomes
  <2>3. ProcType'
    BY <1>2, <2>2 DEF Start, Locals, PInv, ProcType, Stages
  <2>4. Holding' /\ Busy'
    BY <1>2, <2>1, <2>2 DEF Start, Locals, PInv, ProcType, Holding, Busy
  <2> QED BY <2>3, <2>4 DEF PInv
<1> QED BY <1>1, <1>2 DEF Start, AcquireLock

LEMMA StepPInv ==
    ASSUME PInv, Inv, StoreStep, NEW p \in Procs, Step(p) \/ InsertCheck(p) \/ Crash(p)
    PROVE  PInv'
<1>1. CASE OpenStore(p)
  <2>1. CASE stage[p] = "open" /\ Dies(p)
    BY <1>1, <2>1, DiesPInv DEF OpenStore, PInv, ProcType
  <2>2. CASE Goes(p, "open", "rollover") /\ at' = [at EXCEPT ![p] = clock] /\ UNCHANGED <<lock, run, worker, vacuumed>>
    BY <1>1, <2>2, ReadsPInv DEF OpenStore, Goes
  <2> QED BY <1>1, <2>1, <2>2 DEF OpenStore
<1>2. CASE RolloverToArchive(p)
  <2>1. Becomes(p, "prune") /\ stage[p] = "rollover" /\ worker[p] = AllDone
    BY <1>2, WorkersDone DEF RolloverToArchive, Goes
  <2> QED BY <1>2, <2>1, GoesPInv DEF RolloverToArchive, Locals, Stages, PInv, ProcType
<1>3. CASE PruneArchive(p)
  <2>1. Becomes(p, "begin") /\ stage[p] = "prune" /\ worker[p] = AllDone
    BY <1>3, WorkersDone DEF PruneArchive, Goes
  <2> QED BY <1>3, <2>1, GoesPInv DEF PruneArchive, Stages, PInv, ProcType
<1>4. CASE Begin(p)
  BY <1>4, ReadsPInv DEF Begin, Goes
<1>5. CASE InsertRun(p)
  <2>1. PICK s \in {"checks", "decide", "vacuum"} : Becomes(p, s) /\ stage[p] = "insert"
    BY <1>5 DEF InsertRun, Goes
  <2>2. worker[p] = AllDone
    BY <2>1, WorkersDone
  <2>3. run' \in [Procs -> RunIds \cup {None}]
    <3>1. CASE run' = [run EXCEPT ![p] = NextId] /\ minted < MaxRuns
      <4>1. NextId \in RunIds
        BY <3>1, ConstantFacts DEF NextId, RunIds, Inv, TypeOK
      <4> QED BY <3>1, <4>1 DEF PInv, ProcType
    <3>2. CASE run' = run
      BY <3>2 DEF PInv, ProcType
    <3> QED BY <1>5, <3>1, <3>2 DEF InsertRun
  <2> QED BY <1>5, <2>1, <2>2, <2>3, GoesPInv DEF InsertRun, Stages
<1>6. CASE CollectTelemetry(p)
  <2>1. PICK ws \in [Workers -> {"done", "waiting"}] : worker' = [worker EXCEPT ![p] = ws]
    BY <1>6 DEF CollectTelemetry
  <2>2. stage[p] = "checks" /\ stage' = [stage EXCEPT ![p] = "telemetry"]
    BY <1>6 DEF CollectTelemetry, Goes, Becomes
  <2>3. ProcType'
    BY <1>6, <2>1, <2>2 DEF CollectTelemetry, PInv, ProcType, Stages
  <2>4. Holding' /\ Busy'
    BY <1>6, <2>1, <2>2 DEF CollectTelemetry, PInv, ProcType, Holding, Busy
  <2> QED BY <2>3, <2>4 DEF PInv
<1>7. CASE TelemetryDone(p)
  BY <1>7, GoesPInv DEF TelemetryDone, Goes, Locals, Stages, PInv, ProcType
<1>8. CASE Decide(p)
  <2>1. Becomes(p, "vacuum") /\ stage[p] = "decide" /\ worker[p] = AllDone
    BY <1>8, WorkersDone DEF Decide, Goes
  <2> QED BY <1>8, <2>1, GoesPInv DEF Decide, Locals, Stages, PInv, ProcType
<1>9. CASE MaybeVacuum(p)
  <2>1. CASE stage[p] = "vacuum" /\ Dies(p) /\ UNCHANGED lastVacuum
    BY <1>9, <2>1, DiesPInv DEF MaybeVacuum, PInv, ProcType
  <2>2. CASE Vacuum(p) /\ Goes(p, "vacuum", "stamp") /\ at' = [at EXCEPT ![p] = clock]
             /\ UNCHANGED <<lock, run, worker>>
    BY <1>9, <2>2, ReadsPInv DEF MaybeVacuum, Vacuum, Goes
  <2> QED BY <1>9, <2>1, <2>2 DEF MaybeVacuum
<1>10. CASE StampVacuum(p)
  <2>1. lastVacuum' \in Times \cup {None}
    BY <1>10 DEF StampVacuum, PInv, ProcType, Busy
  <2> QED BY <1>10, <2>1, DiesPInv DEF StampVacuum
<1>11. ASSUME NEW w \in Workers, SnapshotTimeout(p, w) PROVE PInv'
  <2>1. stage[p] = "telemetry"
    BY <1>11 DEF SnapshotTimeout, Expires, PInv, Busy
  <2> DEFINE ws == [worker[p] EXCEPT ![w] = "done"]
  <2>2. ws \in [Workers -> {"done", "waiting", "sent"}] /\ worker' = [worker EXCEPT ![p] = ws]
    BY <1>11 DEF SnapshotTimeout, Finished, PInv, ProcType
  <2> QED BY <1>11, <2>1, <2>2, WorkerPInv DEF SnapshotTimeout
<1>12. CASE InsertCheck(p)
  BY <1>12 DEF InsertCheck, proc, PInv, ProcType, Holding, Busy
<1>13. CASE Crash(p)
  BY <1>13, DiesPInv DEF Crash, PInv, ProcType
<1> QED BY <1>1, <1>2, <1>3, <1>4, <1>5, <1>6, <1>7, <1>8, <1>9, <1>10, <1>11, <1>12, <1>13 DEF Step

LEMMA NextPInv ==
    ASSUME Inv, [Next]_vars
    PROVE  PInv'
<1>1. PInv
  BY DEF Inv, TypeOK, PInv, ProcType
<1>2. StoreStep
  BY NextStoreStep
<1>3. CASE UNCHANGED vars
  BY <1>1, <1>3 DEF vars, proc, PInv, ProcType, Holding, Busy
<1>4. ASSUME NEW p \in Procs, NEW w \in Workers, CollectReturns(p, w) \/ TakeSnapshot(p, w)
      PROVE  PInv'
  <2>1. stage[p] = "telemetry"
    BY <1>4 DEF CollectReturns, TakeSnapshot, Inv, Busy
  <2>2. PICK ws \in [Workers -> {"done", "waiting", "sent"}] : worker' = [worker EXCEPT ![p] = ws]
    <3>1. \A v \in {"done", "sent"} : [worker[p] EXCEPT ![w] = v] \in [Workers -> {"done", "waiting", "sent"}]
      BY <1>1 DEF PInv, ProcType
    <3>2. PICK v \in {"done", "sent"} : worker' = [worker EXCEPT ![p][w] = v]
      BY <1>4 DEF CollectReturns, TakeSnapshot, Finished
    <3> QED BY <1>1, <3>1, <3>2 DEF PInv, ProcType
  <2> QED BY <1>1, <1>4, <2>1, <2>2, WorkerPInv DEF CollectReturns, TakeSnapshot
<1>5. ASSUME NEW d \in Readers, AskRun(d) \/ AnswerRun(d) \/ AskLatest(d) \/ AnswerLatest(d)
      PROVE  PInv'
  BY <1>1, <1>5 DEF AskRun, AnswerRun, AskLatest, AnswerLatest, Asks, Answers, proc,
                    PInv, ProcType, Holding, Busy
<1>6. CASE ClockMoves
  BY <1>1, <1>6 DEF ClockMoves, proc, PInv, ProcType, Holding, Busy
<1> QED BY <1>1, <1>2, <1>3, <1>4, <1>5, <1>6, StartPInv, StepPInv DEF Next

(***************************************************************************)
(* The open run.                                                           *)
(***************************************************************************)
\* Only a rollover takes a run from the hot tables.
LEMMA HotGrows ==
    ASSUME Inv, [Next]_vars, \A q \in Procs : ~RolloverToArchive(q)
    PROVE  RunsOf(hot["runs"]) \subseteq RunsOf(hot'["runs"])
<1>1. hot \in [Kinds -> SUBSET Rows]
  BY DEF Inv, TypeOK
<1>2. CASE hot' = hot
  BY <1>2 DEF RunsOf
<1>3. CASE hot' # hot
  <2>1. PICK q \in Procs : InsertRun(q) \/ InsertCheck(q) \/ \E w \in Workers : TakeSnapshot(q, w)
    BY <1>3 DEF Next, Step, vars, store, Start, Crash, OpenStore, PruneArchive, Begin, CollectTelemetry,
         TelemetryDone, Decide, MaybeVacuum, StampVacuum, SnapshotTimeout, CollectReturns,
         AskRun, AnswerRun, AskLatest, AnswerLatest, Asks, Answers, ClockMoves
  <2>2. CASE InsertRun(q)
    BY <1>1, <1>3, <2>2 DEF InsertRun, AddRows, store, Kinds, RunsOf
  <2>3. CASE InsertCheck(q)
    BY <1>1, <2>3 DEF InsertCheck, AddRows, Kinds, RunsOf
  <2>4. ASSUME NEW w \in Workers, TakeSnapshot(q, w)
        PROVE  RunsOf(hot["runs"]) \subseteq RunsOf(hot'["runs"])
    <3>1. hot'["runs"] = hot["runs"]
      BY <1>1, <2>4 DEF TakeSnapshot, SaveMetrics, SavePings, AddRows, Kinds
    <3> QED BY <3>1 DEF RunsOf
  <2> QED BY <2>1, <2>2, <2>3, <2>4
<1> QED BY <1>2, <1>3

LEMMA OpenRunKept ==
    ASSUME Inv, [Next]_vars
    PROVE  OpenRunIsHot'
<1> SUFFICES ASSUME NEW p \in Procs, stage'[p] \in Open
             PROVE  run'[p] \in RunsOf(hot'["runs"])
  BY DEF OpenRunIsHot, Open
<1>1. stage \in [Procs -> Stages] /\ run \in [Procs -> RunIds \cup {None}] /\ lock \in Procs \cup {None}
  BY DEF Inv, TypeOK
<1>2. lock = p \/ stage[p] = "idle"
  BY DEF Inv, Holding
\* While p has its run open, no rollover is under way: p is past its own.
<1>4. CASE run'[p] = run[p] /\ stage[p] \in Open
  <2>1. run[p] \in RunsOf(hot["runs"])
    BY <1>4 DEF Inv, OpenRunIsHot, Open
  <2>2. ~\E q \in Procs : RolloverToArchive(q)
    <3> SUFFICES ASSUME NEW q \in Procs, RolloverToArchive(q) PROVE FALSE
      OBVIOUS
    <3>1. stage[q] = "rollover"
      BY DEF RolloverToArchive, Goes
    <3>2. lock = q /\ lock = p
      BY <1>4, <3>1 DEF Inv, Holding, Open
    <3> QED BY <1>4, <3>1, <3>2 DEF Open
  <2> QED BY <1>4, <2>1, <2>2, HotGrows
<1>5. CASE InsertRun(p)
  <2>1. stage[p] = "insert" /\ stage'[p] # "vacuum"
    BY <1>5 DEF InsertRun, Goes, Open
  <2>2. hot' = [hot EXCEPT !["runs"] = @ \cup {Row(NextId, 0)}] /\ run' = [run EXCEPT ![p] = NextId]
    BY <1>1, <1>5, <2>1 DEF InsertRun, Goes, Becomes, AddRows
  <2>3. Row(NextId, 0) \in hot'["runs"] /\ Row(NextId, 0).run = NextId
    BY <2>2 DEF Inv, TypeOK, Kinds, Row
  <2>4. NextId \in RunsOf(hot'["runs"])
    BY <2>3 DEF RunsOf
  <2> QED BY <1>1, <2>2, <2>4
\* Every other step that ends with p's run open began with it open.
<1>6. CASE ~InsertRun(p)
  <2>1. CASE UNCHANGED vars
    BY <2>1, <1>4 DEF vars, proc
  <2>2. CASE UNCHANGED <<stage, run>>
    BY <2>2, <1>4
  <2>3. ASSUME NEW q \in Procs, Start(q) \/ Step(q) \/ Crash(q)
        PROVE  UNCHANGED <<stage, run>> \/ (run'[p] = run[p] /\ stage[p] \in Open)
    <3>1. CASE Dies(q)
      BY <1>1, <3>1 DEF Dies, Becomes, Forget, Open
    <3>2. CASE q = p
      BY <1>1, <1>6, <2>3, <3>1, <3>2
         DEF Start, AcquireLock, Step, Crash, OpenStore, RolloverToArchive, PruneArchive, Begin,
             CollectTelemetry, TelemetryDone, Decide, MaybeVacuum, StampVacuum, SnapshotTimeout,
             Goes, Becomes, Locals, Open
    <3>3. CASE q # p /\ ~Dies(q)
      <4>1. CASE InsertRun(q)
        <5>1. run' = run \/ run' = [run EXCEPT ![q] = NextId]
          BY <4>1 DEF InsertRun
        <5>2. \E s \in Stages : stage' = [stage EXCEPT ![q] = s]
          BY <4>1 DEF InsertRun, Goes, Becomes, Stages
        <5>3. stage'[p] = stage[p] /\ run'[p] = run[p]
          BY <1>1, <3>3, <5>1, <5>2
        <5> QED BY <5>3
      <4>2. CASE ~InsertRun(q)
        <5>1. run' = run /\ (stage' = stage \/ \E s \in Stages : stage' = [stage EXCEPT ![q] = s])
          BY <2>3, <3>3, <4>2
             DEF Start, AcquireLock, Step, Crash, OpenStore, RolloverToArchive, PruneArchive, Begin,
                 CollectTelemetry, TelemetryDone, Decide, MaybeVacuum, StampVacuum,
                 SnapshotTimeout, Goes, Becomes, Locals, Stages
        <5>2. stage'[p] = stage[p] /\ run'[p] = run[p]
          BY <1>1, <3>3, <5>1
        <5> QED BY <5>2
      <4> QED BY <4>1, <4>2
    <3> QED BY <3>1, <3>2, <3>3
  <2>4. ASSUME NEW q \in Procs, InsertCheck(q) \/ \E w \in Workers : CollectReturns(q, w) \/ TakeSnapshot(q, w)
        PROVE  UNCHANGED <<stage, run>>
    BY <2>4 DEF InsertCheck, CollectReturns, TakeSnapshot, proc
  <2>5. ASSUME NEW d \in Readers, AskRun(d) \/ AnswerRun(d) \/ AskLatest(d) \/ AnswerLatest(d)
        PROVE  UNCHANGED <<stage, run>>
    BY <2>5 DEF AskRun, AnswerRun, AskLatest, AnswerLatest, Asks, Answers, proc
  <2>6. CASE ClockMoves
    BY <2>2, <2>6 DEF ClockMoves, proc
  <2>7. CASE UNCHANGED <<stage, run>> \/ (run'[p] = run[p] /\ stage[p] \in Open)
    BY <1>4, <2>2, <2>7
  <2> QED BY <2>1, <2>3, <2>4, <2>5, <2>6, <2>7 DEF Next
<1> QED BY <1>5, <1>6

\* The typing of the tables, from what a step does to them.
LEMMA StoreType ==
    ASSUME Inv, StoreStep
    PROVE  /\ hot' \in Tables /\ arch' \in Tables
           /\ minted' \in 0..MaxRuns /\ started' \in [RunIds -> Times \cup {None}]
<1>1. /\ hot \in Tables /\ arch \in Tables
      /\ minted \in 0..MaxRuns /\ started \in [RunIds -> Times \cup {None}]
  BY DEF Inv, TypeOK, Tables
<1>2. \A r \in RunIds : r \in 0..MaxRuns
  BY DEF RunIds
<1> QED BY <1>1, <1>2 DEF StoreStep, Kept, store, Inserted, Gathered, Archived, Pruned

LEMMA NextInv ==
    ASSUME Inv, [Next]_vars
    PROVE  Inv'
<1>1. StoreStep
  BY NextStoreStep
<1>2. Recorded' /\ RunBoundary'
  BY <1>1, RecordedKept
<1>3. PInv'
  BY NextPInv
<1>4. OpenRunIsHot'
  BY OpenRunKept
<1>5. TypeOK'
  BY <1>1, <1>3, StoreType DEF TypeOK, PInv, ProcType, Tables
<1> QED BY <1>2, <1>3, <1>4, <1>5 DEF Inv, PInv

LEMMA InitInv == Init => Inv
<1> SUFFICES ASSUME Init PROVE Inv
  OBVIOUS
<1>1. TypeOK
  <2>1. 0 \in 0..MaxRuns
    BY ConstantFacts
  <2>2. worker \in [Procs -> [Workers -> {"done", "waiting", "sent"}]]
    BY AllDoneType DEF Init
  <2> QED BY <2>1, <2>2 DEF Init, TypeOK, Stages
<1>2. Holding /\ Busy
  BY DEF Init, Holding, Busy, AllDone
<1>3. \A k \in Kinds : RunsOf(hot[k]) = {} /\ RunsOf(arch[k]) = {}
  BY DEF Init, RunsOf
<1>4. Recorded
  BY <1>3 DEF Init, Recorded, Kinds
<1>5. RunBoundary /\ OpenRunIsHot
  BY <1>3 DEF Init, RunBoundary, OpenRunIsHot, Kinds
<1> QED BY <1>1, <1>2, <1>4, <1>5 DEF Inv

\* The flock, the open run, the run boundary and what each step knows.
THEOREM InvAlways == Spec => []Inv
<1>1. Init => Inv
  BY InitInv
<1>2. Inv /\ [Next]_vars => Inv'
  BY NextInv
<1> QED BY <1>1, <1>2, PTL DEF Spec

\* The type invariant, for any number of processes, runs and clock readings.
THEOREM TypeCorrect == Spec => []TypeOK
<1>1. Inv => TypeOK
  BY DEF Inv
<1> QED BY <1>1, InvAlways, PTL

\* A run and its rows are always in one tier, and in the same one
\* (RolloverToArchive, PruneArchive).
THEOREM RunBoundaryHolds == Spec => []RunBoundary
<1>1. Inv => RunBoundary
  BY DEF Inv
<1> QED BY <1>1, InvAlways, PTL

\* The row of a run under way stays in the hot table whatever the clock does
\* and however many collectors cron starts (acquireLock before everything).
THEOREM OpenRunHolds == Spec => []OpenRunIsHot
<1>1. Inv => OpenRunIsHot
  BY DEF Inv
<1> QED BY <1>1, InvAlways, PTL

\* last_vacuum_at changes only to the time of a VACUUM that completed
\* (MaybeVacuum).
THEOREM VacuumStampHolds == Spec => VacuumStampHonest
<1>1. Inv /\ [Next]_vars => [\E p \in vacuumed : lastVacuum' = at[p]]_lastVacuum
  <2> SUFFICES ASSUME Inv, [Next]_vars, lastVacuum' # lastVacuum
               PROVE  \E p \in vacuumed : lastVacuum' = at[p]
    OBVIOUS
  <2>1. \E p \in Procs : StampVacuum(p)
    BY DEF Next, Step, vars, Start, InsertCheck, Crash, OpenStore, RolloverToArchive, PruneArchive,
           Begin, InsertRun, CollectTelemetry, TelemetryDone, Decide, MaybeVacuum, Vacuum,
           SnapshotTimeout, CollectReturns, TakeSnapshot, AskRun, AnswerRun, AskLatest,
           AnswerLatest, Asks, Answers, ClockMoves
  <2> QED BY <2>1 DEF StampVacuum, Inv, Busy
<1> QED BY <1>1, InvAlways, PTL DEF Spec, VacuumStampHonest
============================================================================
