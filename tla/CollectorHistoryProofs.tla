----------------------- MODULE CollectorHistoryProofs -----------------------
(***************************************************************************)
(* What the daemon's readers see, for any number of them: the answers they *)
(* put together from two queries fit together, and to whoever asks about a *)
(* run the tables are a TieredHistory.  Both follow from the five ways in  *)
(* which the tables change (StoreStep) and from run ids never coming back. *)
(***************************************************************************)
EXTENDS CollectorProofs, WellFoundedInduction

IsHot(r) == r \in RunsOf(hot["runs"])
IsArchived(r) == r \in RunsOf(arch["runs"])

\* What a request has read so far is still to be had, if its run is.
ReadingOf(d) ==
    \/ req[d] = Idle
    \/ /\ req[d] \in [stage : {"detail"}, id : RunIds, seen : SUBSET Rows]
       /\ req[d].id <= minted
       /\ Found(req[d].id) => req[d].seen \subseteq ListChecksByRun(req[d].id).rows
    \/ /\ req[d] \in [stage : {"latest"}, id : RunIds]
       /\ req[d].id <= minted
       /\ IsHot(req[d].id) => req[d].id \in RunsOf(hot["host"])

Reading == \A d \in Readers : ReadingOf(d)

ReqType == req = [d \in Readers |-> req[d]]

RInv == Inv /\ ReqType /\ Reading

\* A set of run ids has a highest one, which is what Newest chooses.
LEMMA HighestExists ==
    ASSUME NEW S, S # {}, S \subseteq RunIds
    PROVE  \E r \in S : \A s \in S : s <= r
<1> DEFINE T == {n \in Nat : MaxRuns - n \in S}
           R == OpToRel(<,Nat)
<1>1. \A r \in S : r \in Int /\ MaxRuns - r \in Nat /\ MaxRuns - (MaxRuns - r) = r
  BY ConstantFacts DEF RunIds
<1>2. T \subseteq Nat /\ T # {}
  BY <1>1
<1>3. IsWellFoundedOn(R, Nat)
  BY NatLessThanWellFounded
<1>4. PICK x \in T : \A y \in T : ~(<<y, x>> \in R)
  <2> HIDE DEF T, R
  <2> QED BY <1>2, <1>3, WFMin
<1>5. \A y \in T : ~(y < x)
  BY <1>4 DEF OpToRel
<1>6. MaxRuns - x \in S /\ x \in Int
  OBVIOUS
<1>7. ASSUME NEW s \in S PROVE s <= MaxRuns - x
  <2>1. ~(MaxRuns - s < x)
    BY <1>1, <1>5
  <2> QED BY <1>1, <1>6, <2>1, ConstantFacts
<1> QED BY <1>6, <1>7

LEMMA NewestIs ==
    ASSUME Inv, NEW kind \in Kinds, RunsOf(hot[kind]) # {}
    PROVE  /\ Newest(kind) \in RunsOf(hot[kind]) /\ Newest(kind) \in RunIds /\ Newest(kind) # None
           /\ \A s \in RunsOf(hot[kind]) : s <= Newest(kind)
<1>1. RunsOf(hot[kind]) \subseteq RunIds
  BY DEF Inv, TypeOK, RunsOf, Rows
<1>2. \E r \in RunsOf(hot[kind]) : \A s \in RunsOf(hot[kind]) : s <= r
  BY <1>1, HighestExists
<1>3. hot[kind] # {}
  BY DEF RunsOf
<1> QED BY <1>1, <1>2, <1>3, NoneIsNobody DEF Newest

\* A run that is found after a step was found before it, unless it is new, and
\* it has kept its rows.
LEMMA FoundKept ==
    ASSUME Inv, StoreStep, NEW r \in RunIds, r <= minted
    PROVE  /\ Found(r)' => Found(r)
           /\ Found(r)' => ListChecksByRun(r).rows \subseteq ListChecksByRun(r)'.rows
           /\ IsHot(r)' => IsHot(r)
           /\ IsHot(r)' /\ r \in RunsOf(hot["host"]) => r \in RunsOf(hot'["host"])
<1> USE DEF Found, ListChecksByRun, ChecksIn, IsHot
<1>1. CASE Kept
  BY <1>1 DEF Kept, store
<1>2. ASSUME NEW s \in RunIds, Inserted(s)
      PROVE  /\ RunsOf(hot'["runs"]) \subseteq RunsOf(hot["runs"]) \cup {s} /\ s # r
             /\ hot'["checks"] = hot["checks"] /\ hot'["host"] = hot["host"] /\ arch' = arch
  <2>1. s # r
    BY <1>2 DEF Inserted, RunIds, Inv, TypeOK
  <2> QED BY <1>2, <2>1 DEF Inserted, RunsOf, Row, Kinds
<1>3. ASSUME NEW s \in RunIds, Gathered(s)
      PROVE  /\ hot'["runs"] = hot["runs"] /\ hot["checks"] \subseteq hot'["checks"]
             /\ RunsOf(hot["host"]) \subseteq RunsOf(hot'["host"]) /\ arch' = arch
  BY <1>3 DEF Gathered, RunsOf, Kinds
<1>4. ASSUME NEW aged \in SUBSET RunIds, Archived(aged)
      PROVE  /\ hot["checks"] \cup arch["checks"] \subseteq hot'["checks"] \cup arch'["checks"]
             /\ RunsOf(hot'["runs"]) = RunsOf(hot["runs"]) \ aged
             /\ RunsOf(hot'["host"]) = RunsOf(hot["host"]) \ aged
             /\ RunsOf(arch'["runs"]) \subseteq RunsOf(hot["runs"]) \cup RunsOf(arch["runs"])
  BY <1>4 DEF Archived, RunsOf, Kinds
<1>5. ASSUME NEW aged \in SUBSET RunIds, Pruned(aged)
      PROVE  /\ \A x \in arch["checks"] : x.run \notin aged => x \in arch'["checks"]
             /\ RunsOf(arch'["runs"]) = RunsOf(arch["runs"]) \ aged
             /\ \A s \in aged : s \notin RunsOf(hot["runs"])
             /\ hot' = hot
  BY <1>5 DEF Pruned, RunsOf, Kinds, Inv, RunBoundary
<1>6. ASSUME NEW s \in RunIds, Inserted(s) \/ Gathered(s)
      PROVE  /\ Found(r)' => Found(r)
             /\ Found(r)' => ListChecksByRun(r).rows \subseteq ListChecksByRun(r)'.rows
             /\ IsHot(r)' => IsHot(r)
             /\ IsHot(r)' /\ r \in RunsOf(hot["host"]) => r \in RunsOf(hot'["host"])
  BY <1>2, <1>3, <1>6
<1>7. ASSUME NEW aged \in SUBSET RunIds, Archived(aged) \/ Pruned(aged)
      PROVE  /\ Found(r)' => Found(r)
             /\ Found(r)' => ListChecksByRun(r).rows \subseteq ListChecksByRun(r)'.rows
             /\ IsHot(r)' => IsHot(r)
             /\ IsHot(r)' /\ r \in RunsOf(hot["host"]) => r \in RunsOf(hot'["host"])
  BY <1>4, <1>5, <1>7
<1> QED BY <1>1, <1>6, <1>7 DEF StoreStep

LEMMA InitRInv == Init => RInv
<1> SUFFICES ASSUME Init PROVE RInv
  OBVIOUS
<1>1. ReqType
  BY DEF Init, ReqType
<1> QED BY <1>1, InitInv DEF Init, RInv, Reading, ReadingOf

LEMMA NextRInv ==
    ASSUME RInv, [Next]_vars
    PROVE  RInv'
<1>1. Inv' /\ StoreStep
  BY NextInv, NextStoreStep DEF RInv
<1>2. minted \in Int /\ minted' \in Int /\ (\A r \in RunIds : r \in Int) /\ minted <= minted'
  <2>1. minted \in 0..MaxRuns /\ minted' \in 0..MaxRuns
    BY <1>1 DEF RInv, Inv, TypeOK
  <2>2. minted' = minted \/ minted' = minted + 1
    BY <1>1 DEF StoreStep, Kept, store, Inserted, Gathered, Archived, Pruned
  <2> QED BY <2>1, <2>2, ConstantFacts DEF RunIds
<1>3. \A r \in RunIds : r <= minted =>
          /\ Found(r)' => Found(r)
          /\ Found(r)' => ListChecksByRun(r).rows \subseteq ListChecksByRun(r)'.rows
          /\ IsHot(r)' => IsHot(r)
          /\ IsHot(r)' /\ r \in RunsOf(hot["host"]) => r \in RunsOf(hot'["host"])
  BY <1>1, FoundKept DEF RInv
\* A request that was under way and still is.
<1>4. ASSUME NEW d \in Readers, req'[d] = req[d]
      PROVE  ReadingOf(d)'
  <2>1. CASE /\ req[d] \in [stage : {"detail"}, id : RunIds, seen : SUBSET Rows]
             /\ req[d].id <= minted
             /\ Found(req[d].id) => req[d].seen \subseteq ListChecksByRun(req[d].id).rows
    <3>1. req[d].id \in RunIds /\ req[d].id <= minted'
      BY <1>2, <2>1
    <3> QED BY <1>3, <1>4, <2>1, <3>1 DEF ReadingOf, Found, ListChecksByRun, ChecksIn
  <2>2. CASE /\ req[d] \in [stage : {"latest"}, id : RunIds]
             /\ req[d].id <= minted
             /\ IsHot(req[d].id) => req[d].id \in RunsOf(hot["host"])
    <3>1. req[d].id \in RunIds /\ req[d].id <= minted'
      BY <1>2, <2>2
    <3> QED BY <1>3, <1>4, <2>2, <3>1 DEF ReadingOf, IsHot
  <2>3. CASE req[d] = Idle
    BY <1>4, <2>3 DEF ReadingOf
  <2> QED BY <2>1, <2>2, <2>3 DEF RInv, Reading, ReadingOf
<1>5. CASE req' = req
  <2>1. ReqType'
    BY <1>5 DEF ReqType, RInv
  <2> QED BY <1>1, <1>4, <1>5, <2>1 DEF RInv, Reading
<1>6. ASSUME NEW d \in Readers, NEW v, req' = [req EXCEPT ![d] = v], req'[d] = v => ReadingOf(d)'
      PROVE  RInv'
  <2>1. ReqType' /\ req'[d] = v /\ \A e \in Readers \ {d} : req'[e] = req[e]
    BY <1>6 DEF ReqType, RInv
  <2> QED BY <1>1, <1>4, <1>6, <2>1 DEF RInv, Reading
<1>7. ASSUME NEW d \in Readers, AnswerRun(d) \/ AnswerLatest(d) PROVE RInv'
  <2>1. req'[d] = Idle => ReadingOf(d)'
    BY DEF ReadingOf
  <2> QED BY <1>6, <1>7, <2>1 DEF AnswerRun, AnswerLatest, Answers
<1>8. ASSUME NEW d \in Readers, AskRun(d) PROVE RInv'
  <2>1. PICK id \in RunIds : Found(id) /\ Asks(d, [stage |-> "detail", id |-> id, seen |-> ListChecksByRun(id).rows])
    BY <1>8 DEF AskRun
  <2> DEFINE v == [stage |-> "detail", id |-> id, seen |-> ListChecksByRun(id).rows]
  <2>2. id <= minted
    BY <2>1 DEF Found, RunsOf, RInv, Inv, Recorded
  <2>3. ListChecksByRun(id).rows \subseteq Rows
    BY DEF ListChecksByRun, ChecksIn, RInv, Inv, TypeOK, Kinds
  <2>4. req'[d] = v => ReadingOf(d)'
    BY <2>1, <2>2, <2>3 DEF Asks, store, ReadingOf, Found, ListChecksByRun, ChecksIn, RunsOf
  <2> QED BY <1>6, <2>1, <2>4 DEF Asks
<1>9. ASSUME NEW d \in Readers, AskLatest(d) PROVE RInv'
  <2> DEFINE id == Newest("metrics")
  <2>1. hot["metrics"] # {}
    BY <1>9 DEF AskLatest, Newest
  <2>2. RunsOf(hot["metrics"]) # {} /\ "metrics" \in Kinds
    BY <2>1 DEF RunsOf, Kinds
  <2>3. id \in RunsOf(hot["metrics"]) /\ id \in RunIds
    BY <2>2, NewestIs DEF RInv
  <2>4. id \in RunsOf(hot["host"]) /\ id \in RunsOf(hot["runs"])
    BY <2>3 DEF RInv, Inv, Recorded, RunBoundary, Kinds
  <2>5. id <= minted
    BY <2>4 DEF RunsOf, RInv, Inv, Recorded
  <2>6. Asks(d, [stage |-> "latest", id |-> id])
    BY <1>9 DEF AskLatest
  <2> HIDE DEF id
  <2>7. req'[d] = [stage |-> "latest", id |-> id] => ReadingOf(d)'
    BY <2>3, <2>4, <2>5, <2>6 DEF Asks, store, ReadingOf, IsHot, RunsOf
  <2> QED BY <1>6, <2>6, <2>7 DEF Asks
<1>10. CASE UNCHANGED vars
  BY <1>5, <1>10 DEF vars
<1>11. ASSUME NEW p \in Procs, Start(p) \/ Step(p) \/ InsertCheck(p) \/ Crash(p)
       PROVE  req' = req
  BY <1>11 DEF Start, Step, InsertCheck, Crash, OpenStore, RolloverToArchive, PruneArchive, Begin,
               InsertRun, CollectTelemetry, TelemetryDone, Decide, MaybeVacuum, StampVacuum,
               SnapshotTimeout
<1>12. ASSUME NEW p \in Procs, NEW w \in Workers, CollectReturns(p, w) \/ TakeSnapshot(p, w)
       PROVE  req' = req
  BY <1>12 DEF CollectReturns, TakeSnapshot
<1>13. CASE ClockMoves
  BY <1>5, <1>13 DEF ClockMoves
<1> QED BY <1>5, <1>7, <1>8, <1>9, <1>10, <1>11, <1>12, <1>13 DEF Next

LEMMA RInvAlways == Spec => []RInv
<1>1. Init => RInv
  BY InitRInv
<1>2. RInv /\ [Next]_vars => RInv'
  BY NextRInv
<1> QED BY <1>1, <1>2, PTL DEF Spec

\* A run's detail page: the checks that were there when the run was read are
\* there when they are read, and none is listed twice (QueryService.Run).
THEOREM DetailWholeHolds == Spec => DetailWhole
<1>1. RInv => [\A d \in Readers : AnswerRun(d) =>
                  /\ Detail(d).twice = {}
                  /\ req[d].seen \subseteq Detail(d).rows \/ ~Found(req[d].id)]_req
  <2> SUFFICES ASSUME RInv, NEW d \in Readers, AnswerRun(d)
               PROVE  /\ Detail(d).twice = {}
                      /\ req[d].seen \subseteq Detail(d).rows \/ ~Found(req[d].id)
    OBVIOUS
  <2>1. \A id \in RunIds : ListChecksByRun(id).twice = {}
    BY DEF ListChecksByRun, ChecksIn, RInv, Inv, RunBoundary, RunsOf, Kinds
  <2>2. /\ req[d].id \in RunIds
        /\ Found(req[d].id) => req[d].seen \subseteq ListChecksByRun(req[d].id).rows
    BY DEF AnswerRun, RInv, Reading, ReadingOf, Idle
  <2> QED BY <2>1, <2>2 DEF Detail
<1> QED BY <1>1, RInvAlways, PTL DEF DetailWhole

\* The host block of the latest metrics is of their run or a later one
\* (handleLatestMetrics).
THEOREM HostOfItsRunHolds == Spec => HostOfItsRun
<1>1. RInv => [\A d \in Readers : AnswerLatest(d) /\ req[d].id \in RunsOf(hot["runs"]) =>
                  LatestHost # None /\ LatestHost >= req[d].id]_req
  <2> SUFFICES ASSUME RInv, NEW d \in Readers, AnswerLatest(d), req[d].id \in RunsOf(hot["runs"])
               PROVE  LatestHost # None /\ LatestHost >= req[d].id
    OBVIOUS
  <2>1. req[d].id \in RunIds /\ req[d].id \in RunsOf(hot["host"])
    BY DEF AnswerLatest, RInv, Reading, ReadingOf, Idle, IsHot
  <2>2. Newest("host") \in RunIds /\ Newest("host") # None /\ req[d].id <= Newest("host")
    BY <2>1, NewestIs DEF RInv, Kinds
  <2> QED BY <2>1, <2>2 DEF LatestHost, RunIds
<1> QED BY <1>1, RInvAlways, PTL DEF HostOfItsRun

(***************************************************************************)
(* The refinement: a run's tier is where its runs row is, and its rows are *)
(* those of that tier, because of RunBoundary.                             *)
(***************************************************************************)
view == <<[r \in RunIds |-> Tier(r)], [r \in RunIds |-> RowsBeside(r)]>>

\* Tier and RowsBeside, said by the runs of the two tables.
TierOf(r) == IF IsHot(r) THEN "hot" ELSE IF IsArchived(r) THEN "archived"
             ELSE IF r > minted THEN "absent" ELSE "pruned"
RowsOf(r) == IF IsHot(r) THEN RowsWith(hot, r) ELSE IF IsArchived(r) THEN RowsWith(arch, r)
             ELSE {}
ViewOf == \A r \in RunIds : Tier(r) = TierOf(r) /\ RowsBeside(r) = RowsOf(r)

\* What is known of the tables before and after a step.
LEMMA TablesFacts ==
    ASSUME Inv
    PROVE  /\ hot \in Tables /\ arch \in Tables
           /\ \A r \in RunIds :
                 /\ IsHot(r) => r <= minted /\ ~IsArchived(r)
                 /\ IsArchived(r) => r <= minted
                 /\ ~IsHot(r) => \A k \in Kinds : r \notin RunsOf(hot[k])
                 /\ ~IsArchived(r) => \A k \in Kinds : r \notin RunsOf(arch[k])
           /\ minted \in Int /\ \A r \in RunIds : r \in Int
<1>1. minted \in Int /\ \A r \in RunIds : r \in Int
  BY ConstantFacts DEF Inv, TypeOK, RunIds
<1>2. hot \in Tables /\ arch \in Tables
  BY DEF Inv, TypeOK, Tables
<1>3. \A r \in RunIds : (IsHot(r) \/ IsArchived(r)) => r <= minted
  BY DEF Inv, Recorded, IsHot, IsArchived, RunsOf
<1> QED BY <1>1, <1>2, <1>3 DEF Inv, RunBoundary, IsHot, IsArchived

LEMMA ViewIs == Inv => ViewOf
<1> SUFFICES ASSUME Inv, NEW r \in RunIds
             PROVE  Tier(r) = TierOf(r) /\ RowsBeside(r) = RowsOf(r)
  BY DEF ViewOf
<1>1. \A t \in {hot, arch} : Row(r, 0) \in t["runs"] <=> r \in RunsOf(t["runs"])
  <2>1. \A x \in hot["runs"] \cup arch["runs"] : x = Row(x.run, 0)
    BY DEF Inv, TypeOK, Recorded, Rows, Row, Kinds
  <2>2. Row(r, 0).run = r
    BY DEF Row
  <2> QED BY <2>1, <2>2 DEF RunsOf
<1>2. Tier(r) = TierOf(r)
  <2>1. /\ Row(r, 0) \in hot["runs"] <=> IsHot(r)
        /\ Row(r, 0) \in arch["runs"] <=> IsArchived(r)
    BY <1>1 DEF IsHot, IsArchived
  <2>2. ~(IsHot(r) /\ IsArchived(r)) /\ ~(IsHot(r) /\ r > minted) /\ ~(IsArchived(r) /\ r > minted)
    BY TablesFacts
  <2>3. CASE IsHot(r)
    BY <2>1, <2>2, <2>3 DEF Tier, TierOf
  <2>4. CASE ~IsHot(r) /\ IsArchived(r)
    BY <2>1, <2>2, <2>4 DEF Tier, TierOf
  <2>5. CASE ~IsHot(r) /\ ~IsArchived(r)
    BY <2>1, <2>5 DEF Tier, TierOf
  <2> QED BY <2>3, <2>4, <2>5
<1> QED BY <1>2 DEF RowsBeside, TierOf, RowsOf

\* The rows of a run in a set of tables, member by member.
LEMMA RowsWithMembers ==
    ASSUME NEW t \in Tables, NEW r \in RunIds
    PROVE  /\ RowsWith(t, r) \subseteq Children
           /\ \A z : z \in RowsWith(t, r) <=>
                 \E k \in Kinds \ {"runs"} : \E x \in t[k] : x.run = r /\ z = [kind |-> k, row |-> x]
<1>1. \A z : z \in RowsWith(t, r) <=>
         \E k \in Kinds \ {"runs"} : \E x \in t[k] : x.run = r /\ z = [kind |-> k, row |-> x]
  BY DEF RowsWith
<1>2. \A k \in Kinds : t[k] \subseteq Rows
  BY DEF Tables
<1> QED BY <1>1, <1>2 DEF Children

\* Tables that hold more of a run, and tables that hold nothing of it.
LEMMA RowsWithMonotone ==
    ASSUME NEW t \in Tables, NEW u \in Tables, NEW r \in RunIds,
           \A k \in Kinds \ {"runs"} : \A x \in t[k] : x.run = r => x \in u[k]
    PROVE  RowsWith(t, r) \subseteq RowsWith(u, r)
BY RowsWithMembers

LEMMA RowsWithNone ==
    ASSUME NEW t \in Tables, NEW r \in RunIds, \A k \in Kinds : r \notin RunsOf(t[k])
    PROVE  RowsWith(t, r) = {}
<1>1. \A k \in Kinds : \A x \in t[k] : x.run # r
  BY DEF RunsOf
<1> QED BY <1>1, RowsWithMembers

\* InsertRun records a run that nobody has heard of.
LEMMA InsertedRecords ==
    ASSUME Inv, Inv', ViewOf, ViewOf', NEW s \in RunIds, Inserted(s)
    PROVE  History!Record(s)
<1>1. /\ IsHot(s)' /\ ~IsHot(s) /\ ~IsArchived(s) /\ s > minted
      /\ \A r \in RunIds \ {s} : (IsHot(r)' <=> IsHot(r)) /\ (r > minted <=> r > minted')
      /\ \A r \in RunIds : IsArchived(r)' <=> IsArchived(r)
  <2>1. s > minted /\ minted' = s /\ \A r \in RunIds \ {s} : r > minted <=> r > minted'
    BY TablesFacts DEF Inserted
  <2>2. Row(s, 0).run = s
    BY DEF Row
  <2> QED BY <2>1, <2>2, TablesFacts DEF Inserted, IsHot, IsArchived, RunsOf
<1>2. \A r \in RunIds : RowsWith(hot', r) = RowsWith(hot, r) /\ RowsWith(arch', r) = RowsWith(arch, r)
  BY DEF Inserted, RowsWith
<1>3. RowsWith(hot, s) = {}
  BY <1>1, TablesFacts, RowsWithNone
<1>4. \A r \in RunIds \ {s} : TierOf(r)' = TierOf(r)
  BY <1>1 DEF TierOf
<1>5. TierOf(s) = "absent" /\ TierOf(s)' = "hot"
  BY <1>1 DEF TierOf
<1>6. \A r \in RunIds : RowsOf(r)' = RowsOf(r)
  BY <1>1, <1>2, <1>3 DEF RowsOf
<1>7. /\ Tier(s) = "absent" /\ [r \in RunIds |-> RowsBeside(r)]' = [r \in RunIds |-> RowsBeside(r)]
      /\ [r \in RunIds |-> Tier(r)]' = [[r \in RunIds |-> Tier(r)] EXCEPT ![s] = "hot"]
  BY <1>4, <1>5, <1>6 DEF ViewOf
<1> QED BY <1>7 DEF History!Record

\* Saved checks and samples are gathered by a hot run.
LEMMA GatheredGathers ==
    ASSUME Inv, Inv', ViewOf, ViewOf', NEW s \in RunIds, Gathered(s)
    PROVE  History!Gather(s)
<1>1. /\ IsHot(s) /\ minted' = minted
      /\ \A r \in RunIds : (IsHot(r)' <=> IsHot(r)) /\ (IsArchived(r)' <=> IsArchived(r))
  BY DEF Gathered, IsHot, IsArchived
<1>2. hot \in Tables /\ hot' \in Tables /\ arch' = arch
  BY TablesFacts DEF Gathered
<1>3. RowsWith(hot, s) \subseteq RowsWith(hot', s) /\ RowsWith(hot', s) \subseteq Children
  <2>1. \A k \in Kinds \ {"runs"} : \A x \in hot[k] : x.run = s => x \in hot'[k]
    BY DEF Gathered
  <2> QED BY <1>2, <2>1, RowsWithMonotone, RowsWithMembers
<1>4. \A r \in RunIds \ {s} : RowsWith(hot', r) = RowsWith(hot, r)
  <2> SUFFICES ASSUME NEW r \in RunIds \ {s} PROVE RowsWith(hot', r) = RowsWith(hot, r)
    OBVIOUS
  <2>1. \A k \in Kinds \ {"runs"} : \A x : x.run = r => (x \in hot[k] <=> x \in hot'[k])
    BY DEF Gathered
  <2>2. RowsWith(hot, r) \subseteq RowsWith(hot', r)
    BY <1>2, <2>1, RowsWithMonotone
  <2>3. RowsWith(hot', r) \subseteq RowsWith(hot, r)
    BY <1>2, <2>1, RowsWithMonotone
  <2> QED BY <2>2, <2>3
<1>5. \A r \in RunIds : TierOf(r)' = TierOf(r)
  BY <1>1 DEF TierOf
<1>6. /\ \A r \in RunIds \ {s} : RowsOf(r)' = RowsOf(r)
      /\ RowsOf(s) \subseteq RowsOf(s)' /\ RowsOf(s)' \subseteq Children
  BY <1>1, <1>2, <1>3, <1>4 DEF RowsOf
<1>7. TierOf(s) = "hot"
  BY <1>1 DEF TierOf
<1> QED BY <1>5, <1>6, <1>7 DEF History!Gather, ViewOf

\* A rollover moves whole runs into the archive.
LEMMA ArchivedArchives ==
    ASSUME Inv, Inv', ViewOf, ViewOf', NEW aged \in SUBSET RunIds, Archived(aged)
    PROVE  History!Archive(aged)
<1>1. /\ minted' = minted
      /\ \A r \in aged : IsHot(r) /\ ~IsHot(r)' /\ IsArchived(r)'
      /\ \A r \in RunIds \ aged : (IsHot(r)' <=> IsHot(r)) /\ (IsArchived(r)' <=> IsArchived(r))
  BY DEF Archived, IsHot, IsArchived, RunsOf, Kinds
<1>2. hot \in Tables /\ hot' \in Tables /\ arch \in Tables /\ arch' \in Tables
  BY TablesFacts DEF Archived
<1>3. ASSUME NEW r \in aged PROVE RowsWith(arch', r) = RowsWith(hot, r)
  <2>1. \A k \in Kinds : \A x \in arch[k] : x.run # r
    BY <1>1, <1>3, TablesFacts DEF RunsOf
  <2>2. \A k \in Kinds \ {"runs"} : \A x : x.run = r => (x \in hot[k] <=> x \in arch'[k])
    BY <2>1 DEF Archived
  <2>3. RowsWith(hot, r) \subseteq RowsWith(arch', r)
    BY <1>2, <2>2, RowsWithMonotone
  <2>4. RowsWith(arch', r) \subseteq RowsWith(hot, r)
    BY <1>2, <2>2, RowsWithMonotone
  <2> QED BY <2>3, <2>4
<1>4. ASSUME NEW r \in RunIds \ aged
      PROVE  RowsWith(hot', r) = RowsWith(hot, r) /\ RowsWith(arch', r) = RowsWith(arch, r)
  <2>1. \A k \in Kinds \ {"runs"} : \A x : x.run = r =>
           (x \in hot[k] <=> x \in hot'[k]) /\ (x \in arch[k] <=> x \in arch'[k])
    BY DEF Archived
  <2>2. RowsWith(hot, r) \subseteq RowsWith(hot', r) /\ RowsWith(hot', r) \subseteq RowsWith(hot, r)
    BY <1>2, <2>1, RowsWithMonotone
  <2>3. RowsWith(arch, r) \subseteq RowsWith(arch', r) /\ RowsWith(arch', r) \subseteq RowsWith(arch, r)
    BY <1>2, <2>1, RowsWithMonotone
  <2> QED BY <2>2, <2>3
<1>5. /\ \A r \in aged : TierOf(r) = "hot" /\ TierOf(r)' = "archived"
      /\ \A r \in RunIds \ aged : TierOf(r)' = TierOf(r)
  BY <1>1 DEF TierOf
<1>6. \A r \in RunIds : RowsOf(r)' = RowsOf(r)
  BY <1>1, <1>3, <1>4 DEF RowsOf
<1>7. [r \in RunIds |-> RowsBeside(r)]' = [r \in RunIds |-> RowsBeside(r)]
  BY <1>6 DEF ViewOf
<1> QED BY <1>5, <1>7 DEF History!Archive, ViewOf

\* A prune takes whole runs out of the archive.
LEMMA PrunedPrunes ==
    ASSUME Inv, Inv', ViewOf, ViewOf', NEW aged \in SUBSET RunIds, Pruned(aged)
    PROVE  History!Prune(aged)
<1>1. /\ minted' = minted /\ hot' = hot
      /\ \A r \in aged : IsArchived(r) /\ ~IsArchived(r)'
      /\ \A r \in RunIds \ aged : IsArchived(r)' <=> IsArchived(r)
      /\ \A r \in RunIds : IsHot(r)' <=> IsHot(r)
  BY DEF Pruned, IsHot, IsArchived, RunsOf, Kinds
<1>2. arch \in Tables /\ arch' \in Tables
  BY TablesFacts DEF Pruned
<1>3. ASSUME NEW r \in RunIds \ aged PROVE RowsWith(arch', r) = RowsWith(arch, r)
  <2>1. \A k \in Kinds \ {"runs"} : \A x : x.run = r => (x \in arch[k] <=> x \in arch'[k])
    BY DEF Pruned
  <2>2. RowsWith(arch, r) \subseteq RowsWith(arch', r)
    BY <1>2, <2>1, RowsWithMonotone
  <2>3. RowsWith(arch', r) \subseteq RowsWith(arch, r)
    BY <1>2, <2>1, RowsWithMonotone
  <2> QED BY <2>2, <2>3
<1>4. \A r \in aged : ~IsHot(r) /\ r <= minted
  BY <1>1, TablesFacts
<1>5. /\ \A r \in aged : TierOf(r) = "archived" /\ TierOf(r)' = "pruned" /\ RowsOf(r)' = {}
      /\ \A r \in RunIds \ aged : TierOf(r)' = TierOf(r)
  <2>1. \A r \in aged : ~(r > minted)
    BY <1>4, TablesFacts
  <2> QED BY <1>1, <1>4, <2>1 DEF TierOf, RowsOf
<1>6. \A r \in RunIds \ aged : RowsOf(r)' = RowsOf(r)
  BY <1>1, <1>3 DEF RowsOf
<1> QED BY <1>5, <1>6 DEF History!Prune, ViewOf

LEMMA StepRefines == Inv /\ Inv' /\ ViewOf /\ ViewOf' /\ StoreStep => [History!Next]_view
<1> SUFFICES ASSUME Inv, Inv', ViewOf, ViewOf', StoreStep PROVE History!Next \/ UNCHANGED view
  OBVIOUS
<1>1. CASE Kept
  BY <1>1 DEF Kept, store, view, Tier, RowsBeside, RowsWith
<1>2. ASSUME NEW s \in RunIds, Inserted(s) \/ Gathered(s) PROVE History!Next
  BY <1>2, InsertedRecords, GatheredGathers DEF History!Next
<1>3. ASSUME NEW aged \in SUBSET RunIds, Archived(aged) \/ Pruned(aged) PROVE History!Next
  BY <1>3, ArchivedArchives, PrunedPrunes DEF History!Next
<1> QED BY <1>1, <1>2, <1>3 DEF StoreStep

LEMMA InitRefines == Init => History!Init
<1> SUFFICES ASSUME Init PROVE History!Init
  OBVIOUS
<1>1. \A r \in RunIds : r > minted /\ hot["runs"] = {} /\ arch["runs"] = {}
  BY ConstantFacts DEF Init, RunIds, Kinds
<1>2. \A r \in RunIds : Tier(r) = "absent"
  BY <1>1 DEF Tier
<1>3. \A r \in RunIds : RowsBeside(r) = {}
  BY <1>2 DEF RowsBeside
<1> QED BY <1>2, <1>3 DEF History!Init

\* The collectors and the store implement the history a reader is promised: a
\* run and its rows move as one, nothing is lost before it is pruned, and
\* nothing comes back (RolloverToArchive, PruneArchive, InsertRun, the saves).
THEOREM Refines == Spec => HistorySpec
<1>1. Inv /\ Inv' /\ ViewOf /\ ViewOf' /\ [Next]_vars =>
         [History!Next]_<<[r \in RunIds |-> Tier(r)], [r \in RunIds |-> RowsBeside(r)]>>
  BY NextStoreStep, StepRefines DEF view
<1>2. Spec => []Inv
  BY InvAlways
<1> QED BY <1>1, <1>2, ViewIs, InitRefines, PTL DEF Spec, HistorySpec, History!Spec

============================================================================
