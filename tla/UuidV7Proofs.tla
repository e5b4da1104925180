---------------------------- MODULE UuidV7Proofs ----------------------------
(***************************************************************************)
(* The order of the row ids, for every clock, counter width and number of  *)
(* processes.  The inductive invariant is Ordered: the watermark bounds    *)
(* every id on disk or about to be, and what a transaction has minted for  *)
(* a table sorts after what the table already holds.                       *)
(***************************************************************************)
EXTENDS UuidV7, TLAPS

\* The watermark of a running process (uuidv7LastMs, uuidv7Counter) bounds
\* every id, so that Advance can only mint above them.
Bounded == open => \A r \in rows \cup Pending : Leq(r.ms, r.ctr, lastMs, counter)

\* What waits to be committed sorts after what its table shows.
PendingAbove ==
    \A t \in Tables : \A n \in pending[t] : \A o \in rows :
       o.table = t => Less(o.ms, o.ctr, n.ms, n.ctr)

\* An id minted for a row stamped ts has ms at ts or later.
PendingFloor == \A t \in Tables : \A n \in pending[t] : n.ts <= n.ms

Ordered == TypeOK /\ Bounded /\ PendingAbove /\ PendingFloor /\ FloorKeepsRows

\* The order of (ms, counter) pairs composes.
LEMMA LeqLess ==
    ASSUME NEW a \in Nat, NEW b \in Nat, NEW c \in Nat,
           NEW d \in Nat, NEW e \in Nat, NEW f \in Nat,
           Leq(a, b, c, d), Less(c, d, e, f)
    PROVE  Less(a, b, e, f)
BY DEF Leq, Less

\* The same for the reflexive order.
LEMMA LeqTransitive ==
    ASSUME NEW a \in Nat, NEW b \in Nat, NEW c \in Nat,
           NEW d \in Nat, NEW e \in Nat, NEW f \in Nat,
           Leq(a, b, c, d), Leq(c, d, e, f)
    PROVE  Leq(a, b, e, f)
BY DEF Leq

\* The strict order is within the reflexive one.
LEMMA LessLeq ==
    ASSUME NEW a \in Nat, NEW b \in Nat, NEW c \in Nat, NEW d \in Nat,
           Less(a, b, c, d)
    PROVE  Leq(a, b, c, d)
BY DEF Leq, Less

\* nextUUIDv7MsAndCounter strictly raises the watermark, keeps the counter in
\* its bits and never falls behind the row's own timestamp.
LEMMA AdvanceRises ==
    ASSUME lastMs \in Nat, counter \in 0..MaxCounter, NEW ts \in Clock, Advance(ts)
    PROVE  /\ lastMs' \in Nat /\ counter' \in 0..MaxCounter
           /\ Less(lastMs, counter, lastMs', counter')
           /\ ts <= lastMs'
BY UuidAssumption DEF Advance, Less

\* An empty database is ordered.
LEMMA InitOrdered == Init => Ordered
<1> SUFFICES ASSUME Init PROVE Ordered
  OBVIOUS
<1>1. pending \in [Tables -> SUBSET Rows] /\ \A t \in Tables : pending[t] = {}
  BY DEF Init
<1>2. TypeOK
  <2>1. lastMs \in Nat /\ counter \in 0..MaxCounter /\ mints \in Nat /\ opens \in Nat
    BY UuidAssumption DEF Init
  <2> QED BY <1>1, <2>1 DEF Init, TypeOK
<1>3. Bounded /\ PendingAbove /\ PendingFloor /\ FloorKeepsRows
  BY DEF Init, Bounded, PendingAbove, PendingFloor, FloorKeepsRows
<1> QED BY <1>2, <1>3 DEF Ordered

\* A fresh process takes the greatest stored id as its watermark.
LEMMA OpenOrdered == ASSUME Ordered, Open PROVE Ordered'
<1> USE DEF Ordered
<1>1. \A t \in Tables : pending[t] = {}
  BY DEF Open, TypeOK
<1>2. lastMs' \in Nat /\ counter' \in 0..MaxCounter
  BY UuidAssumption DEF Open, SeedRows, TypeOK, Rows
<1>3. TypeOK'
  BY <1>1, <1>2 DEF Open, TypeOK
<1>4. Bounded'
  <2>1. Pending' = {}
    BY <1>1 DEF Open, Pending
  <2>2. CASE rows = {}
    BY <2>1, <2>2 DEF Open, Bounded
  <2>3. CASE rows # {}
    BY <2>1, <2>3 DEF Open, SeedRows, Bounded
  <2> QED BY <2>2, <2>3
<1>5. PendingAbove' /\ PendingFloor' /\ FloorKeepsRows'
  BY DEF Open, PendingAbove, PendingFloor, FloorKeepsRows
<1> QED BY <1>3, <1>4, <1>5

\* A minted id is above the watermark, hence above every row.
LEMMA MintOrdered == ASSUME NEW t \in Tables, Ordered, Mint(t) PROVE Ordered'
<1> USE DEF Ordered
<1> PICK ts \in Clock :
       /\ Advance(ts)
       /\ pending' = [pending EXCEPT ![t] = @ \cup
             {[table |-> t, tier |-> "hot", ms |-> lastMs', ctr |-> counter',
               ts |-> ts]}]
  BY DEF Mint
<1> DEFINE id == [table |-> t, tier |-> "hot", ms |-> lastMs', ctr |-> counter',
                  ts |-> ts]
<1>1. /\ lastMs' \in Nat /\ counter' \in 0..MaxCounter
      /\ Less(lastMs, counter, lastMs', counter')
      /\ ts <= lastMs'
  BY AdvanceRises DEF TypeOK
<1>2. id \in Rows
  BY <1>1 DEF Rows, Tiers
<1>3. /\ open /\ UNCHANGED <<rows, open, opens>> /\ mints' = mints + 1
  BY DEF Mint
<1>4. /\ pending'[t] = pending[t] \cup {id}
      /\ \A u \in Tables \ {t} : pending'[u] = pending[u]
  BY DEF TypeOK
<1>5. TypeOK'
  <2>1. pending' \in [Tables -> SUBSET Rows]
    BY <1>2 DEF TypeOK
  <2>2. \A u \in Tables : \A r \in pending'[u] : r.table = u /\ r.tier = "hot"
    BY <1>4 DEF TypeOK
  <2> QED BY <2>1, <2>2, <1>1, <1>3 DEF TypeOK
<1>6. \A r \in rows \cup Pending : Less(r.ms, r.ctr, lastMs', counter')
  <2> TAKE r \in rows \cup Pending
  <2>1. r \in Rows
    BY DEF TypeOK, Pending
  <2>2. r.ms \in Nat /\ r.ctr \in Nat
    BY <2>1, UuidAssumption DEF Rows
  <2>3. Leq(r.ms, r.ctr, lastMs, counter)
    BY <1>3 DEF Bounded
  <2>4. lastMs \in Nat /\ counter \in Nat /\ lastMs' \in Nat /\ counter' \in Nat
    BY <1>1, UuidAssumption DEF TypeOK
  <2> QED BY <2>2, <2>3, <2>4, <1>1, LeqLess
<1>7. Bounded'
  <2> SUFFICES ASSUME NEW r \in rows' \cup Pending'
               PROVE  Leq(r.ms, r.ctr, lastMs', counter')
    BY DEF Bounded
  <2>1. r \in rows \cup Pending \/ r = id
    BY <1>3, <1>4 DEF Pending
  <2>2. CASE r = id
    BY <2>2, <1>1 DEF Leq
  <2>3. CASE r \in rows \cup Pending
    <3>1. /\ r.ms \in Nat /\ r.ctr \in Nat /\ lastMs' \in Nat /\ counter' \in Nat
          /\ Less(r.ms, r.ctr, lastMs', counter')
      BY <2>3, <1>1, <1>6, UuidAssumption DEF TypeOK, Pending, Rows
    <3> QED BY <3>1, LessLeq
  <2> QED BY <2>1, <2>2, <2>3
<1>8. PendingAbove'
  <2> SUFFICES ASSUME NEW u \in Tables, NEW n \in pending'[u], NEW o \in rows,
                      o.table = u
               PROVE  Less(o.ms, o.ctr, n.ms, n.ctr)
    BY <1>3 DEF PendingAbove
  <2>1. CASE n \in pending[u]
    BY <2>1 DEF PendingAbove
  <2>2. CASE n = id
    BY <2>2, <1>6
  <2> QED BY <2>1, <2>2, <1>4
<1>9. PendingFloor' /\ FloorKeepsRows'
  BY <1>1, <1>3, <1>4 DEF PendingFloor, FloorKeepsRows
<1> QED BY <1>5, <1>7, <1>8, <1>9

\* A failed mint may have raised the watermark; it leaves no row.
LEMMA MintFailsOrdered ==
    ASSUME NEW t \in Tables, Ordered, MintFails(t) PROVE Ordered'
<1> USE DEF Ordered
<1>1. /\ lastMs' \in Nat /\ counter' \in 0..MaxCounter
      /\ Leq(lastMs, counter, lastMs', counter')
  <2> PICK ts \in Clock :
         \/ Advance(ts)
         \/ ts > lastMs /\ lastMs' = ts /\ counter' = counter
         \/ /\ ts <= lastMs /\ counter = MaxCounter
            /\ lastMs' = lastMs + 1 /\ counter' = counter
    BY DEF MintFails
  <2>1. CASE Advance(ts)
    <3>1. /\ lastMs' \in Nat /\ counter' \in 0..MaxCounter
          /\ Less(lastMs, counter, lastMs', counter')
      BY <2>1, AdvanceRises DEF TypeOK
    <3> QED BY <3>1, UuidAssumption DEF TypeOK, Less, Leq
  <2>2. CASE ~Advance(ts)
    BY <2>2, UuidAssumption DEF TypeOK, Leq
  <2> QED BY <2>1, <2>2
<1>2. /\ open /\ UNCHANGED <<rows, open, opens>> /\ mints' = mints + 1
      /\ pending' = [pending EXCEPT ![t] = {}]
  BY DEF MintFails
<1>3. /\ pending' \in [Tables -> SUBSET Rows]
      /\ \A u \in Tables : pending'[u] \subseteq pending[u]
  BY <1>2 DEF TypeOK
<1>4. TypeOK'
  BY <1>1, <1>2, <1>3 DEF TypeOK
<1>5. Bounded'
  <2> SUFFICES ASSUME NEW r \in rows' \cup Pending'
               PROVE  Leq(r.ms, r.ctr, lastMs', counter')
    BY DEF Bounded
  <2>1. r \in rows \cup Pending
    BY <1>2, <1>3 DEF Pending
  <2>2. r.ms \in Nat /\ r.ctr \in Nat
    BY <2>1, UuidAssumption DEF TypeOK, Pending, Rows
  <2>3. lastMs \in Nat /\ counter \in Nat /\ lastMs' \in Nat /\ counter' \in Nat
    BY <1>1, UuidAssumption DEF TypeOK
  <2>4. Leq(r.ms, r.ctr, lastMs, counter)
    BY <2>1, <1>2 DEF Bounded
  <2> QED BY <1>1, <2>2, <2>3, <2>4, LeqTransitive
<1>6. PendingAbove' /\ PendingFloor' /\ FloorKeepsRows'
  BY <1>2, <1>3 DEF PendingAbove, PendingFloor, FloorKeepsRows
<1> QED BY <1>4, <1>5, <1>6

\* What commits was above its table, and becomes part of it.
LEMMA CommitOrdered == ASSUME NEW t \in Tables, Ordered, Commit(t) PROVE Ordered'
<1> USE DEF Ordered
<1>1. /\ open /\ UNCHANGED <<open, lastMs, counter, mints, opens>>
      /\ rows' = rows \cup pending[t]
      /\ pending' = [pending EXCEPT ![t] = {}]
  BY DEF Commit
<1>2. /\ pending' \in [Tables -> SUBSET Rows]
      /\ pending'[t] = {}
      /\ \A u \in Tables \ {t} : pending'[u] = pending[u]
  BY <1>1 DEF TypeOK
<1>3. TypeOK'
  BY <1>1, <1>2 DEF TypeOK
<1>4. Bounded'
  <2>1. rows' \cup Pending' \subseteq rows \cup Pending
    BY <1>1, <1>2 DEF Pending
  <2> QED BY <1>1, <2>1 DEF Bounded
<1>5. PendingAbove'
  <2> SUFFICES ASSUME NEW u \in Tables, NEW n \in pending'[u], NEW o \in rows',
                      o.table = u
               PROVE  Less(o.ms, o.ctr, n.ms, n.ctr)
    BY DEF PendingAbove
  <2>1. u # t /\ n \in pending[u]
    BY <1>2
  <2>2. o \notin pending[t]
    BY <2>1 DEF TypeOK
  <2> QED BY <1>1, <2>1, <2>2 DEF PendingAbove
<1>6. PendingFloor' /\ FloorKeepsRows'
  BY <1>1, <1>2 DEF PendingFloor, FloorKeepsRows
<1> QED BY <1>3, <1>4, <1>5, <1>6

\* A transaction rolled back takes its ids with it.
LEMMA RollbackOrdered ==
    ASSUME NEW t \in Tables, Ordered, Rollback(t) PROVE Ordered'
<1> USE DEF Ordered
<1>1. /\ UNCHANGED <<rows, open, lastMs, counter, mints, opens>>
      /\ pending' = [pending EXCEPT ![t] = {}]
  BY DEF Rollback
<1>2. /\ pending' \in [Tables -> SUBSET Rows]
      /\ \A u \in Tables : pending'[u] \subseteq pending[u]
  BY <1>1 DEF TypeOK
<1>3. Pending' \subseteq Pending
  BY <1>2 DEF Pending
<1>4. TypeOK' /\ Bounded'
  BY <1>1, <1>2, <1>3 DEF TypeOK, Bounded
<1>5. PendingAbove' /\ PendingFloor' /\ FloorKeepsRows'
  BY <1>1, <1>2 DEF PendingAbove, PendingFloor, FloorKeepsRows
<1> QED BY <1>4, <1>5

\* Rollover and pruning bring no id that was not there.
LEMMA MaintenanceKeepsIds ==
    ASSUME TypeOK, Rollover \/ Prune
    PROVE  /\ rows' \subseteq Rows
           /\ \A n \in rows' : \E o \in rows :
                 /\ o.table = n.table /\ o.ts = n.ts
                 /\ o.ms = n.ms /\ o.ctr = n.ctr
<1>1. CASE Rollover
  <2> PICK aged \in SUBSET {r \in rows : r.tier = "hot"} :
         rows' = (rows \ aged) \cup {[r EXCEPT !.tier = "archive"] : r \in aged}
    BY <1>1 DEF Rollover
  <2>1. \A r \in aged : LET a == [r EXCEPT !.tier = "archive"]
                        IN  /\ a \in Rows
                            /\ a.table = r.table /\ a.ts = r.ts
                            /\ a.ms = r.ms /\ a.ctr = r.ctr
    BY DEF TypeOK, Rows, Tiers
  <2>2. ASSUME NEW n \in rows'
        PROVE  /\ n \in Rows
               /\ \E o \in rows : /\ o.table = n.table /\ o.ts = n.ts
                                  /\ o.ms = n.ms /\ o.ctr = n.ctr
    <3>1. CASE n \in rows
      BY <3>1 DEF TypeOK
    <3>2. CASE n \notin rows
      <4> PICK r \in aged : n = [r EXCEPT !.tier = "archive"]
        BY <3>2
      <4> QED BY <2>1
    <3> QED BY <3>1, <3>2
  <2> QED BY <2>2
<1>2. CASE Prune
  BY <1>2 DEF Prune, TypeOK
<1> QED BY <1>1, <1>2

\* Moving and deleting rows mints nothing.
LEMMA MaintenanceOrdered == ASSUME Ordered, Rollover \/ Prune PROVE Ordered'
<1> USE DEF Ordered
<1>1. open /\ UNCHANGED <<open, lastMs, counter, pending, mints, opens>>
  BY DEF Rollover, Prune
<1>2. /\ rows' \subseteq Rows
      /\ \A n \in rows' : \E o \in rows :
            /\ o.table = n.table /\ o.ts = n.ts
            /\ o.ms = n.ms /\ o.ctr = n.ctr
  BY MaintenanceKeepsIds
<1>3. TypeOK'
  BY <1>1, <1>2 DEF TypeOK
<1>4. Bounded'
  BY <1>1, <1>2 DEF Bounded, Pending
<1>5. PendingAbove' /\ PendingFloor' /\ FloorKeepsRows'
  BY <1>1, <1>2 DEF PendingAbove, PendingFloor, FloorKeepsRows
<1> QED BY <1>3, <1>4, <1>5

\* A process that ends leaves only what it committed.
LEMMA ExitOrdered == ASSUME Ordered, Exit PROVE Ordered'
<1> USE DEF Ordered
<1>1. /\ open' = FALSE /\ lastMs' = 0 /\ counter' = 0
      /\ pending' = [t \in Tables |-> {}] /\ UNCHANGED <<rows, mints, opens>>
  BY DEF Exit
<1>2. /\ pending' \in [Tables -> SUBSET Rows]
      /\ \A t \in Tables : pending'[t] = {}
  BY <1>1
<1>3. lastMs' \in Nat /\ counter' \in 0..MaxCounter
  BY <1>1, UuidAssumption
<1>4. TypeOK'
  BY <1>1, <1>2, <1>3 DEF TypeOK
<1>5. Bounded' /\ PendingAbove' /\ PendingFloor' /\ FloorKeepsRows'
  BY <1>1, <1>2 DEF Bounded, PendingAbove, PendingFloor, FloorKeepsRows
<1> QED BY <1>4, <1>5

\* Nothing changes, nothing breaks.
LEMMA StutterOrdered == ASSUME Ordered, UNCHANGED vars PROVE Ordered'
BY DEF vars, Ordered, TypeOK, Bounded, PendingAbove, PendingFloor, FloorKeepsRows,
       Pending

\* Ordered is inductive.
LEMMA NextOrdered == Ordered /\ [Next]_vars => Ordered'
<1> SUFFICES ASSUME Ordered, [Next]_vars PROVE Ordered'
  OBVIOUS
<1>1. CASE Open
  BY <1>1, OpenOrdered
<1>2. CASE Rollover \/ Prune
  BY <1>2, MaintenanceOrdered
<1>3. CASE Exit
  BY <1>3, ExitOrdered
<1>4. CASE \E t \in Tables : Mint(t) \/ MintFails(t) \/ Commit(t) \/ Rollback(t)
  BY <1>4, MintOrdered, MintFailsOrdered, CommitOrdered, RollbackOrdered
<1>5. CASE Finished \/ UNCHANGED vars
  BY <1>5, StutterOrdered DEF Finished
<1> QED BY <1>1, <1>2, <1>3, <1>4, <1>5 DEF Next

\* Every reachable state is Ordered.
THEOREM OrderedAlways == Spec => []Ordered
BY InitOrdered, NextOrdered, PTL DEF Spec

\* The counter keeps its width and a stopped process holds nothing (uuid.go).
THEOREM TypeCorrect == Spec => []TypeOK
<1>1. Ordered => TypeOK
  BY DEF Ordered
<1> QED BY <1>1, OrderedAlways, PTL

\* No stored row is below uuidv7Floor of its own timestamp, so a range query by
\* id misses none (newUUIDv7, uuidv7Floor).
THEOREM FloorCorrect == Spec => []FloorKeepsRows
<1>1. Ordered => FloorKeepsRows
  BY DEF Ordered
<1> QED BY <1>1, OrderedAlways, PTL

\* Each minted id sorts after every stored or pending one, whatever the clock
\* does and however often the process restarts (newUUIDv7).
THEOREM MintsInOrder == Spec => MintedLast
<1> DEFINE Above == \A t \in Tables : \A n \in pending'[t] \ pending[t] :
                       \A r \in rows \cup Pending : Less(r.ms, r.ctr, n.ms, n.ctr)
<1>1. Ordered /\ [Next]_vars => [Above]_vars
  <2> SUFFICES ASSUME Ordered, Next,
                      NEW t \in Tables, NEW n \in pending'[t] \ pending[t],
                      NEW r \in rows \cup Pending
               PROVE  Less(r.ms, r.ctr, n.ms, n.ctr)
    OBVIOUS
  <2>1. PICK u \in Tables : Mint(u)
    <3>1. ~(Open \/ Rollover \/ Prune \/ Exit \/ Finished)
      BY DEF Open, Rollover, Prune, Exit, Finished, vars
    <3>2. ASSUME NEW u \in Tables, MintFails(u) \/ Commit(u) \/ Rollback(u)
          PROVE  FALSE
      BY <3>2 DEF MintFails, Commit, Rollback, Ordered, TypeOK
    <3> QED BY <3>1, <3>2 DEF Next
  <2>2. PICK ts \in Clock :
           /\ Advance(ts)
           /\ pending' = [pending EXCEPT ![u] = @ \cup
                 {[table |-> u, tier |-> "hot", ms |-> lastMs',
                   ctr |-> counter', ts |-> ts]}]
    BY <2>1 DEF Mint
  <2>3. n.ms = lastMs' /\ n.ctr = counter'
    BY <2>2 DEF Ordered, TypeOK
  <2>4. /\ lastMs' \in Nat /\ counter' \in 0..MaxCounter
        /\ Less(lastMs, counter, lastMs', counter')
    BY <2>2, AdvanceRises DEF Ordered, TypeOK
  <2>5. Leq(r.ms, r.ctr, lastMs, counter)
    BY <2>1 DEF Mint, Ordered, Bounded
  <2>6. r.ms \in Nat /\ r.ctr \in Nat
    BY UuidAssumption DEF Ordered, TypeOK, Pending, Rows
  <2>7. lastMs \in Nat /\ counter \in Nat /\ counter' \in Nat
    BY <2>4, UuidAssumption DEF Ordered, TypeOK
  <2> QED BY <2>3, <2>4, <2>5, <2>6, <2>7, LeqLess
<1> QED BY <1>1, OrderedAlways, PTL DEF Spec, MintedLast

\* What becomes visible in a table sorts after all the table held, even when
\* two transactions mint in one order and commit in the other, so ORDER BY id
\* is insertion order (RecentRuns, MAX(id)).
THEOREM CommitsInOrder == Spec => CommittedLast
<1> DEFINE InOrder ==
        \A t \in Tables :
          LET old == {r \in rows : r.table = t}
              new == {r \in rows' : /\ r.table = t
                                    /\ \A o \in old : o.ms # r.ms \/ o.ctr # r.ctr}
          IN  \A n \in new, o \in old : Less(o.ms, o.ctr, n.ms, n.ctr)
<1>1. Ordered /\ [Next]_vars => [InOrder]_vars
  <2> SUFFICES ASSUME Ordered, Next,
                      NEW t \in Tables, NEW n \in rows', NEW o \in rows,
                      n.table = t, o.table = t,
                      \A r \in rows : r.table = t => r.ms # n.ms \/ r.ctr # n.ctr
               PROVE  Less(o.ms, o.ctr, n.ms, n.ctr)
    OBVIOUS
  <2>1. n \notin rows
    OBVIOUS
  <2>2. ~(Rollover \/ Prune)
    BY MaintenanceKeepsIds DEF Ordered
  <2>3. PICK u \in Tables : Commit(u)
    <3>1. ~(Open \/ Exit \/ Finished)
      BY <2>1 DEF Open, Exit, Finished, vars
    <3>2. ASSUME NEW u \in Tables, Mint(u) \/ MintFails(u) \/ Rollback(u)
          PROVE  FALSE
      BY <2>1, <3>2 DEF Mint, MintFails, Rollback
    <3> QED BY <2>2, <3>1, <3>2 DEF Next
  <2>4. n \in pending[u] /\ u = t
    BY <2>1, <2>3 DEF Commit, Ordered, TypeOK
  <2> QED BY <2>4 DEF Ordered, PendingAbove
<1> QED BY <1>1, OrderedAlways, PTL DEF Spec, CommittedLast

============================================================================
