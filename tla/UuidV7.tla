------------------------------- MODULE UuidV7 -------------------------------
(***************************************************************************)
(* The time-ordered row ids of infrastructure/uuid.go.  Every guard that   *)
(* looks at history (RecentRuns) and every "newest" query orders by id, so *)
(* ids must grow with insertion whatever the wall clock does, across       *)
(* processes that share nothing but the database, and for the two          *)
(* telemetry writers of a run, which share its one connection.             *)
(*                                                                         *)
(* An id is its (ms, counter) prefix; the 62 random bits after it break    *)
(* ties and never order.                                                   *)
(***************************************************************************)
EXTENDS Naturals, FiniteSets

CONSTANTS Tables,       \* the id-bearing tables, each with an archive twin
          Clock,        \* the milliseconds the wall clock can show
          MaxCounter,   \* 0xFFF in the code
          MaxMints, MaxOpens   \* bounds

ASSUME UuidAssumption ==
    /\ Clock \subseteq Nat
    /\ MaxCounter \in Nat
    /\ MaxMints \in Nat /\ MaxOpens \in Nat

Tiers == {"hot", "archive"}

VARIABLES
    rows,      \* the stored rows: [table, tier, ms, ctr, ts] records
    open,      \* is a collector process running with the store open?
    lastMs, counter,   \* uuidv7LastMs, uuidv7Counter of that process
    pending,   \* for each table, the rows its open transaction has minted
    mints, opens

vars == <<rows, open, lastMs, counter, pending, mints, opens>>

\* The order of the ids, and of the watermark: lexicographic.
Less(ms1, c1, ms2, c2) == ms1 < ms2 \/ (ms1 = ms2 /\ c1 < c2)
Leq(ms1, c1, ms2, c2) == ms1 < ms2 \/ (ms1 = ms2 /\ c1 <= c2)

(***************************************************************************)
(* OpenStore: seedUUIDv7WatermarkFromDB visits MAX(id) of every table and  *)
(* of its archive, and the watermark of the fresh process only rises.      *)
(***************************************************************************)
SeedRows_HotOnly == {r \in rows : r.tier = "hot"}
SeedRows == rows

Open ==
    /\ ~open /\ opens < MaxOpens
    /\ open' = TRUE /\ opens' = opens + 1
    /\ \/ SeedRows = {} /\ lastMs' = 0 /\ counter' = 0
       \/ \E max \in SeedRows :
             /\ \A r \in SeedRows : Leq(r.ms, r.ctr, max.ms, max.ctr)
             /\ lastMs' = max.ms /\ counter' = max.ctr
    /\ UNCHANGED <<rows, pending, mints>>

(***************************************************************************)
(* nextUUIDv7MsAndCounter for a row stamped ts, under the mutex.           *)
(***************************************************************************)
Advance_TrustClock(ts) ==
    \/ ts # lastMs /\ lastMs' = ts /\ counter' \in 0..MaxCounter
    \/ ts = lastMs /\ counter < MaxCounter /\ lastMs' = lastMs /\ counter' = counter + 1
Advance_NoLimit(ts) ==
    \/ ts > lastMs /\ lastMs' = ts /\ counter' \in 0..MaxCounter
    \/ ts <= lastMs /\ lastMs' = lastMs /\ counter' = counter + 1
Advance_CounterFirst(ts) ==
    \/ counter < MaxCounter /\ lastMs' = lastMs /\ counter' = counter + 1
    \/ counter = MaxCounter /\ lastMs' = lastMs + 1 /\ counter' \in 0..MaxCounter
Advance(ts) ==
    \/ /\ ts > lastMs
       /\ lastMs' = ts /\ counter' \in 0..MaxCounter
    \/ /\ ts <= lastMs /\ counter < MaxCounter
       /\ lastMs' = lastMs /\ counter' = counter + 1
    \/ /\ ts <= lastMs /\ counter = MaxCounter
       /\ lastMs' = lastMs + 1 /\ counter' \in 0..MaxCounter

\* The store has one connection, and a transaction holds it to its end.
HasConnection(t) == \A u \in Tables \ {t} : pending[u] = {}

\* newUUIDv7 for the next row of table t; the id waits for its commit.
Mint(t) ==
    /\ open /\ HasConnection(t)
    /\ mints < MaxMints /\ mints' = mints + 1
    /\ \E ts \in Clock :
          /\ Advance(ts)
          /\ pending' = [pending EXCEPT ![t] = @ \cup
                {[table |-> t, tier |-> "hot", ms |-> lastMs', ctr |-> counter',
                  ts |-> ts]}]
    /\ UNCHANGED <<rows, open, opens>>

\* crypto/rand fails: for the counter seed, when lastMs has already advanced
\* and the counter stays, or for rand_b, when both have.  No id is returned,
\* and the writer's transaction is rolled back.  So it was before, and its
\* connection taken by the other writer, if this one's context had expired.
MintFails(t) ==
    /\ open /\ mints < MaxMints /\ mints' = mints + 1
    /\ \E ts \in Clock :
          \/ Advance(ts)
          \/ ts > lastMs /\ lastMs' = ts /\ counter' = counter
          \/ /\ ts <= lastMs /\ counter = MaxCounter
             /\ lastMs' = lastMs + 1 /\ counter' = counter
    /\ pending' = [pending EXCEPT ![t] = {}]
    /\ UNCHANGED <<rows, open, opens>>

\* The writer's INSERTs become visible together, or fail together.
Commit(t) ==
    /\ open /\ pending[t] # {}
    /\ rows' = rows \cup pending[t]
    /\ pending' = [pending EXCEPT ![t] = {}]
    /\ UNCHANGED <<open, lastMs, counter, mints, opens>>

Rollback(t) ==
    /\ open /\ pending[t] # {}
    /\ pending' = [pending EXCEPT ![t] = {}]
    /\ UNCHANGED <<rows, open, lastMs, counter, mints, opens>>

\* The run-boundary maintenance, which keeps ids: some runs and their children
\* move to the archive, and some archived ones are deleted.
Rollover ==
    /\ open /\ \A t \in Tables : pending[t] = {}
    /\ \E aged \in SUBSET {r \in rows : r.tier = "hot"} :
          rows' = (rows \ aged) \cup {[r EXCEPT !.tier = "archive"] : r \in aged}
    /\ UNCHANGED <<open, lastMs, counter, pending, mints, opens>>

Prune ==
    /\ open /\ \A t \in Tables : pending[t] = {}
    /\ \E old \in SUBSET {r \in rows : r.tier = "archive"} : rows' = rows \ old
    /\ UNCHANGED <<open, lastMs, counter, pending, mints, opens>>

\* The process ends, or is killed: its watermark and transactions are gone.
Exit ==
    /\ open /\ open' = FALSE
    /\ lastMs' = 0 /\ counter' = 0
    /\ pending' = [t \in Tables |-> {}]
    /\ UNCHANGED <<rows, mints, opens>>

\* The bound on processes is reached.
Finished == ~open /\ opens = MaxOpens /\ UNCHANGED vars

Init ==
    /\ rows = {} /\ open = FALSE /\ lastMs = 0 /\ counter = 0
    /\ pending = [t \in Tables |-> {}] /\ mints = 0 /\ opens = 0

Next ==
    \/ Open \/ Rollover \/ Prune \/ Exit \/ Finished
    \/ \E t \in Tables : Mint(t) \/ MintFails(t) \/ Commit(t) \/ Rollback(t)

Spec == Init /\ [][Next]_vars

(***************************************************************************)
(* Properties.                                                             *)
(***************************************************************************)
Rows == [table : Tables, tier : Tiers, ms : Nat, ctr : 0..MaxCounter, ts : Clock]

\* The type invariant: the counter never leaves its 12 bits, and a process
\* that is not running holds no watermark and no transaction.
TypeOK ==
    /\ rows \subseteq Rows
    /\ open \in BOOLEAN
    /\ lastMs \in Nat /\ counter \in 0..MaxCounter
    /\ pending \in [Tables -> SUBSET Rows]
    /\ \A t \in Tables : \A r \in pending[t] : r.table = t /\ r.tier = "hot"
    /\ ~open => \A t \in Tables : pending[t] = {}
    /\ mints \in Nat /\ opens \in Nat

Pending == UNION {pending[t] : t \in Tables}

\* A minted id sorts after every id that is stored, in any table or tier, and
\* after those its transaction is about to store: whatever the clock did since,
\* in this process or in an earlier one (newUUIDv7).
MintedLast ==
    [][\A t \in Tables : \A n \in pending'[t] \ pending[t] :
          \A r \in rows \cup Pending : Less(r.ms, r.ctr, n.ms, n.ctr)]_vars

\* So ORDER BY id is insertion order within a table and across its tiers, over
\* rollovers, restarts and clock steps: a row that becomes visible sorts after
\* all the rows of its table (RecentRuns, MAX(id)).
CommittedLast ==
    [][\A t \in Tables :
          LET old == {r \in rows : r.table = t}
              new == {r \in rows' : /\ r.table = t
                                    /\ \A o \in old : o.ms # r.ms \/ o.ctr # r.ctr}
          IN  \A n \in new, o \in old : Less(o.ms, o.ctr, n.ms, n.ctr)]_vars

\* uuidv7Floor(since) is a true lower bound: the ms in an id is never behind
\* the row's own timestamp, so "id >= floor" drops no row with ts >= since.
FloorKeepsRows == \A r \in rows : r.ts <= r.ms

============================================================================
