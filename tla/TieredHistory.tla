--------------------------- MODULE TieredHistory ---------------------------
(***************************************************************************)
(* What the two-tier store promises whoever asks about the past: a run is  *)
(* recorded once, gathers its rows while it is hot, and from then on moves *)
(* as a whole, into the archive and out of it.  No row is lost on the way, *)
(* none is left behind, and nothing comes back.                            *)
(***************************************************************************)
EXTENDS Naturals

CONSTANTS Runs, Rows     \* run ids, and what can be recorded about a run

VARIABLES tier,          \* "absent", "hot", "archived" or "pruned", by run
          rows           \* the rows a reader of the run finds, by run

Init == tier = [r \in Runs |-> "absent"] /\ rows = [r \in Runs |-> {}]

Record(r) ==
    /\ tier[r] = "absent"
    /\ tier' = [tier EXCEPT ![r] = "hot"]
    /\ UNCHANGED rows

Gather(r) ==
    /\ tier[r] = "hot"
    /\ rows[r] \subseteq rows'[r] /\ rows'[r] \subseteq Rows
    /\ \A s \in Runs \ {r} : rows'[s] = rows[s]
    /\ UNCHANGED tier

Archive(some) ==
    /\ \A r \in some : tier[r] = "hot" /\ tier'[r] = "archived"
    /\ \A r \in Runs \ some : tier'[r] = tier[r]
    /\ UNCHANGED rows

Prune(some) ==
    /\ \A r \in some : tier[r] = "archived" /\ tier'[r] = "pruned" /\ rows'[r] = {}
    /\ \A r \in Runs \ some : tier'[r] = tier[r] /\ rows'[r] = rows[r]

Next == \/ \E r \in Runs : Record(r) \/ Gather(r)
        \/ \E some \in SUBSET Runs : Archive(some) \/ Prune(some)

Spec == Init /\ [][Next]_<<tier, rows>>

============================================================================
