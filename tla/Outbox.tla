------------------------------- MODULE Outbox -------------------------------
(***************************************************************************)
(* The persistent outbox of services/outbox.go over the tbot_queue table:  *)
(* Notify enqueues before it sends, Flush drains what is unsent, and both  *)
(* record the fate of each attempt on its row.  Every store and network    *)
(* call is a step, so the process may die between any two.  A process      *)
(* makes one call at a time and the flock admits one process.              *)
(*                                                                         *)
(* Row ids are 1, 2, ... in enqueue order.  created_at is what the wall    *)
(* clock of that moment says, so it need not grow.                         *)
(***************************************************************************)
EXTENDS Naturals, Sequences, FiniteSets

CONSTANTS Seconds,       \* the values created_at takes (a total order in Nat)
          MaxMessages,   \* bound on Notify calls
          AttemptsCap,   \* attempts is counted up to here: no code reads it
          MaxFaults, MaxCrashes, MaxLosses, MaxFlips   \* bounds

ASSUME OutboxAssumption ==
    /\ Seconds \subseteq Nat
    /\ MaxMessages \in Nat
    /\ AttemptsCap \in Nat
    /\ MaxFaults \in Nat /\ MaxCrashes \in Nat /\ MaxLosses \in Nat /\ MaxFlips \in Nat

VARIABLES
    queue,      \* the table: [createdAt, attempts, sent, refused] by id
    pc,         \* "idle", "send", "mark" or "attempt"
    drain,      \* the ids this call has still to attempt, the current first
    link,       \* is the Telegram API reachable?
    delivered,  \* the ids the operator received, in order
    faults, crashes, losses, flips

vars == <<queue, pc, drain, link, delivered, faults, crashes, losses, flips>>

StoreFails == faults < MaxFaults /\ faults' = faults + 1
StoreWorks == faults' = faults

Unsent_AllRows == DOMAIN queue
Unsent == {i \in DOMAIN queue : ~queue[i].sent}

\* ListUnsentOutboxMessages orders by created_at alone, in whole seconds: rows
\* of the same second come in any order.
ByAge(ids) ==
    {s \in [1..Cardinality(ids) -> ids] :
        /\ \A a, b \in DOMAIN s : a # b => s[a] # s[b]
        /\ \A a, b \in DOMAIN s :
              a < b => queue[s[a]].createdAt <= queue[s[b]].createdAt}

\* Notify: the enqueue comes first and, if it fails, nothing is sent.
\* `refused` says whether the API will reject this text, whenever it is sent.
Notify ==
    /\ pc = "idle" /\ Len(queue) < MaxMessages
    /\ \/ /\ StoreWorks
          /\ \E at \in Seconds, refused \in BOOLEAN :
                queue' = Append(queue, [createdAt |-> at, attempts |-> 0,
                                        sent |-> FALSE, refused |-> refused])
          /\ drain' = <<Len(queue) + 1>> /\ pc' = "send"
       \/ StoreFails /\ UNCHANGED <<queue, drain, pc>>
    /\ UNCHANGED <<link, delivered, crashes, losses, flips>>

\* Flush: a failed listing aborts, an empty one has nothing to do.
Flush ==
    /\ pc = "idle"
    /\ \/ StoreWorks /\ Unsent # {} /\ drain' \in ByAge(Unsent) /\ pc' = "send"
       \/ StoreWorks /\ Unsent = {} /\ UNCHANGED <<drain, pc>>
       \/ StoreFails /\ UNCHANGED <<drain, pc>>
    /\ UNCHANGED <<queue, link, delivered, crashes, losses, flips>>

(***************************************************************************)
(* attemptSend on the first id of drain.                                   *)
(***************************************************************************)
\* The API takes the message and says so; takes it and its answer is lost or
\* late; or does not take it.
Send ==
    /\ pc = "send"
    /\ LET i == Head(drain)
           goes == link /\ ~queue[i].refused
       IN  \/ /\ goes /\ delivered' = Append(delivered, i)
              /\ pc' = "mark" /\ UNCHANGED losses
           \/ /\ goes /\ delivered' = Append(delivered, i)
              /\ losses < MaxLosses /\ losses' = losses + 1
              /\ pc' = "attempt"
           \/ ~goes /\ pc' = "attempt" /\ UNCHANGED <<delivered, losses>>
    /\ UNCHANGED <<queue, drain, link, faults, crashes, flips>>

\* Whatever became of this row, the drain goes on to the next.
NextRow_StopAtError ==
    /\ drain' = IF pc = "attempt" THEN <<>> ELSE Tail(drain)
    /\ pc' = IF pc = "attempt" \/ Len(drain) = 1 THEN "idle" ELSE "send"
NextRow_OffByOne ==
    /\ drain' = Tail(drain)
    /\ pc' = IF Len(drain) = 0 THEN "idle" ELSE "send"
NextRow ==
    /\ drain' = Tail(drain)
    /\ pc' = IF Len(drain) = 1 THEN "idle" ELSE "send"

MarkSent ==
    /\ pc = "mark"
    /\ \/ StoreWorks /\ queue' = [queue EXCEPT ![Head(drain)].sent = TRUE]
       \/ StoreFails /\ UNCHANGED queue
    /\ NextRow
    /\ UNCHANGED <<link, delivered, crashes, losses, flips>>

RecordAttempt_MarkSent ==
    /\ pc = "attempt"
    /\ StoreWorks /\ queue' = [queue EXCEPT ![Head(drain)].sent = TRUE]
    /\ NextRow
    /\ UNCHANGED <<link, delivered, crashes, losses, flips>>
RecordAttempt ==
    /\ pc = "attempt"
    /\ \/ /\ StoreWorks
          /\ queue' = [queue EXCEPT ![Head(drain)].attempts =
                          IF @ < AttemptsCap THEN @ + 1 ELSE @]
       \/ StoreFails /\ UNCHANGED queue
    /\ NextRow
    /\ UNCHANGED <<link, delivered, crashes, losses, flips>>

(***************************************************************************)
(* The surroundings.                                                       *)
(***************************************************************************)
Crash ==
    /\ pc # "idle" /\ crashes < MaxCrashes /\ crashes' = crashes + 1
    /\ pc' = "idle" /\ drain' = <<>>
    /\ UNCHANGED <<queue, link, delivered, faults, losses, flips>>

LinkFlips ==
    /\ flips < MaxFlips /\ flips' = flips + 1
    /\ link' = ~link
    /\ UNCHANGED <<queue, pc, drain, delivered, faults, crashes, losses>>

Init ==
    /\ queue = <<>> /\ pc = "idle" /\ drain = <<>> /\ link \in BOOLEAN
    /\ delivered = <<>>
    /\ faults = 0 /\ crashes = 0 /\ losses = 0 /\ flips = 0

AttemptSend == Send \/ MarkSent \/ RecordAttempt

Next == Notify \/ Flush \/ AttemptSend \/ Crash \/ LinkFlips

Spec == Init /\ [][Next]_vars

\* Sends and store calls return, and every run cron starts begins with Flush.
FairSpec == Spec /\ WF_vars(AttemptSend) /\ WF_vars(Flush)

(***************************************************************************)
(* Properties.                                                             *)
(***************************************************************************)
\* The type invariant, and that a call is in progress exactly while it has a
\* row to attempt (services/outbox.go).
TypeOK ==
    /\ queue \in Seq([createdAt : Seconds, attempts : 0..AttemptsCap,
                      sent : BOOLEAN, refused : BOOLEAN])
    /\ Len(queue) <= MaxMessages
    /\ pc \in {"idle", "send", "mark", "attempt"}
    /\ drain \in Seq(DOMAIN queue)
    /\ pc = "idle" <=> drain = <<>>
    /\ link \in BOOLEAN
    /\ delivered \in Seq(DOMAIN queue)
    /\ faults \in Nat /\ crashes \in Nat /\ losses \in Nat /\ flips \in Nat

\* The outbox implements the at-least-once channel: accepted is what was
\* enqueued, settled what has sent_at.  So a message the caller handed over is
\* never lost, not even by a crash between any two calls, and never marked
\* sent without having been delivered (Notify, Flush, attemptSend).
Channel == INSTANCE AtLeastOnce WITH
    Ids <- 1..MaxMessages,
    accepted <- DOMAIN queue,
    settled <- {i \in DOMAIN queue : queue[i].sent}

ChannelSpec == Channel!Spec

\* The operator gets a message again only because something went wrong in
\* between: each extra copy costs a lost answer, a failed sent_at or a crash.
DuplicatesAccountedFor ==
    \A i \in DOMAIN queue :
       Cardinality({k \in DOMAIN delivered : delivered[k] = i})
          <= 1 + faults + crashes + losses

\* Once the API stays reachable every message it does not refuse is delivered
\* and settled: a refused one at the head of the queue, which is retried
\* for ever, does not hold up those behind it (Flush goes on after an error).
NoHeadOfLineBlocking ==
    <>[]link =>
       \A i \in 1..MaxMessages :
          (i \in DOMAIN queue /\ ~queue[i].refused) ~> (i \in DOMAIN queue /\ queue[i].sent)

============================================================================
