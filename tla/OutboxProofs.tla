---------------------------- MODULE OutboxProofs ----------------------------
(***************************************************************************)
(* The outbox implements the at-least-once channel, for every number of    *)
(* messages, faults, crashes and lost answers.  The refinement mapping is  *)
(* Outbox's Channel: accepted is what was enqueued, settled what is marked *)
(* sent.  Every step maps to one step of the channel or to a stutter.      *)
(* And no message arrives twice without a mishap to account for it.        *)
(***************************************************************************)
EXTENDS Outbox, TLAPS, SequenceTheorems, FiniteSetTheorems

Row == [createdAt : Seconds, attempts : 0..AttemptsCap, sent : BOOLEAN, refused : BOOLEAN]

Delivered == {delivered[k] : k \in DOMAIN delivered}

\* A call attempts each row once, and only rows that are not marked sent; it
\* is about to mark one only after that one was delivered.
Draining ==
    /\ \A a, b \in DOMAIN drain : a # b => drain[a] # drain[b]
    /\ \A a \in DOMAIN drain : ~queue[drain[a]].sent
    /\ pc = "mark" => Head(drain) \in Delivered

Inv == TypeOK /\ Draining

\* Every row of the table is a Row.
LEMMA QueueType ==
    ASSUME TypeOK
    PROVE  /\ queue \in Seq(Row) /\ DOMAIN queue = 1..Len(queue) /\ Len(queue) \in Nat
           /\ \A i \in DOMAIN queue : queue[i] \in Row
<1>1. queue \in Seq(Row)
  BY DEF TypeOK, Row
<1> QED BY <1>1, ElementOfSeq, LenProperties

\* The first row of a call in progress, and the rows after it.
LEMMA HeadOfDrain ==
    ASSUME Inv, pc # "idle"
    PROVE  /\ Head(drain) \in DOMAIN queue /\ ~queue[Head(drain)].sent
           /\ Head(drain) = drain[1] /\ Len(drain) \in Nat \ {0}
           /\ Tail(drain) \in Seq(DOMAIN queue) /\ Len(Tail(drain)) = Len(drain) - 1
           /\ \A a \in DOMAIN Tail(drain) :
                 /\ a + 1 \in DOMAIN drain /\ Tail(drain)[a] = drain[a + 1]
                 /\ Tail(drain)[a] # Head(drain)
<1>1. drain \in Seq(DOMAIN queue) /\ drain # <<>>
  BY DEF Inv, TypeOK
<1>2. /\ Len(drain) \in Nat \ {0} /\ DOMAIN drain = 1..Len(drain)
      /\ Tail(drain) \in Seq(DOMAIN queue) /\ Len(Tail(drain)) = Len(drain) - 1
      /\ \A a \in 1..Len(Tail(drain)) : Tail(drain)[a] = drain[a + 1]
  BY <1>1, EmptySeq, LenProperties, HeadTailProperties
<1>3. DOMAIN Tail(drain) = 1..Len(Tail(drain))
  BY <1>2, LenProperties
<1>4. Head(drain) = drain[1]
  BY <1>1
<1>5. 1 \in DOMAIN drain /\ drain[1] \in DOMAIN queue
  BY <1>1, <1>2, ElementOfSeq
<1>6. \A a \in DOMAIN Tail(drain) : a + 1 \in DOMAIN drain /\ a + 1 # 1
  BY <1>2, <1>3
<1> QED BY <1>2, <1>3, <1>4, <1>5, <1>6 DEF Inv, Draining

\* The invariant holds of the empty table.
LEMMA InitInv == Init => Inv
<1> SUFFICES ASSUME Init PROVE Inv
  OBVIOUS
<1>1. TypeOK
  BY OutboxAssumption DEF Init, TypeOK
<1>2. Draining
  BY DEF Init, Draining
<1> QED BY <1>1, <1>2 DEF Inv

\* A message enqueued makes a drain of one row, its own, not yet sent.
LEMMA NotifyInv == ASSUME Inv, Notify PROVE Inv'
<1>1. CASE UNCHANGED <<queue, drain, pc>>
  BY <1>1 DEF Notify, StoreWorks, StoreFails, Inv, TypeOK, Draining, Delivered
<1>2. CASE drain' = <<Len(queue) + 1>> /\ pc' = "send"
           /\ \E at \in Seconds, refused \in BOOLEAN :
                queue' = Append(queue, [createdAt |-> at, attempts |-> 0,
                                        sent |-> FALSE, refused |-> refused])
  <2> PICK at \in Seconds, refused \in BOOLEAN :
         queue' = Append(queue, [createdAt |-> at, attempts |-> 0,
                                 sent |-> FALSE, refused |-> refused])
    BY <1>2
  <2> DEFINE row == [createdAt |-> at, attempts |-> 0, sent |-> FALSE, refused |-> refused]
  <2>1. row \in Row /\ row.sent = FALSE
    BY OutboxAssumption DEF Row
  <2> HIDE DEF row
  <2>2. /\ queue' \in Seq(Row) /\ Len(queue') = Len(queue) + 1
        /\ DOMAIN queue' = 1..Len(queue) + 1 /\ DOMAIN queue = 1..Len(queue)
        /\ Len(queue) \in Nat /\ queue'[Len(queue) + 1] = row
    <3>1. queue \in Seq(Row)
      BY QueueType DEF Inv
    <3>2. queue' = Append(queue, row)
      BY DEF row
    <3> QED BY <2>1, <3>1, <3>2, AppendProperties, LenProperties
  <2>3. drain' \in Seq(DOMAIN queue') /\ drain' # <<>>
    BY <1>2, <2>2
  <2>4. delivered \in Seq(DOMAIN queue')
    <3>1. DOMAIN queue \subseteq DOMAIN queue'
      BY <2>2
    <3> QED BY <3>1, SeqMonotonic DEF Inv, TypeOK
  <2>5. Len(queue') <= MaxMessages
    <3>1. Len(queue) < MaxMessages
      BY DEF Notify
    <3> QED BY <2>2, <3>1, OutboxAssumption
  <2>6. /\ UNCHANGED <<link, delivered, crashes, losses, flips>> /\ faults' \in Nat
    BY DEF Notify, StoreWorks, StoreFails, Inv, TypeOK
  <2>7. TypeOK'
    BY <1>2, <2>2, <2>3, <2>4, <2>5, <2>6 DEF Inv, TypeOK, Row
  <2>8. Draining'
    <3>1. DOMAIN drain' = {1} /\ drain'[1] = Len(queue) + 1
      BY <1>2
    <3>2. ~queue'[drain'[1]].sent /\ pc' # "mark"
      BY <1>2, <2>1, <2>2, <3>1
    <3> QED BY <3>1, <3>2 DEF Draining
  <2> QED BY <2>7, <2>8 DEF Inv
<1> QED BY <1>1, <1>2 DEF Notify

\* A listing has each unsent row once.
LEMMA FlushInv == ASSUME Inv, Flush PROVE Inv'
<1>1. CASE UNCHANGED <<drain, pc>>
  BY <1>1 DEF Flush, StoreWorks, StoreFails, Inv, TypeOK, Draining, Delivered
<1>2. CASE Unsent # {} /\ drain' \in ByAge(Unsent) /\ pc' = "send"
  <2>1. Unsent \subseteq DOMAIN queue /\ DOMAIN queue = 1..Len(queue) /\ Len(queue) \in Nat
    BY QueueType DEF Inv, Unsent
  <2>2. IsFiniteSet(Unsent)
    <3>1. IsFiniteSet(1..Len(queue)) /\ Unsent \in SUBSET (1..Len(queue))
      BY <2>1, FS_Interval
    <3> QED BY <3>1, FS_Subset
  <2>3. Cardinality(Unsent) \in Nat \ {0}
    BY <1>2, <2>2, FS_CardinalityType, FS_EmptySet
  <2>4. /\ drain' \in [1..Cardinality(Unsent) -> Unsent]
        /\ \A a, b \in DOMAIN drain' : a # b => drain'[a] # drain'[b]
    BY <1>2 DEF ByAge
  <2>5. drain' \in Seq(DOMAIN queue) /\ drain' # <<>>
    <3>1. drain' \in [1..Cardinality(Unsent) -> DOMAIN queue]
      BY <2>1, <2>4
    <3>2. drain' \in Seq(DOMAIN queue) /\ Len(drain') = Cardinality(Unsent)
      BY <2>3, <3>1
    <3> QED BY <2>3, <3>2, EmptySeq
  <2>6. UNCHANGED <<queue, link, delivered, crashes, losses, flips>> /\ faults' \in Nat
    BY DEF Flush, StoreWorks, StoreFails, Inv, TypeOK
  <2>7. TypeOK'
    BY <1>2, <2>5, <2>6 DEF Inv, TypeOK
  <2>8. \A a \in DOMAIN drain' : ~queue'[drain'[a]].sent
    BY <2>4, <2>6 DEF Unsent
  <2> QED BY <1>2, <2>4, <2>7, <2>8 DEF Inv, Draining
<1> QED BY <1>1, <1>2 DEF Flush

\* A delivery adds its message to the set of those delivered.
LEMMA DeliveredGrows ==
    ASSUME Inv, NEW i \in DOMAIN queue, delivered' = Append(delivered, i)
    PROVE  /\ delivered' \in Seq(DOMAIN queue)
           /\ Delivered' = Delivered \cup {i}
<1>1. delivered \in Seq(DOMAIN queue)
  BY DEF Inv, TypeOK
<1>2. /\ delivered' \in Seq(DOMAIN queue) /\ Len(delivered') = Len(delivered) + 1
      /\ \A k \in 1..Len(delivered) : delivered'[k] = delivered[k]
      /\ delivered'[Len(delivered) + 1] = i
  BY <1>1, AppendProperties
<1>3. /\ DOMAIN delivered = 1..Len(delivered) /\ Len(delivered) \in Nat
      /\ DOMAIN delivered' = 1..(Len(delivered) + 1)
  BY <1>1, <1>2, LenProperties
<1>4. ASSUME NEW x PROVE x \in Delivered' <=> x \in Delivered \cup {i}
  <2>1. CASE x = i
    BY <1>2, <1>3, <2>1 DEF Delivered
  <2>2. CASE x # i
    BY <1>2, <1>3, <2>2 DEF Delivered
  <2> QED BY <2>1, <2>2
<1> QED BY <1>2, <1>4

\* A send leaves the table alone, and reaches "mark" only with a delivery.
LEMMA SendInv == ASSUME Inv, Send PROVE Inv'
<1> DEFINE i == Head(drain)
<1>1. i \in DOMAIN queue
  BY HeadOfDrain DEF Send
<1>2. UNCHANGED <<queue, drain, link, faults, crashes, flips>>
  BY DEF Send
<1>3. losses' \in Nat
  BY DEF Send, Inv, TypeOK
<1>4. \/ pc' = "mark" /\ delivered' = Append(delivered, i)
      \/ pc' = "attempt" /\ delivered' = Append(delivered, i)
      \/ pc' = "attempt" /\ delivered' = delivered
  BY DEF Send
<1>5. delivered' \in Seq(DOMAIN queue)
  BY <1>1, <1>4, DeliveredGrows DEF Inv, TypeOK
<1>6. pc' = "mark" => Head(drain) \in Delivered'
  BY <1>1, <1>4, DeliveredGrows
<1>7. drain # <<>>
  BY DEF Send, Inv, TypeOK
<1>8. TypeOK'
  BY <1>2, <1>3, <1>4, <1>5, <1>7 DEF Inv, TypeOK
<1> QED BY <1>2, <1>6, <1>8 DEF Inv, Draining

\* Going on to the next row keeps the drain in order, whatever was written to
\* the row just attempted.
LEMMA NextRowKeeps ==
    ASSUME Inv, pc # "idle", NextRow, DOMAIN queue' = DOMAIN queue,
           \A i \in DOMAIN queue : i # Head(drain) => queue'[i] = queue[i]
    PROVE  /\ drain' \in Seq(DOMAIN queue) /\ pc' \in {"idle", "send"}
           /\ pc' = "idle" <=> drain' = <<>>
           /\ Draining'
<1>1. drain' = Tail(drain) /\ drain' \in Seq(DOMAIN queue) /\ Len(drain') = Len(drain) - 1
  BY HeadOfDrain DEF NextRow
<1>2. pc' \in {"idle", "send"} /\ (pc' = "idle" <=> Len(drain) = 1)
  BY DEF NextRow
<1>3. Len(drain') = 0 <=> drain' = <<>>
  BY <1>1, EmptySeq
<1>4. Len(drain) = 1 <=> drain' = <<>>
  BY <1>1, <1>3, HeadOfDrain
<1>5. \A a, b \in DOMAIN drain' : a # b => drain'[a] # drain'[b]
  <2> SUFFICES ASSUME NEW a \in DOMAIN drain', NEW b \in DOMAIN drain', a # b
               PROVE  drain'[a] # drain'[b]
    OBVIOUS
  <2>1. /\ a + 1 \in DOMAIN drain /\ b + 1 \in DOMAIN drain
        /\ drain'[a] = drain[a + 1] /\ drain'[b] = drain[b + 1]
    BY <1>1, HeadOfDrain
  <2>2. DOMAIN drain' = 1..Len(drain')
    BY <1>1, LenProperties
  <2>3. a + 1 # b + 1
    BY <2>2
  <2> QED BY <2>1, <2>3 DEF Inv, Draining
<1>6. \A a \in DOMAIN drain' : ~queue'[drain'[a]].sent
  <2> SUFFICES ASSUME NEW a \in DOMAIN drain' PROVE ~queue'[drain'[a]].sent
    OBVIOUS
  <2>1. /\ a + 1 \in DOMAIN drain /\ drain'[a] = drain[a + 1]
        /\ drain'[a] # Head(drain)
    BY <1>1, HeadOfDrain
  <2>2. DOMAIN drain = 1..Len(drain) /\ drain \in Seq(DOMAIN queue)
    BY LenProperties DEF Inv, TypeOK
  <2>3. drain[a + 1] \in DOMAIN queue
    BY <2>1, <2>2, ElementOfSeq
  <2> QED BY <2>1, <2>3 DEF Inv, Draining
<1> QED BY <1>1, <1>2, <1>4, <1>5, <1>6 DEF Draining

\* What an attempt writes to its row: sent_at, or another attempt.
LEMMA RowWritten ==
    ASSUME Inv, NEW i \in DOMAIN queue, NEW row \in Row, queue' = [queue EXCEPT ![i] = row]
    PROVE  /\ queue' \in Seq(Row) /\ DOMAIN queue' = DOMAIN queue /\ Len(queue') = Len(queue)
           /\ queue'[i] = row
           /\ \A j \in DOMAIN queue : j # i => queue'[j] = queue[j]
<1>1. /\ DOMAIN queue = 1..Len(queue) /\ Len(queue) \in Nat
      /\ \A j \in DOMAIN queue : queue[j] \in Row
  BY QueueType DEF Inv
<1>2. queue \in [1..Len(queue) -> Row]
  BY <1>1, QueueType DEF Inv
<1>3. queue' \in [1..Len(queue) -> Row]
  BY <1>1, <1>2
<1>4. queue' \in Seq(Row) /\ Len(queue') = Len(queue)
  BY <1>1, <1>3
<1> QED BY <1>1, <1>2, <1>3, <1>4

\* MarkSent and RecordAttempt change at most the fields of the row attempted.
LEMMA MarkSentEffect ==
    ASSUME Inv, MarkSent
    PROVE  /\ Head(drain) \in DOMAIN queue /\ DOMAIN queue' = DOMAIN queue
           /\ queue' \in Seq(Row) /\ Len(queue') = Len(queue)
           /\ \A j \in DOMAIN queue : j # Head(drain) => queue'[j] = queue[j]
           /\ queue' = queue \/ queue'[Head(drain)].sent
<1> DEFINE i == Head(drain)
<1>1. i \in DOMAIN queue
  BY HeadOfDrain DEF MarkSent
<1>2. CASE queue' = [queue EXCEPT ![i].sent = TRUE]
  <2> DEFINE row == [queue[i] EXCEPT !.sent = TRUE]
  <2>1. queue[i] \in Row
    BY <1>1, QueueType DEF Inv
  <2>2. row \in Row /\ row.sent
    BY <2>1 DEF Row
  <2>3. queue' = [queue EXCEPT ![i] = row]
    BY <1>2
  <2> HIDE DEF row
  <2> QED BY <1>1, <2>2, <2>3, RowWritten
<1>3. CASE queue' = queue
  BY <1>1, <1>3, QueueType DEF Inv
<1> QED BY <1>2, <1>3 DEF MarkSent

\* A failed attempt leaves what is sent as it was.
LEMMA RecordAttemptEffect ==
    ASSUME Inv, RecordAttempt
    PROVE  /\ Head(drain) \in DOMAIN queue /\ DOMAIN queue' = DOMAIN queue
           /\ queue' \in Seq(Row) /\ Len(queue') = Len(queue)
           /\ \A j \in DOMAIN queue : j # Head(drain) => queue'[j] = queue[j]
           /\ \A j \in DOMAIN queue : queue'[j].sent = queue[j].sent
<1> DEFINE i == Head(drain)
           n == queue[i].attempts
           row == [queue[i] EXCEPT !.attempts = IF n < AttemptsCap THEN n + 1 ELSE n]
<1>1. i \in DOMAIN queue
  BY HeadOfDrain DEF RecordAttempt
<1>2. CASE queue' = [queue EXCEPT ![i].attempts = IF @ < AttemptsCap THEN @ + 1 ELSE @]
  <2>1. queue[i] \in Row /\ n \in 0..AttemptsCap
    BY <1>1, QueueType DEF Inv, Row
  <2>2. (IF n < AttemptsCap THEN n + 1 ELSE n) \in 0..AttemptsCap
    BY <2>1, OutboxAssumption
  <2>3. row \in Row /\ row.sent = queue[i].sent
    BY <2>1, <2>2 DEF Row
  <2>4. queue' = [queue EXCEPT ![i] = row]
    BY <1>2
  <2> HIDE DEF row
  <2> QED BY <1>1, <2>3, <2>4, RowWritten
<1>3. CASE queue' = queue
  BY <1>1, <1>3, QueueType DEF Inv
<1> QED BY <1>2, <1>3 DEF RecordAttempt

\* Marking the row attempted keeps the invariant,
LEMMA MarkSentInv == ASSUME Inv, MarkSent PROVE Inv'
<1>1. pc # "idle" /\ NextRow
  BY DEF MarkSent
<1>2. UNCHANGED <<link, delivered, crashes, losses, flips>> /\ faults' \in Nat
  <2>1. faults \in Nat
    BY DEF Inv, TypeOK
  <2> QED BY <2>1 DEF MarkSent, StoreWorks, StoreFails
<1>3. /\ drain' \in Seq(DOMAIN queue) /\ pc' \in {"idle", "send"}
      /\ pc' = "idle" <=> drain' = <<>>
      /\ Draining'
  BY <1>1, MarkSentEffect, NextRowKeeps
<1>4. TypeOK'
  BY <1>2, <1>3, MarkSentEffect DEF Inv, TypeOK, Row
<1> QED BY <1>3, <1>4 DEF Inv

\* and so does counting the attempt.
LEMMA RecordAttemptInv == ASSUME Inv, RecordAttempt PROVE Inv'
<1>1. pc # "idle" /\ NextRow
  BY DEF RecordAttempt
<1>2. UNCHANGED <<link, delivered, crashes, losses, flips>> /\ faults' \in Nat
  <2>1. faults \in Nat
    BY DEF Inv, TypeOK
  <2> QED BY <2>1 DEF RecordAttempt, StoreWorks, StoreFails
<1>3. /\ drain' \in Seq(DOMAIN queue) /\ pc' \in {"idle", "send"}
      /\ pc' = "idle" <=> drain' = <<>>
      /\ Draining'
  BY <1>1, RecordAttemptEffect, NextRowKeeps
<1>4. TypeOK'
  BY <1>2, <1>3, RecordAttemptEffect DEF Inv, TypeOK, Row
<1> QED BY <1>3, <1>4 DEF Inv

\* A crash forgets the drain and nothing else.
LEMMA CrashInv == ASSUME Inv, Crash PROVE Inv'
<1>1. TypeOK'
  BY DEF Crash, Inv, TypeOK
<1>2. Draining'
  BY DEF Crash, Draining
<1> QED BY <1>1, <1>2 DEF Inv

\* The invariant is inductive.
LEMMA NextInv == Inv /\ [Next]_vars => Inv'
<1> SUFFICES ASSUME Inv, [Next]_vars PROVE Inv'
  OBVIOUS
<1>1. CASE AttemptSend
  BY <1>1, SendInv, MarkSentInv, RecordAttemptInv DEF AttemptSend
<1>2. CASE LinkFlips
  BY <1>2 DEF LinkFlips, Inv, TypeOK, Draining, Delivered
<1>3. CASE UNCHANGED vars
  BY <1>3 DEF vars, Inv, TypeOK, Draining, Delivered
<1> QED BY <1>1, <1>2, <1>3, NotifyInv, FlushInv, CrashInv DEF Next

\* The outbox stays well-typed and mid-call exactly while rows are left, and
\* no call ever attempts a row that is already marked sent.
THEOREM InvAlways == Spec => []Inv
BY InitInv, NextInv, PTL DEF Spec

\* The type invariant of the outbox (services/outbox.go, tbot_queue).
THEOREM TypeCorrect == Spec => []TypeOK
<1>1. Inv => TypeOK
  BY DEF Inv
<1> QED BY <1>1, InvAlways, PTL

(***************************************************************************)
(* Copies.                                                                 *)
(***************************************************************************)
Copies(i) == {k \in DOMAIN delivered : delivered[k] = i}
Mishaps == faults + crashes + losses

\* The one copy that needs no mishap is that of a message marked sent, or about
\* to be marked: every copy an unsent message had before was paid for.
FirstCopy(i) == queue[i].sent \/ (pc = "mark" /\ Head(drain) = i)

Paid ==
    \A i \in DOMAIN queue :
       Cardinality(Copies(i)) <= Mishaps + (IF FirstCopy(i) THEN 1 ELSE 0)

\* Three counters add up to one.
LEMMA SumNat == \A a, b, c \in Nat : a + b + c \in Nat
OBVIOUS

\* Copies can be counted.
LEMMA CopiesType ==
    ASSUME TypeOK, NEW i
    PROVE  IsFiniteSet(Copies(i)) /\ Cardinality(Copies(i)) \in Nat /\ Mishaps \in Nat
<1>1. delivered \in Seq(DOMAIN queue) /\ Mishaps \in Nat
  BY DEF TypeOK, Mishaps
<1>2. Copies(i) \in SUBSET (1..Len(delivered)) /\ Len(delivered) \in Nat
  BY <1>1, LenProperties DEF Copies
<1>3. IsFiniteSet(1..Len(delivered))
  BY <1>2, FS_Interval
<1>4. IsFiniteSet(Copies(i))
  BY <1>2, <1>3, FS_Subset
<1> QED BY <1>1, <1>4, FS_CardinalityType

\* A message not enqueued yet has none.
LEMMA NoCopies ==
    ASSUME TypeOK, NEW i, i \notin DOMAIN queue
    PROVE  Copies(i) = {}
<1>1. delivered \in Seq(DOMAIN queue)
  BY DEF TypeOK
<1> QED BY <1>1, ElementOfSeq, LenProperties DEF Copies

\* A delivery is one more copy of its message and of no other.
LEMMA CopiesGrow ==
    ASSUME TypeOK, NEW i \in DOMAIN queue, delivered' = Append(delivered, i)
    PROVE  /\ Cardinality(Copies(i)') = Cardinality(Copies(i)) + 1
           /\ \A j : j # i => Copies(j)' = Copies(j)
<1> DEFINE n == Len(delivered) + 1
<1>1. delivered \in Seq(DOMAIN queue)
  BY DEF TypeOK
<1>2. /\ DOMAIN delivered = 1..Len(delivered) /\ Len(delivered) \in Nat
      /\ DOMAIN delivered' = 1..n /\ delivered'[n] = i
      /\ \A k \in 1..Len(delivered) : delivered'[k] = delivered[k]
  BY <1>1, AppendProperties, LenProperties
<1>3. Copies(i)' = Copies(i) \cup {n} /\ n \notin Copies(i)
  BY <1>2 DEF Copies
<1>4. \A j : j # i => Copies(j)' = Copies(j)
  BY <1>2 DEF Copies
<1>5. IsFiniteSet(Copies(i))
  BY CopiesType
<1>6. Cardinality(Copies(i) \cup {n}) = Cardinality(Copies(i)) + 1
  BY <1>3, <1>5, FS_AddElement
<1> QED BY <1>3, <1>4, <1>6

\* A step that delivers nothing is paid for, if a row that comes off "mark"
\* unsent costs a mishap.
LEMMA PaidWithoutDelivery ==
    ASSUME TypeOK, TypeOK', Paid, delivered' = delivered, Mishaps <= Mishaps',
           DOMAIN queue \subseteq DOMAIN queue',
           \A i \in DOMAIN queue :
              Mishaps < Mishaps' \/ (FirstCopy(i) => FirstCopy(i)')
    PROVE  Paid'
<1> SUFFICES ASSUME NEW i \in DOMAIN queue'
             PROVE  Cardinality(Copies(i)') <= Mishaps' + (IF FirstCopy(i)' THEN 1 ELSE 0)
  BY DEF Paid
<1>1. /\ Copies(i)' = Copies(i) /\ Cardinality(Copies(i)) \in Nat
      /\ Mishaps \in Nat /\ Mishaps' \in Nat
  <2>1. Mishaps' \in Nat
    <3>1. faults' \in Nat /\ crashes' \in Nat /\ losses' \in Nat
      BY DEF TypeOK
    <3> QED BY <3>1, SumNat DEF Mishaps
  <2> QED BY <2>1, CopiesType DEF Copies
<1>2. CASE i \in DOMAIN queue
  <2>1. Cardinality(Copies(i)) <= Mishaps + (IF FirstCopy(i) THEN 1 ELSE 0)
    BY <1>2 DEF Paid
  <2> QED BY <1>1, <1>2, <2>1
<1>3. CASE i \notin DOMAIN queue
  BY <1>1, <1>3, NoCopies, FS_EmptySet
<1> QED BY <1>2, <1>3

\* A copy that leaves is the first of its message, or its answer is lost.
LEMMA PaidSend == ASSUME Inv, Inv', Paid, Send PROVE Paid'
<1> PICK i : i = Head(drain)
  OBVIOUS
<1>1. i \in DOMAIN queue /\ ~queue[i].sent /\ pc = "send"
  BY HeadOfDrain DEF Send
<1>2. UNCHANGED <<queue, drain, faults, crashes>>
  BY DEF Send
<1>3. /\ Mishaps \in Nat /\ Mishaps' \in Nat
      /\ losses \in Nat /\ faults \in Nat /\ crashes \in Nat
  <2>1. Mishaps' \in Nat
    <3>1. faults' \in Nat /\ crashes' \in Nat /\ losses' \in Nat
      BY DEF Inv, TypeOK
    <3> QED BY <3>1, SumNat DEF Mishaps
  <2>2. losses \in Nat /\ faults \in Nat /\ crashes \in Nat
    BY DEF Inv, TypeOK
  <2> QED BY <2>1, <2>2 DEF Mishaps
<1>4. CASE delivered' = delivered /\ UNCHANGED losses
  <2>1. \A j \in DOMAIN queue : FirstCopy(j) => FirstCopy(j)'
    BY <1>1, <1>2 DEF FirstCopy
  <2>2. Mishaps' = Mishaps
    BY <1>2, <1>4 DEF Mishaps
  <2> QED BY <1>2, <1>3, <1>4, <2>1, <2>2, PaidWithoutDelivery DEF Inv
<1>5. CASE /\ delivered' = Append(delivered, i)
           /\ (pc' = "mark" /\ UNCHANGED losses) \/ losses' = losses + 1
  <2>1. \/ FirstCopy(i)' /\ Mishaps' = Mishaps
        \/ Mishaps' = Mishaps + 1
    BY <1>2, <1>3, <1>5 DEF FirstCopy, Mishaps
  <2>2. Cardinality(Copies(i)) <= Mishaps
    BY <1>1, <1>3, CopiesType DEF Paid, FirstCopy, Inv
  <2>3. ASSUME NEW j \in DOMAIN queue, j # i
        PROVE  Cardinality(Copies(j)') <= Mishaps' + (IF FirstCopy(j)' THEN 1 ELSE 0)
    <3>1. Copies(j)' = Copies(j) /\ Cardinality(Copies(j)) \in Nat
      BY <1>1, <1>5, <2>3, CopiesGrow, CopiesType DEF Inv
    <3>2. FirstCopy(j) => FirstCopy(j)'
      BY <1>1, <1>2 DEF FirstCopy
    <3>3. Mishaps <= Mishaps'
      BY <1>3, <2>1
    <3>4. Cardinality(Copies(j)) <= Mishaps + (IF FirstCopy(j) THEN 1 ELSE 0)
      BY DEF Paid
    <3> QED BY <1>3, <3>1, <3>2, <3>3, <3>4
  <2>4. Cardinality(Copies(i)') = Cardinality(Copies(i)) + 1 /\ Cardinality(Copies(i)) \in Nat
    BY <1>1, <1>5, CopiesGrow, CopiesType DEF Inv
  <2>5. Cardinality(Copies(i)') <= Mishaps' + (IF FirstCopy(i)' THEN 1 ELSE 0)
    BY <1>3, <2>1, <2>2, <2>4
  <2> QED BY <1>2, <2>3, <2>5 DEF Paid
<1> QED BY <1>4, <1>5 DEF Send

\* Every step that delivers a copy no mishap accounts for delivers the first.
LEMMA PaidNext == Inv /\ Inv' /\ Paid /\ [Next]_vars => Paid'
<1> SUFFICES ASSUME Inv, Inv', Paid, [Next]_vars PROVE Paid'
  OBVIOUS
<1> USE DEF Inv
<1>1. faults \in Nat /\ crashes \in Nat /\ losses \in Nat /\ Mishaps \in Nat
  BY DEF TypeOK, Mishaps
<1>2. CASE Notify
  <2>1. delivered' = delivered /\ pc = "idle" /\ Mishaps <= Mishaps'
    BY <1>1, <1>2 DEF Notify, StoreWorks, StoreFails, Mishaps
  <2>2. /\ DOMAIN queue \subseteq DOMAIN queue'
        /\ \A i \in DOMAIN queue : queue'[i] = queue[i]
    <3>1. CASE queue' = queue
      BY <3>1
    <3>2. CASE \E row \in Row : queue' = Append(queue, row)
      <4>1. queue \in Seq(Row) /\ DOMAIN queue = 1..Len(queue) /\ Len(queue) \in Nat
        BY QueueType
      <4> QED BY <3>2, <4>1, AppendProperties, LenProperties
    <3>3. ASSUME NEW at \in Seconds, NEW refused \in BOOLEAN
          PROVE  [createdAt |-> at, attempts |-> 0, sent |-> FALSE, refused |-> refused] \in Row
      BY OutboxAssumption DEF Row
    <3> QED BY <1>2, <3>1, <3>2, <3>3 DEF Notify
  <2>3. \A i \in DOMAIN queue : FirstCopy(i) => FirstCopy(i)'
    BY <2>1, <2>2 DEF FirstCopy
  <2> QED BY <2>1, <2>2, <2>3, PaidWithoutDelivery
<1>3. CASE Send
  BY <1>3, PaidSend
<1>4. CASE MarkSent
  <2>1. delivered' = delivered /\ pc = "mark" /\ DOMAIN queue' = DOMAIN queue
    BY <1>4, MarkSentEffect DEF MarkSent
  <2>2. CASE Mishaps < Mishaps'
    <3>1. Mishaps' \in Nat
      <4>1. faults' \in Nat /\ crashes' \in Nat /\ losses' \in Nat
        BY DEF TypeOK
      <4> QED BY <4>1, SumNat DEF Mishaps
    <3>2. Mishaps <= Mishaps'
      BY <1>1, <2>2, <3>1
    <3> QED BY <2>1, <2>2, <3>2, PaidWithoutDelivery
  <2>3. CASE ~(Mishaps < Mishaps')
    <3>1. Mishaps' = Mishaps /\ queue' = [queue EXCEPT ![Head(drain)].sent = TRUE]
      BY <1>1, <1>4, <2>3 DEF MarkSent, StoreWorks, StoreFails, Mishaps
    <3>2. Head(drain) \in DOMAIN queue /\ queue[Head(drain)] \in Row
      BY <1>4, MarkSentEffect, QueueType
    <3>3. \A i \in DOMAIN queue : FirstCopy(i) => queue'[i].sent
      BY <2>1, <3>1, <3>2 DEF FirstCopy, Row
    <3> QED BY <1>1, <2>1, <3>1, <3>3, PaidWithoutDelivery DEF FirstCopy
  <2> QED BY <2>2, <2>3
<1>5. CASE RecordAttempt
  <2>1. /\ delivered' = delivered /\ pc = "attempt" /\ Mishaps <= Mishaps'
        /\ DOMAIN queue' = DOMAIN queue
        /\ \A j \in DOMAIN queue : queue'[j].sent = queue[j].sent
    BY <1>1, <1>5, RecordAttemptEffect DEF RecordAttempt, StoreWorks, StoreFails, Mishaps
  <2>2. \A i \in DOMAIN queue : FirstCopy(i) => FirstCopy(i)'
    BY <2>1 DEF FirstCopy
  <2> QED BY <2>1, <2>2, PaidWithoutDelivery
<1>6. CASE Crash
  <2>1. delivered' = delivered /\ queue' = queue /\ Mishaps < Mishaps'
    BY <1>1, <1>6 DEF Crash, Mishaps
  <2>2. Mishaps' \in Nat
    <3>1. faults' \in Nat /\ crashes' \in Nat /\ losses' \in Nat
      BY DEF TypeOK
    <3> QED BY <3>1, SumNat DEF Mishaps
  <2>3. Mishaps <= Mishaps'
    BY <1>1, <2>1, <2>2
  <2> QED BY <2>1, <2>3, PaidWithoutDelivery
<1>7. CASE Flush \/ LinkFlips \/ UNCHANGED vars
  <2>1. delivered' = delivered /\ queue' = queue /\ Mishaps <= Mishaps'
    BY <1>1, <1>7 DEF Flush, LinkFlips, vars, StoreWorks, StoreFails, Mishaps
  <2>2. pc = "mark" => pc' = "mark" /\ drain' = drain
    BY <1>7 DEF Flush, LinkFlips, vars
  <2>3. \A i \in DOMAIN queue : FirstCopy(i) => FirstCopy(i)'
    BY <2>1, <2>2 DEF FirstCopy
  <2> QED BY <2>1, <2>3, PaidWithoutDelivery
<1> QED BY <1>2, <1>3, <1>4, <1>5, <1>6, <1>7 DEF Next, AttemptSend

\* The operator gets a message once, and once more for each lost answer, failed
\* write of sent_at or crash: Flush resends nothing that is marked, and marks
\* what was delivered unless something went wrong in between.
THEOREM DuplicatesHold == Spec => []DuplicatesAccountedFor
<1>1. Init => Paid
  BY DEF Init, Paid
<1>2. Inv /\ Paid => DuplicatesAccountedFor
  <2> SUFFICES ASSUME Inv, Paid, NEW i \in DOMAIN queue
               PROVE  Cardinality(Copies(i)) <= 1 + faults + crashes + losses
    BY DEF DuplicatesAccountedFor, Copies
  <2>1. Cardinality(Copies(i)) <= Mishaps + (IF FirstCopy(i) THEN 1 ELSE 0)
    BY DEF Paid
  <2>2. Cardinality(Copies(i)) \in Nat /\ Mishaps \in Nat
    BY CopiesType DEF Inv
  <2> QED BY <2>1, <2>2 DEF Mishaps, Inv, TypeOK
<1> QED BY <1>1, <1>2, InvAlways, PaidNext, PTL DEF Spec

(***************************************************************************)
(* The refinement.                                                         *)
(***************************************************************************)
Settled == {i \in DOMAIN queue : queue[i].sent}
view == <<DOMAIN queue, Settled, delivered>>

\* The empty table is an empty channel.
LEMMA InitRefines == Init => Channel!Init
BY DEF Init, Channel!Init

\* Enqueueing a message is its acceptance by the channel.
LEMMA NotifyRefines == ASSUME Inv, Notify PROVE Channel!Accept \/ UNCHANGED view
<1>1. CASE queue' = queue
  BY <1>1 DEF Notify, view, Settled
<1>2. CASE \E at \in Seconds, refused \in BOOLEAN :
             queue' = Append(queue, [createdAt |-> at, attempts |-> 0,
                                     sent |-> FALSE, refused |-> refused])
  <2> PICK at \in Seconds, refused \in BOOLEAN :
         queue' = Append(queue, [createdAt |-> at, attempts |-> 0,
                                 sent |-> FALSE, refused |-> refused])
    BY <1>2
  <2> DEFINE row == [createdAt |-> at, attempts |-> 0, sent |-> FALSE, refused |-> refused]
             m == Len(queue) + 1
  <2>1. row \in Row /\ ~row.sent /\ queue' = Append(queue, row)
    BY OutboxAssumption DEF Row
  <2> HIDE DEF row
  <2>2. queue \in Seq(Row) /\ DOMAIN queue = 1..Len(queue) /\ Len(queue) \in Nat
    BY QueueType DEF Inv
  <2>3. /\ queue' \in Seq(Row) /\ Len(queue') = Len(queue) + 1
        /\ queue'[m] = row /\ \A i \in 1..Len(queue) : queue'[i] = queue[i]
    BY <2>1, <2>2, AppendProperties
  <2>4. DOMAIN queue' = 1..m
    BY <2>3, LenProperties
  <2>5. DOMAIN queue' = DOMAIN queue \cup {m}
    BY <2>2, <2>4
  <2>6. Settled' = Settled
    BY <2>1, <2>2, <2>3, <2>5 DEF Settled
  <2>7. m \in (1..MaxMessages) \ DOMAIN queue
    <3>1. Len(queue) < MaxMessages
      BY DEF Notify
    <3> QED BY <2>2, <3>1, OutboxAssumption
  <2>8. delivered' = delivered
    BY DEF Notify
  <2> QED BY <2>5, <2>6, <2>7, <2>8 DEF Channel!Accept, Settled
<1> QED BY <1>1, <1>2 DEF Notify

\* A send delivers a message that is accepted and not settled, or nothing.
LEMMA SendRefines == ASSUME Inv, Send PROVE Channel!Deliver \/ UNCHANGED view
<1>1. Head(drain) \in DOMAIN queue \ Settled
  BY HeadOfDrain DEF Send, Settled
<1>2. UNCHANGED queue /\ (delivered' = Append(delivered, Head(drain)) \/ delivered' = delivered)
  BY DEF Send
<1> QED BY <1>1, <1>2 DEF Channel!Deliver, view, Settled

\* Setting sent_at settles a message that was delivered.
LEMMA MarkSentRefines == ASSUME Inv, MarkSent PROVE Channel!Settle \/ UNCHANGED view
<1> DEFINE i == Head(drain)
<1>1. delivered' = delivered
  BY DEF MarkSent
<1>2. CASE queue' = queue
  BY <1>1, <1>2 DEF view, Settled
<1>3. CASE queue'[i].sent
  <2>1. Settled' = Settled \cup {i}
    BY <1>3, MarkSentEffect DEF Settled
  <2>2. i \in Delivered \ Settled
    BY HeadOfDrain DEF MarkSent, Inv, Draining, Settled
  <2> QED BY <1>1, <2>1, <2>2, MarkSentEffect DEF Channel!Settle, Channel!Delivered, Delivered, Settled
<1> QED BY <1>2, <1>3, MarkSentEffect

\* Counting an attempt is invisible to the channel.
LEMMA RecordAttemptRefines == ASSUME Inv, RecordAttempt PROVE UNCHANGED view
<1>1. delivered' = delivered
  BY DEF RecordAttempt
<1> QED BY <1>1, RecordAttemptEffect DEF view, Settled

\* Every step of the outbox is a step of the channel, or a stutter.
LEMMA StepRefines == Inv /\ [Next]_vars => [Channel!Next]_view
<1> SUFFICES ASSUME Inv, [Next]_vars PROVE Channel!Next \/ UNCHANGED view
  OBVIOUS
<1>1. CASE AttemptSend
  BY <1>1, SendRefines, MarkSentRefines, RecordAttemptRefines DEF AttemptSend, Channel!Next
<1>2. CASE Flush \/ Crash \/ LinkFlips \/ UNCHANGED vars
  BY <1>2 DEF Flush, Crash, LinkFlips, vars, view, Settled
<1> QED BY <1>1, <1>2, NotifyRefines DEF Next, Channel!Next

\* The outbox implements the at-least-once channel: a message handed to Notify
\* and enqueued is never lost, is marked sent only after a delivery, and is
\* never sent again once it is marked (Notify, Flush, attemptSend).
THEOREM Refines == Spec => ChannelSpec
<1>1. Inv /\ [Next]_vars => [Channel!Next]_<<DOMAIN queue, {i \in DOMAIN queue : queue[i].sent}, delivered>>
  BY StepRefines DEF view, Settled
<1> QED BY <1>1, InitRefines, InvAlways, PTL DEF Spec, ChannelSpec, Channel!Spec

============================================================================
