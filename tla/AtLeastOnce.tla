---------------------------- MODULE AtLeastOnce ----------------------------
(***************************************************************************)
(* What the outbox promises its callers: a message that was accepted may   *)
(* be delivered again and again, but until it is settled it stays          *)
(* deliverable, it is settled only after a delivery, and once settled it   *)
(* is never delivered again.  Nothing that was not accepted is delivered.  *)
(***************************************************************************)
EXTENDS Naturals, Sequences

CONSTANT Ids

VARIABLES accepted, settled,   \* sets of message ids
          delivered            \* the ids the recipient got, in order

Delivered == {delivered[k] : k \in DOMAIN delivered}

Init == accepted = {} /\ settled = {} /\ delivered = <<>>

Accept == \E m \in Ids \ accepted :
    accepted' = accepted \cup {m} /\ UNCHANGED <<settled, delivered>>

Deliver == \E m \in accepted \ settled :
    delivered' = Append(delivered, m) /\ UNCHANGED <<accepted, settled>>

Settle == \E m \in Delivered \ settled :
    settled' = settled \cup {m} /\ UNCHANGED <<accepted, delivered>>

Next == Accept \/ Deliver \/ Settle

Spec == Init /\ [][Next]_<<accepted, settled, delivered>>

============================================================================
