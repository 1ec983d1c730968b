---------------------------- MODULE CallbackQueue ----------------------------
(***************************************************************************)
(* What one activation of a callback session promises its consumer: a      *)
(* bounded queue that delivers the accepted records in the order of their  *)
(* sequence numbers, once each, and drops a record only when it is full.   *)
(***************************************************************************)
EXTENDS Naturals, Sequences

CONSTANTS Capacity, Records

VARIABLES
  open,         \* an activation owns the queue
  queue,        \* records accepted and not yet delivered
  delivered,    \* records delivered to the consumer in this activation
  dropped       \* records refused in this activation

vars == <<open, queue, delivered, dropped>>

Init ==
  /\ open = FALSE
  /\ queue = <<>>
  /\ delivered = <<>>
  /\ dropped = 0

Open ==
  /\ ~open
  /\ open' = TRUE
  /\ queue' = <<>>
  /\ delivered' = <<>>
  /\ dropped' = 0

Accept(record) ==
  /\ open
  /\ Len(queue) < Capacity
  /\ LET accepted == delivered \o queue IN
       \A i \in DOMAIN accepted : accepted[i].sequence < record.sequence
  /\ queue' = Append(queue, record)
  /\ UNCHANGED <<open, delivered, dropped>>

Drop ==
  /\ open
  /\ Len(queue) = Capacity
  /\ dropped' = dropped + 1
  /\ UNCHANGED <<open, queue, delivered>>

Deliver(count) ==
  /\ open
  /\ delivered' = delivered \o SubSeq(queue, 1, count)
  /\ queue' = SubSeq(queue, count + 1, Len(queue))
  /\ UNCHANGED <<open, dropped>>

\* What was accepted and never drained is discarded with the activation.
Close ==
  /\ open
  /\ open' = FALSE
  /\ queue' = <<>>
  /\ UNCHANGED <<delivered, dropped>>

Next ==
  \/ Open \/ Drop \/ Close
  \/ \E record \in Records : Accept(record)
  \/ \E count \in 1..Len(queue) : Deliver(count)

Spec == Init /\ [][Next]_vars
=============================================================================
