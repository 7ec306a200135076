------------------------------ MODULE SqsQueue ------------------------------
(***************************************************************************)
(* The SQS queue `relay-transactions` and its dead-letter queue, as the    *)
(* services use it: a standard queue, at-least-once, unordered, with a     *)
(* visibility timeout and a redrive policy.  QueueService sends one        *)
(* message per row, so a message is named by its transaction.              *)
(*                                                                         *)
(* The count of a message is its ApproximateReceiveCount; a receipt handle *)
(* is identified with the count at which it was issued.                    *)
(***************************************************************************)
EXTENDS TransactionStore

VARIABLE sqs     \* where each message is and how often it was received

Place == {"unsent", "visible", "inflight", "deleted", "dlq"}

SqsTypeOK == sqs \in [Tx -> [place : Place, count : 0..MaxReceive]]

SqsInit == sqs = [t \in Tx |-> [place |-> "unsent", count |-> 0]]

\* The message is still in the hands of SQS: it will be delivered again or
\* an operator can find it in the dead-letter queue.
Held(t) == sqs[t].place \in {"visible", "inflight", "dlq"}

\* SQS stores the message.
Enqueue(t) ==
    /\ sqs[t].place = "unsent"
    /\ sqs' = [sqs EXCEPT ![t].place = "visible"]

\* ReceiveMessage returns the message and hides it.
Dequeue(t) ==
    /\ sqs[t].place = "visible"
    /\ sqs[t].count < MaxReceive
    /\ sqs' = [sqs EXCEPT ![t] = [place |-> "inflight", count |-> @.count + 1]]

\* The visibility timeout of a received message that nobody deleted ends.
Reappear(t) ==
    /\ sqs[t].place = "inflight"
    /\ sqs' = [sqs EXCEPT ![t].place = "visible"]

\* Redrive: a message received maxReceiveCount times is not delivered again.
MoveToDlq(t) ==
    /\ sqs[t].place = "visible"
    /\ sqs[t].count = MaxReceive
    /\ sqs' = [sqs EXCEPT ![t].place = "dlq"]

\* DeleteMessage with the k-th receipt handle.  The newest handle deletes the
\* message, even after its timeout; an older one may be ignored by SQS, and so
\* is any handle once the message was moved or deleted.
DeleteWith(t, k) ==
    \/ /\ sqs[t].place \in {"visible", "inflight"}
       /\ sqs' = [sqs EXCEPT ![t].place = "deleted"]
    \/ /\ k < sqs[t].count \/ sqs[t].place \in {"deleted", "dlq"}
       /\ UNCHANGED sqs

=============================================================================
