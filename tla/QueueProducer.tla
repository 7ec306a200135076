---------------------------- MODULE QueueProducer ----------------------------
(***************************************************************************)
(* QueueService of relay-api (direct and gasless requests take the same    *)
(* path): create the row as "queued", send the message, answer 202; when   *)
(* the send fails, mark the row "failed" and answer 503.                   *)
(*                                                                         *)
(* The send is two events, the message being stored and the SDK call       *)
(* returning, so that a consumer can overtake the producer and a call can  *)
(* fail although the message was stored.                                   *)
(***************************************************************************)
EXTENDS SqsQueue

VARIABLE req     \* the progress of each HTTP request in relay-api

\* "refused": 503 before any send; "rejected": 503 after a failed send.
ReqState == {"idle", "sending", "rollback", "accepted", "refused", "rejected",
             "crashed"}

ReqTypeOK == req \in [Tx -> ReqState]

ReqInit == req = [t \in Tx |-> "idle"]

\* Phase 1: prisma.transaction.create.
CreateRow(t) ==
    /\ req[t] = "idle"
    /\ req' = [req EXCEPT ![t] = "sending"]
    /\ db' = [db EXCEPT ![t] = QueuedRow]
    /\ UNCHANGED sqs

\* The create fails: 503.  The row exists if only its answer was lost.
CreateRowFails(t) ==
    /\ req[t] = "idle"
    /\ req' = [req EXCEPT ![t] = "refused"]
    /\ db' \in {db, [db EXCEPT ![t] = QueuedRow]}
    /\ UNCHANGED sqs

\* Phase 2: SQS stores the message, while the call is under way or from what is
\* left of it on the network after the call was given up.
MessageStored(t) ==
    /\ req[t] \in {"sending", "rollback", "rejected", "crashed"}
    /\ Enqueue(t)
    /\ UNCHANGED <<req, db>>

\* (A mutation of SendSucceeds: the send is not awaited.)
SendNotAwaited(t) ==
    /\ req[t] = "sending"
    /\ req' = [req EXCEPT ![t] = "accepted"]
    /\ UNCHANGED <<db, sqs>>

\* sendMessage resolves: 202 with status "queued".
SendSucceeds(t) ==
    /\ req[t] = "sending"
    /\ sqs[t].place # "unsent"
    /\ req' = [req EXCEPT ![t] = "accepted"]
    /\ UNCHANGED <<db, sqs>>

\* sendMessage rejects, whether or not the message was stored.
SendFails(t) ==
    /\ req[t] = "sending"
    /\ req' = [req EXCEPT ![t] = "rollback"]
    /\ UNCHANGED <<db, sqs>>

\* Phase 3: the row is marked failed, whatever it says by now, then 503.
RollbackRow(t) ==
    /\ req[t] = "rollback"
    /\ SetStatus(t, "failed")
    /\ req' = [req EXCEPT ![t] = "rejected"]
    /\ UNCHANGED sqs

\* The rollback fails too: logged, 503, the row is left as it is.
RollbackFails(t) ==
    /\ req[t] = "rollback"
    /\ req' = [req EXCEPT ![t] = "rejected"]
    /\ UNCHANGED <<db, sqs>>

\* relay-api dies with the request open; nothing resumes it.
ApiCrash(t) ==
    /\ req[t] \in {"sending", "rollback"}
    /\ req' = [req EXCEPT ![t] = "crashed"]
    /\ UNCHANGED <<db, sqs>>

ProducerStep(t) ==
    \/ CreateRow(t) \/ CreateRowFails(t)
    \/ MessageStored(t)
    \/ SendSucceeds(t) \/ SendFails(t)
    \/ RollbackRow(t) \/ RollbackFails(t)
    \/ ApiCrash(t)

=============================================================================
