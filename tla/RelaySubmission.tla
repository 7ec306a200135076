--------------------------- MODULE RelaySubmission ---------------------------
(***************************************************************************)
(* The path of a relay request up to its acceptance by a relayer: relay-api*)
(* (QueueProducer), SQS (SqsQueue), queue-consumer (QueueConsumer) and the *)
(* relayers' intake (OzIntake) over the shared table.                      *)
(*                                                                         *)
(* The writers of the row's status that come after acceptance, the webhook *)
(* and the status query, are one action here, StatusWritten; StatusSync    *)
(* models them.                                                            *)
(***************************************************************************)
EXTENDS QueueProducer, QueueConsumer, FiniteSets

VARIABLE exposed    \* auxiliary: the transactions hit by an event after which
                    \* handleMessage can no longer tell what it did

vars == <<db, sqs, req, post, home, proc, handler, exposed>>

TypeOK == /\ DbTypeOK /\ SqsTypeOK /\ ReqTypeOK /\ IntakeTypeOK
          /\ ConsumerTypeOK
          /\ exposed \subseteq Tx

Init == /\ DbInit /\ SqsInit /\ ReqInit /\ IntakeInit /\ ConsumerInit
        /\ exposed = {}

\* The handler of d stops here with a POST out of which nothing is recorded.
LosesTrack(d) == \/ handler[d].pc = "posting" /\ post[d] # "lost"
                 \/ handler[d].pc = "saving"

\* A webhook or a status query writes the status of the transaction's relayer
\* transaction; both find the row by an ozRelayerTxId it already holds.
StatusWritten(t) ==
    /\ db[t].ozId # None
    /\ \E s \in OzStatus : SetStatus(t, s)
    /\ UNCHANGED <<sqs, req, post, home, proc, handler>>

\* The visibility timeout ends while an earlier handler has yet to record its
\* relayer transaction, or before it so much as read the row.
Overtaken(t) == \E d \in Delivery : /\ TxOf(d) = t
                                    /\ Submitter(d) \/ handler[d].pc = "received"

Produce(t) ==
    /\ ProducerStep(t)
    /\ UNCHANGED <<post, home, proc, handler, exposed>>

Handle(d) ==
    /\ HandlerStep(d)
    /\ exposed' = IF handler'[d].pc = "over" /\ LosesTrack(d)
                  THEN exposed \cup {TxOf(d)} ELSE exposed
    /\ UNCHANGED req

Process(c) ==
    /\ ProcessStep(c)
    /\ exposed' = exposed \cup
           {TxOf(d) : d \in {e \in Delivery : /\ LosesTrack(e)
                                              /\ handler'[e].pc = "over"}}
    /\ UNCHANGED req

VisibilityTimeout(t) ==
    /\ Reappear(t)
    /\ exposed' = IF Overtaken(t) THEN exposed \cup {t} ELSE exposed
    /\ UNCHANGED <<db, req, post, home, proc, handler>>

Unreceived(t) ==
    /\ ReceiveInVain(t)
    /\ UNCHANGED <<req, exposed>>

Redrive(t) ==
    /\ MoveToDlq(t)
    /\ UNCHANGED <<db, req, post, home, proc, handler, exposed>>

Intake(d) ==
    /\ RelayerAccepts(d) \/ RelayerLoses(d)
    /\ UNCHANGED <<db, sqs, req, proc, handler, exposed>>

PathStep ==
    \/ \E t \in Tx : \/ Produce(t)
                     \/ VisibilityTimeout(t)
                     \/ Unreceived(t)
                     \/ Redrive(t)
    \/ \E d \in Delivery : Handle(d) \/ Intake(d)
    \/ \E c \in Consumer : Process(c)

Next == PathStep \/ \E t \in Tx : StatusWritten(t) /\ UNCHANGED exposed

Spec == Init /\ [][Next]_vars

-----------------------------------------------------------------------------
(* Fairness.  Every await of a handler settles (HTTP and SDK calls carry     *)
(* timeouts, Prisma rejects on a lost connection); SQS lets timeouts expire  *)
(* and redrives; a stopped process exits and its container is restarted      *)
(* (docker-compose: restart unless-stopped).  Receiving needs strong         *)
(* fairness: a process that stops and starts for ever still polls in one of  *)
(* its lives.  Nothing is assumed of the network, of the relayers, of the    *)
(* webhooks or of requests in relay-api.                                     *)

Poll(t) == \E c \in Consumer : Receive(c, t) /\ UNCHANGED <<req, exposed>>

Fairness ==
    /\ \A d \in Delivery : WF_vars(Handle(d))
    /\ \A t \in Tx : /\ SF_vars(Poll(t))
                    /\ WF_vars(VisibilityTimeout(t))
                    /\ WF_vars(Redrive(t))
    /\ \A c \in Consumer :
           WF_vars((ShutdownEnds(c) \/ ProcessStart(c)) /\ Process(c))

FairSpec == Spec /\ Fairness

-----------------------------------------------------------------------------
(* Properties.                                                               *)

\* A transaction is in somebody's hands once its client got a 202: SQS still
\* has the message (or the dead-letter queue has), or the row names the
\* relayer transaction.  This is what the order of handleMessage is for:
\* post, save the id, and only then delete.
NoAcceptedTransactionLost ==
    \A t \in Tx : req[t] = "accepted" => Held(t) \/ db[t].ozId # None

\* handleMessage relays a transaction at most once unless it was exposed: its
\* visibility timeout ended under a working handler, or a handler ended
\* between sending the POST and saving the id.  Failures anywhere else, and
\* any number of redeliveries, are harmless.
ExactlyOnceUnlessExposed ==
    \A t \in Tx : t \notin exposed => Cardinality(Submissions(t)) <= 1

\* A row without ozRelayerTxId on which no handler is working was never sent
\* to a relayer, unless exposed: what a redelivery, or an operator who replays
\* the dead-letter queue, relies on.
UnrecordedMeansUnsent ==
    \A t \in Tx \ exposed :
        /\ db[t].ozId = None
        /\ \A d \in Delivery : TxOf(d) = t => ~Submitter(d)
        => Submissions(t) = {}

\* ozRelayerTxId names a transaction a relayer really accepted for this row,
\* and ozRelayerUrl the relayer that has it: webhooks are matched by the one
\* and status queries sent to the other.
RecordedSubmissionIsReal ==
    \A t \in Tx : db[t].ozId # None =>
        /\ db[t].ozId \in RelayerTxs(t)
        /\ db[t].ozUrl = home[db[t].ozId]

\* Nothing is under way for t that could add a relayer transaction, and the
\* row would turn every further delivery away.
Quiet(t) == /\ Settled(t)
            /\ \A d \in Delivery : TxOf(d) = t =>
                   ~Submitter(d) /\ post[d] # "wire"

\* Once quiet, always quiet: redeliveries, rollbacks, webhooks and restarts
\* never reopen a settled transaction nor add a relayer transaction to it.
QuietIsFinal ==
    [][\A t \in Tx : Quiet(t) => Quiet(t)' /\ RelayerTxs(t)' = RelayerTxs(t)]_vars

\* Every accepted transaction is in the end recorded as relayed, or its message
\* is in the dead-letter queue, however often consumers stop and restart.
AcceptedIsRelayedOrDeadLettered ==
    \A t \in Tx : req[t] = "accepted"
        ~> db[t].ozId # None \/ sqs[t].place = "dlq"

\* The abstract promise, and how rows and messages implement it.
Custodian(t) ==
    IF db[t].ozId # None THEN "relayer"
    ELSE CASE sqs[t].place \in {"visible", "inflight"} -> "queue"
           [] sqs[t].place = "dlq"     -> "dlq"
           [] sqs[t].place = "deleted" -> "nobody"
           [] sqs[t].place = "unsent"  ->
                 IF db[t].status = "absent" THEN "client" ELSE "api"

Answer(t) == CASE req[t] = "accepted" -> "yes"
               [] req[t] \in {"refused", "rejected"} -> "no"
               [] OTHER -> "none"

custodyOf == [t \in Tx |-> Custodian(t)]
answerOf  == [t \in Tx |-> Answer(t)]

Promises == INSTANCE RequestCustody WITH custody <- custodyOf, answer <- answerOf

\* The submission path implements the custody contract of the 202 answer.
KeepsCustody == Promises!Spec

\* What the writers of the status see of handlers, relayers and requests.
postSeen == [d \in Delivery |->
    IF post[d] = "accepted" THEN "accepted"
    ELSE IF Submitter(d) \/ post[d] = "wire" THEN "wire"
    ELSE "none"]

homeSeen == [d \in Delivery |-> IF post[d] = "accepted" THEN home[d] ELSE None]

SubmissionRow == INSTANCE SharedRow WITH
    post    <- postSeen,
    home    <- homeSeen,
    working <- {d \in Delivery : Submitter(d)},
    refused <- {t \in Tx : req[t] = "rejected"}

\* The submission path, with its failures, shutdowns and races, keeps to the
\* contract on the row by which StatusSync knows it.
KeepsToTheRow == SubmissionRow!RowSpec

-----------------------------------------------------------------------------
(* The inductive invariant behind the safety properties.                     *)

\* A delivery has a handler once it was received, and a POST only once its
\* handler got that far.
HandlersFollowDeliveries ==
    \A d \in Delivery :
        /\ handler[d].pc # "idle" <=> d[2] <= sqs[TxOf(d)].count
        /\ handler[d].owner # None <=> Live(d)
        /\ handler[d].pc \in {"idle", "received", "marking", "routing"}
              => post[d] = "none"
        /\ handler[d].pc = "saving" => post[d] = "accepted"

\* What exists of a request before its row, and before its message.
NothingBeforeTheRow ==
    \A t \in Tx :
        /\ req[t] \in {"idle", "refused"} => sqs[t].place = "unsent"
        /\ req[t] = "idle" => db[t] = NoRow
        /\ db[t].status = "absent" => req[t] \in {"idle", "refused"} /\ db[t] = NoRow
        /\ req[t] = "accepted" => sqs[t].place # "unsent"
        /\ sqs[t].place = "unsent" => sqs[t].count = 0

\* A handler that deletes has seen, or written, a reason that still stands.
DeletedForAReason ==
    \A t \in Tx :
        \/ db[t].ozId # None
        \/ req[t] = "rejected"
        \/ /\ db[t].status \notin {"confirmed", "failed"}
           /\ sqs[t].place # "deleted"
           /\ \A d \in Delivery : TxOf(d) = t => handler[d].pc # "deleting"

\* While t is not exposed, the newest delivery alone is at work on it, with its
\* message hidden; it works on an unrecorded row; and what was submitted is
\* either in its hands or recorded.
OneWorkerUnlessExposed ==
    \A d \in Delivery : TxOf(d) \notin exposed =>
        /\ Submitter(d) \/ handler[d].pc = "received" =>
              /\ d[2] = sqs[TxOf(d)].count
              /\ sqs[TxOf(d)].place \in {"inflight", "deleted"}
        /\ Submitter(d) => db[TxOf(d)].ozId = None
        /\ post[d] \in {"wire", "accepted"} =>
              \/ handler[d].pc \in {"posting", "saving"}
              \/ db[TxOf(d)].ozId = d

IInv == /\ HandlersFollowDeliveries
        /\ NothingBeforeTheRow
        /\ RecordedSubmissionIsReal
        /\ DeletedForAReason
        /\ OneWorkerUnlessExposed

-----------------------------------------------------------------------------
(* Claims of the repository that the code does not keep.                     *)

\* schema.prisma:29, ozRelayerTxId is stored "to prevent duplicate
\* submissions"; FIRE_AND_FORGET_PATTERN.md:494, a message processed twice
\* makes "No duplicate OZ Relayer submission".
NoDuplicateSubmission == \A t \in Tx : Cardinality(RelayerTxs(t)) <= 1

\* queue-consumer/README.md:162-163: after the move to the dead-letter queue
\* the transaction's status is set to failed.
DeadLetterMarksFailed ==
    \A t \in Tx : sqs[t].place = "dlq" ~> db[t].status = "failed"

=============================================================================
