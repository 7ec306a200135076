---------------------------- MODULE QueueConsumer ----------------------------
(***************************************************************************)
(* ConsumerService of queue-consumer: polling, handleMessage, shutdown.    *)
(*                                                                         *)
(* startProcessing starts a poll every second without awaiting the one     *)
(* before, and several processes may run, so the handlers of all           *)
(* deliveries interleave freely; a handler takes one step per await.       *)
(*                                                                         *)
(*   received -> marking -> routing -> posting -> saving -> deleting -> over*)
(*      \-> deleting (row already settled)                                 *)
(*                                                                         *)
(* Every await may fail; the catch block swallows the error and the        *)
(* handler is over, with the message left to its visibility timeout.       *)
(***************************************************************************)
EXTENDS SqsQueue, OzIntake

CONSTANT Consumer      \* consumer processes

ASSUME ConsumerAssumption == None \notin Consumer

VARIABLES
    proc,      \* each process: polling, shutting down, or not running
    handler    \* each delivery's handleMessage: its next await, its process

Pc == {"idle", "received", "marking", "routing", "posting", "saving",
       "deleting", "over"}

Handling == [pc : Pc, owner : Consumer \cup {None}]

ConsumerTypeOK ==
    /\ proc \in [Consumer -> {"running", "stopping", "down"}]
    /\ handler \in [Delivery -> Handling]

ConsumerInit ==
    /\ proc = [c \in Consumer |-> "running"]
    /\ handler = [d \in Delivery |-> [pc |-> "idle", owner |-> None]]

Over == [pc |-> "over", owner |-> None]

\* A handler that runs, and one that runs and may yet add a relayer
\* transaction or record one.
Live(d)      == handler[d].pc \notin {"idle", "over"}
Submitter(d) == handler[d].pc \in {"marking", "routing", "posting", "saving"}

Goto(d, to) == handler' = [handler EXCEPT ![d].pc = to]

\* (Mutations of Settled: the id is not looked at; work begun counts as done.)
SettledByStatus(t) == db[t].status \in {"confirmed", "failed"}
SettledOnceBegun(t) == \/ db[t].status \in {"processing", "confirmed", "failed"}
                       \/ db[t].ozId # None

\* The terminal check and the ozRelayerTxId check of handleMessage.
Settled(t) == \/ db[t].status \in {"confirmed", "failed"}
              \/ db[t].ozId # None

-----------------------------------------------------------------------------

\* processMessages of a process that is not shutting down receives t.
Receive(c, t) ==
    /\ proc[c] = "running"
    /\ Dequeue(t)
    /\ handler' = [handler EXCEPT ![<<t, sqs[t].count + 1>>] =
                       [pc |-> "received", owner |-> c]]
    /\ UNCHANGED <<db, post, home, proc>>

\* ReceiveMessage hides a message whose batch nobody handles: the poll was under
\* way when the shutdown began or the process died, or its answer was lost.
ReceiveInVain(t) ==
    /\ Dequeue(t)
    /\ handler' = [handler EXCEPT ![<<t, sqs[t].count + 1>>] = Over]
    /\ UNCHANGED <<db, post, home, proc>>

\* A message of the batch that the loop leaves because of the shutdown.
Skip(d) ==
    /\ handler[d].pc = "received"
    /\ proc[handler[d].owner] = "stopping"
    /\ handler' = [handler EXCEPT ![d] = Over]
    /\ UNCHANGED <<db, sqs, post, home, proc>>

\* (A mutation of ReadRow: no terminal check.)
ReadRowIgnoringStatus(d) ==
    /\ handler[d].pc = "received"
    /\ Goto(d, IF db[TxOf(d)].ozId # None THEN "deleting" ELSE "marking")
    /\ UNCHANGED <<db, sqs, post, home, proc>>

\* findUnique, and what the handler decides from the row it got.
ReadRow(d) ==
    /\ handler[d].pc = "received"
    /\ Goto(d, IF Settled(TxOf(d)) THEN "deleting" ELSE "marking")
    /\ UNCHANGED <<db, sqs, post, home, proc>>

\* UPDATE status = 'processing'.
MarkProcessing(d) ==
    /\ handler[d].pc = "marking"
    /\ SetStatus(TxOf(d), "processing")
    /\ Goto(d, "routing")
    /\ UNCHANGED <<sqs, post, home, proc>>

\* (A mutation of RouteAndPost: the POST is not awaited.)
RouteAndPostUnawaited(d) ==
    /\ handler[d].pc = "routing"
    /\ \E r \in Relayer : PutOnWire(d, r)
    /\ Goto(d, "saving")
    /\ UNCHANGED <<db, sqs, proc>>

\* getAvailableRelayer returns some relayer; the POST leaves for it.
RouteAndPost(d) ==
    /\ handler[d].pc = "routing"
    /\ \E r \in Relayer : PutOnWire(d, r)
    /\ Goto(d, "posting")
    /\ UNCHANGED <<db, sqs, proc>>

\* The answer to the POST arrives with the relayer transaction's id.
PostAnswered(d) ==
    /\ handler[d].pc = "posting"
    /\ post[d] = "accepted"
    /\ Goto(d, "saving")
    /\ UNCHANGED <<db, sqs, post, home, proc>>

\* (Mutations of SaveSubmission: the id is not saved; the columns are swapped;
\* the router is asked again for the URL.)
SaveStatusOnly(d) ==
    /\ handler[d].pc = "saving"
    /\ SetStatus(TxOf(d), "submitted")
    /\ Goto(d, "deleting")
    /\ UNCHANGED <<sqs, post, home, proc>>

SaveSwapped(d) ==
    /\ handler[d].pc = "saving"
    /\ db' = [db EXCEPT ![TxOf(d)] =
                  [status |-> "submitted", ozId |-> home[d], ozUrl |-> d]]
    /\ Goto(d, "deleting")
    /\ UNCHANGED <<sqs, post, home, proc>>

SaveAnyRelayer(d) ==
    /\ handler[d].pc = "saving"
    /\ \E r \in Relayer :
           db' = [db EXCEPT ![TxOf(d)] =
                     [status |-> "submitted", ozId |-> d, ozUrl |-> r]]
    /\ Goto(d, "deleting")
    /\ UNCHANGED <<sqs, post, home, proc>>

\* One UPDATE: status, ozRelayerTxId and ozRelayerUrl.
SaveSubmission(d) ==
    /\ handler[d].pc = "saving"
    /\ db' = [db EXCEPT ![TxOf(d)] =
                  [status |-> "submitted", ozId |-> d, ozUrl |-> home[d]]]
    /\ Goto(d, "deleting")
    /\ UNCHANGED <<sqs, post, home, proc>>

\* DeleteMessage with the receipt handle of this delivery.
DeleteMessage(d) ==
    /\ handler[d].pc = "deleting"
    /\ DeleteWith(TxOf(d), d[2])
    /\ handler' = [handler EXCEPT ![d] = Over]
    /\ UNCHANGED <<db, post, home, proc>>

\* (Mutations of HandlerFails: the catch block deletes the message; it marks the
\* row failed.)
HandlerFailsAndDeletes(d) ==
    /\ Live(d)
    /\ DeleteWith(TxOf(d), d[2])
    /\ handler' = [handler EXCEPT ![d] = Over]
    /\ UNCHANGED <<db, post, home, proc>>

HandlerFailsAndMarks(d) ==
    /\ Live(d)
    /\ SetStatus(TxOf(d), "failed")
    /\ handler' = [handler EXCEPT ![d] = Over]
    /\ UNCHANGED <<sqs, post, home, proc>>

\* An await rejects (timeouts included; what it asked for may have happened)
\* and the catch block ends the handler.
HandlerFails(d) ==
    /\ Live(d)
    /\ handler' = [handler EXCEPT ![d] = Over]
    /\ UNCHANGED <<db, sqs, post, home, proc>>

-----------------------------------------------------------------------------

\* onModuleDestroy: isShuttingDown is set, the poll timer is cleared.
BeginShutdown(c) ==
    /\ proc[c] = "running"
    /\ proc' = [proc EXCEPT ![c] = "stopping"]
    /\ UNCHANGED <<db, sqs, post, home, handler>>

Stop(c) == /\ proc' = [proc EXCEPT ![c] = "down"]
           /\ handler' = [d \in Delivery |->
                             IF handler[d].owner = c THEN Over ELSE handler[d]]
           /\ UNCHANGED <<db, sqs, post, home>>

\* The process ends 100 ms into onModuleDestroy, whatever its handlers do.
ShutdownEnds(c) == proc[c] = "stopping" /\ Stop(c)

\* The process dies without notice.
ProcessCrash(c) == proc[c] = "running" /\ Stop(c)

\* onModuleInit of the restarted process.
ProcessStart(c) ==
    /\ proc[c] = "down"
    /\ proc' = [proc EXCEPT ![c] = "running"]
    /\ UNCHANGED <<db, sqs, post, home, handler>>

HandlerStep(d) ==
    \/ Skip(d) \/ ReadRow(d) \/ MarkProcessing(d) \/ RouteAndPost(d)
    \/ PostAnswered(d) \/ SaveSubmission(d) \/ DeleteMessage(d)
    \/ HandlerFails(d)

ProcessStep(c) ==
    \/ BeginShutdown(c) \/ ShutdownEnds(c) \/ ProcessCrash(c) \/ ProcessStart(c)
    \/ \E t \in Tx : Receive(c, t)

=============================================================================
