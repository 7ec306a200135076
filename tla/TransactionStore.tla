-------------------------- MODULE TransactionStore --------------------------
(***************************************************************************)
(* The `transactions` table both services share through Prisma, and the    *)
(* identifiers the other modules speak of.  One row per relay request.     *)
(*                                                                         *)
(* A relayer transaction is named by the SQS delivery whose handler posted *)
(* it: a handler posts at most once, so the name is as unique as the UUID  *)
(* the relayer would draw.  The columns the webhook alone is meant to      *)
(* write (hash, confirmedAt) are a variable of module StatusStore.         *)
(***************************************************************************)
EXTENDS Naturals

CONSTANTS
    Tx,          \* relay requests, by their internal transaction id
    MaxReceive,  \* the redrive policy's maxReceiveCount
    Relayer,     \* the relayer instances of OZ_RELAYER_URLS
    None         \* a NULL column, an unset local variable

ASSUME MaxReceiveAssumption == MaxReceive \in Nat \ {0}

Delivery == Tx \X (1..MaxReceive)

ASSUME NoneAssumption == /\ None \notin Delivery
                         /\ None \notin Relayer

\* The transaction a delivery (or the relayer transaction it posted) is for.
TxOf(d) == d[1]

\* The statuses a relayer reports, in webhooks and in status responses.
OzStatus == {"pending", "sent", "submitted", "inmempool", "mined",
             "confirmed", "failed"}

\* The statuses a row can hold; "absent" stands for a row not yet created.
RowStatus == {"absent", "queued", "processing"} \cup OzStatus

Row == [status : RowStatus,
        ozId   : Delivery \cup {None},
        ozUrl  : Relayer \cup {None}]

VARIABLE db      \* the table, one row per transaction

DbTypeOK == db \in [Tx -> Row]

NoRow     == [status |-> "absent", ozId |-> None, ozUrl |-> None]
QueuedRow == [status |-> "queued", ozId |-> None, ozUrl |-> None]

DbInit == db = [t \in Tx |-> NoRow]

\* An UPDATE of the status column alone, whatever the row held before.
SetStatus(t, s) == db' = [db EXCEPT ![t].status = s]

=============================================================================
