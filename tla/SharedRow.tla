------------------------------ MODULE SharedRow ------------------------------
(***************************************************************************)
(* The row of a relay request as the contract between the services that    *)
(* write it: QueueService creates it and may take it back, the consumer's  *)
(* handlers mark it and record the relayer transaction in it, and what a   *)
(* webhook or a status request has been told goes over its status.         *)
(*                                                                         *)
(* RelaySubmission implements this contract with the queue, the handlers   *)
(* and their processes; StatusSync, which uses the consumer's side of it   *)
(* as it stands here, with webhooks and lookups.                           *)
(*                                                                         *)
(* Here a POST is "wire" from the moment a handler is bound to send it,    *)
(* and "none" again once it can no longer arrive.                          *)
(***************************************************************************)
EXTENDS OzIntake

VARIABLES
    working,   \* deliveries whose handler is between its read and its save
    refused    \* transactions whose client was told no after a failed send

rowVars == <<db, post, home, working, refused>>

RowTypeOK == /\ DbTypeOK /\ IntakeTypeOK
             /\ working \subseteq Delivery
             /\ refused \subseteq Tx

RowInit == /\ DbInit /\ IntakeInit
           /\ working = {}
           /\ refused = {}

\* prisma.transaction.create.
Create(t) ==
    /\ db[t] = NoRow
    /\ db' = [db EXCEPT ![t] = QueuedRow]
    /\ UNCHANGED <<post, home, working, refused>>

\* The rollback, at most once, over whatever the row says; it may itself fail.
RollBack(t) ==
    /\ t \notin refused
    /\ refused' = refused \cup {t}
    /\ SetStatus(t, "failed") \/ UNCHANGED db
    /\ UNCHANGED <<post, home, working>>

Unsettled(t) == /\ db[t].status \notin {"absent", "confirmed", "failed"}
                /\ db[t].ozId = None

\* A handler reads an unsettled row.
Begin(d) ==
    /\ Unsettled(TxOf(d))
    /\ d \notin working /\ post[d] = "none"
    /\ working' = working \cup {d}
    /\ post' = [post EXCEPT ![d] = "wire"]
    /\ UNCHANGED <<db, home, refused>>

Mark(d) ==
    /\ d \in working /\ post[d] = "wire"
    /\ SetStatus(TxOf(d), "processing")
    /\ UNCHANGED <<post, home, working, refused>>

\* Some relayer takes the POST, whatever became of the handler.
Accept(d) ==
    /\ post[d] = "wire"
    /\ post' = [post EXCEPT ![d] = "accepted"]
    /\ \E r \in Relayer : home' = [home EXCEPT ![d] = r]
    /\ UNCHANGED <<db, working, refused>>

\* (Mutations of Save: accepted is taken for confirmed; the id is not saved.)
SaveConfirmed(d) ==
    /\ d \in working /\ post[d] = "accepted"
    /\ db' = [db EXCEPT ![TxOf(d)] =
                  [status |-> "confirmed", ozId |-> d, ozUrl |-> home[d]]]
    /\ working' = working \ {d}
    /\ UNCHANGED <<post, home, refused>>

Save(d) ==
    /\ d \in working /\ post[d] = "accepted"
    /\ db' = [db EXCEPT ![TxOf(d)] =
                  [status |-> "submitted", ozId |-> d, ozUrl |-> home[d]]]
    /\ working' = working \ {d}
    /\ UNCHANGED <<post, home, refused>>

\* Handlers end without saving; a POST not yet accepted may be on its way still.
Leave(D) ==
    /\ D # {} /\ D \subseteq working
    /\ working' = working \ D
    /\ \E L \in SUBSET {d \in D : post[d] = "wire"} :
          post' = [d \in Delivery |-> IF d \in L THEN "none" ELSE post[d]]
    /\ UNCHANGED <<db, home, refused>>

\* Such a POST is lost.
Lose(d) ==
    /\ d \notin working /\ post[d] = "wire"
    /\ post' = [post EXCEPT ![d] = "none"]
    /\ UNCHANGED <<db, home, working, refused>>

\* A status the relayer reported, in a row that names a relayer transaction.
WriteStatus(t) ==
    /\ db[t].ozId # None
    /\ \E s \in OzStatus : SetStatus(t, s)
    /\ UNCHANGED <<post, home, working, refused>>

\* The submission path's part: QueueService, the handlers, the relayers' intake.
SubmissionStep ==
    \/ \E t \in Tx : Create(t) \/ RollBack(t)
    \/ \E d \in Delivery : Begin(d) \/ Mark(d) \/ Accept(d) \/ Save(d) \/ Lose(d)
    \/ \E D \in SUBSET Delivery : Leave(D)

RowNext == SubmissionStep \/ \E t \in Tx : WriteStatus(t)

RowSpec == RowInit /\ [][RowNext]_rowVars

=============================================================================
