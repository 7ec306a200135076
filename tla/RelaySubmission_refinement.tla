---------------------- MODULE RelaySubmission_refinement ----------------------
(***************************************************************************)
(* RelaySubmission implements the two specifications it is known by: the   *)
(* contract on the row (SharedRow) and the custody contract of a 202       *)
(* (RequestCustody), for any values of the constants.                      *)
(***************************************************************************)
EXTENDS RelaySubmission_proofs

(***************************************************************************)
(* The contract on the row.                                                *)
(***************************************************************************)

USE DEF TxOf, SubmissionRow!TxOf

\* Every POST has gone to some relayer.
PostsHaveAHome == \A d \in Delivery : post[d] # "none" => home[d] # None

LEMMA PostedStep == TypeOK /\ PostsHaveAHome /\ [Next]_vars => PostsHaveAHome'
<1> SUFFICES ASSUME TypeOK, PostsHaveAHome, [Next]_vars PROVE PostsHaveAHome'
  OBVIOUS
<1> USE DEF TypeOK, IntakeTypeOK, PostsHaveAHome
<1>1. ASSUME NEW d \in Delivery, Handle(d) PROVE PostsHaveAHome'
  <2>1. CASE RouteAndPost(d)
    BY <2>1, NoneAssumption DEF RouteAndPost, PutOnWire
  <2>2. CASE UNCHANGED <<post, home>> BY <2>2
  <2>3. QED BY <1>1, <2>1, <2>2 DEF Handle, HandlerStep, Skip, ReadRow,
            MarkProcessing, PostAnswered, SaveSubmission, DeleteMessage,
            HandlerFails
<1>2. ASSUME NEW d \in Delivery, Intake(d) PROVE PostsHaveAHome'
  BY <1>2 DEF Intake, RelayerAccepts, RelayerLoses
<1>3. ASSUME NEW c \in Consumer, Process(c) PROVE UNCHANGED <<post, home>>
  BY <1>3 DEF Process, ProcessStep, BeginShutdown, ShutdownEnds, ProcessCrash,
     Stop, ProcessStart, Receive
<1>4. CASE UNCHANGED <<post, home>> BY <1>4
<1>5. QED
  BY <1>1, <1>2, <1>3, <1>4 DEF Next, PathStep, vars, Produce, VisibilityTimeout,
     Unreceived, ReceiveInVain, Redrive, StatusWritten

LEMMA PostedInit == Init => PostsHaveAHome
  BY DEF Init, IntakeInit, PostsHaveAHome

LEMMA Posted == Spec => []PostsHaveAHome
  BY PostedInit, PostedStep, TypeCorrect, PTL DEF Spec

\* What the contract sees of the handlers and of the requests.
workingSeen == {d \in Delivery : Submitter(d)}
refusedSeen == {t \in Tx : req[t] = "rejected"}

\* A step that changes neither row nor handlers, POSTs and refusals, as the
\* contract sees them, is a stutter.
LEMMA Unseen ==
  ASSUME UNCHANGED db,
         \A d \in Delivery : /\ postSeen'[d] = postSeen[d]
                             /\ homeSeen'[d] = homeSeen[d]
                             /\ Submitter(d)' <=> Submitter(d),
         \A t \in Tx : req'[t] = "rejected" <=> req[t] = "rejected"
  PROVE  UNCHANGED SubmissionRow!rowVars
<1>1. postSeen' = postSeen BY DEF postSeen
<1>2. homeSeen' = homeSeen BY DEF homeSeen
<1>3. workingSeen' = workingSeen BY DEF workingSeen
<1>4. refusedSeen' = refusedSeen BY DEF refusedSeen
<1>5. QED
  BY <1>1, <1>2, <1>3, <1>4 DEF SubmissionRow!rowVars, workingSeen, refusedSeen

\* Such a step of everything but the row is, with what it does to the row, one
\* of the contract's steps.
LEMMA RowOnly ==
  ASSUME NEW t \in Tx,
         postSeen' = postSeen, homeSeen' = homeSeen, workingSeen' = workingSeen,
         refusedSeen' = refusedSeen,
         \/ db[t] = NoRow /\ db' = [db EXCEPT ![t] = QueuedRow]
         \/ \E d \in Delivery : /\ Submitter(d) /\ postSeen[d] = "wire"
                                /\ SetStatus(TxOf(d), "processing")
  PROVE  SubmissionRow!SubmissionStep
<1>1. CASE db[t] = NoRow /\ db' = [db EXCEPT ![t] = QueuedRow]
  BY <1>1 DEF SubmissionRow!SubmissionStep, SubmissionRow!Create, SubmissionRow!NoRow,
     SubmissionRow!QueuedRow, NoRow, QueuedRow, workingSeen, refusedSeen
<1>2. ASSUME NEW d \in Delivery, Submitter(d), postSeen[d] = "wire",
             SetStatus(TxOf(d), "processing")
      PROVE  SubmissionRow!SubmissionStep
  <2>1. SubmissionRow!Mark(d)
    BY <1>2 DEF SubmissionRow!Mark, SubmissionRow!SetStatus, SetStatus,
       workingSeen, refusedSeen
  <2>2. d \in SubmissionRow!Delivery BY DEF SubmissionRow!Delivery, Delivery
  <2>3. QED BY <2>1, <2>2 DEF SubmissionRow!SubmissionStep
<1>3. QED BY <1>1, <1>2

LEMMA SameDelivery == SubmissionRow!Delivery = Delivery
  BY DEF SubmissionRow!Delivery, Delivery

LEMMA InitRow == Init => SubmissionRow!RowInit
<1> SUFFICES ASSUME Init PROVE SubmissionRow!RowInit OBVIOUS
<1> USE DEF Init
<1>1. \A d \in Delivery : post[d] = "none" /\ ~Submitter(d)
  BY DEF IntakeInit, ConsumerInit, Submitter
<1>2. SubmissionRow!DbInit
  BY DEF DbInit, NoRow, SubmissionRow!DbInit, SubmissionRow!NoRow
<1>3. SubmissionRow!IntakeInit
  BY <1>1, SameDelivery DEF SubmissionRow!IntakeInit, postSeen, homeSeen
<1>4. {d \in Delivery : Submitter(d)} = {} BY <1>1
<1>5. {t \in Tx : req[t] = "rejected"} = {} BY DEF ReqInit
<1>6. QED BY <1>2, <1>3, <1>4, <1>5 DEF SubmissionRow!RowInit

LEMMA ProduceRow ==
  ASSUME TypeOK, IInv, NEW t \in Tx, Produce(t)
  PROVE  SubmissionRow!SubmissionStep \/ UNCHANGED SubmissionRow!rowVars
<1> USE DEF TypeOK, ReqTypeOK
<1>1. UNCHANGED <<post, home, handler>> BY DEF Produce
<1>2. postSeen' = postSeen /\ homeSeen' = homeSeen /\ workingSeen' = workingSeen
  BY <1>1 DEF postSeen, homeSeen, workingSeen, Submitter
<1>3. CASE CreateRow(t) \/ CreateRowFails(t)
  <2>1. db[t] = NoRow
    BY <1>3 DEF CreateRow, CreateRowFails, IInv, NothingBeforeTheRow
  <2>2. refusedSeen' = refusedSeen BY <1>3 DEF CreateRow, CreateRowFails, refusedSeen
  <2>3. CASE db' = db
    BY <1>2, <2>2, <2>3 DEF SubmissionRow!rowVars, workingSeen, refusedSeen
  <2>4. QED BY <1>2, <1>3, <2>1, <2>2, <2>3, RowOnly DEF CreateRow, CreateRowFails
<1>4. CASE RollbackRow(t) \/ RollbackFails(t)
  <2>1. t \notin refusedSeen /\ refusedSeen' = refusedSeen \cup {t}
    BY <1>4 DEF RollbackRow, RollbackFails, refusedSeen
  <2>2. SetStatus(t, "failed") \/ UNCHANGED db
    BY <1>4 DEF RollbackRow, RollbackFails
  <2>3. SubmissionRow!RollBack(t)
    BY <1>2, <2>1, <2>2 DEF SubmissionRow!RollBack, SubmissionRow!SetStatus,
       SetStatus, workingSeen, refusedSeen
  <2>4. QED BY <2>3 DEF SubmissionRow!SubmissionStep
<1>5. CASE MessageStored(t) \/ SendSucceeds(t) \/ SendFails(t) \/ ApiCrash(t)
  <2>1. db' = db /\ refusedSeen' = refusedSeen
    BY <1>5 DEF MessageStored, SendSucceeds, SendFails, ApiCrash, refusedSeen
  <2>2. QED BY <1>2, <2>1 DEF SubmissionRow!rowVars, workingSeen, refusedSeen
<1>6. QED BY <1>3, <1>4, <1>5 DEF Produce, ProducerStep

LEMMA HandleRow ==
  ASSUME TypeOK, IInv, NEW d \in Delivery, Handle(d)
  PROVE  SubmissionRow!SubmissionStep \/ UNCHANGED SubmissionRow!rowVars
<1> USE DEF TypeOK, Handle
<1>t. PICK t \in Tx : t = TxOf(d) BY DeliveryTx
<1>a. /\ handler \in [Delivery -> Handling] /\ post \in [Delivery -> PostState]
      /\ home \in [Delivery -> Relayer \cup {None}]
  BY DEF ConsumerTypeOK, IntakeTypeOK
<1>b. refusedSeen' = refusedSeen BY DEF refusedSeen
<1>c. \A e \in Delivery \ {d} : handler'[e] = handler[e] /\ post'[e] = post[e]
                                /\ home'[e] = home[e]
  BY <1>a DEF HandlerStep, Skip, ReadRow, MarkProcessing, RouteAndPost, PutOnWire,
     PostAnswered, SaveSubmission, DeleteMessage, HandlerFails, Goto
<1>d. \A e \in Delivery \ {d} : /\ Submitter(e)' <=> Submitter(e)
                                /\ postSeen'[e] = postSeen[e]
                                /\ homeSeen'[e] = homeSeen[e]
  BY <1>c DEF Submitter, postSeen, homeSeen
<1>1. ASSUME UNCHANGED <<db, post, home>>, ~Submitter(d), ~Submitter(d)'
      PROVE  UNCHANGED SubmissionRow!rowVars
  BY <1>1, <1>b, <1>d, Unseen DEF postSeen, homeSeen, refusedSeen
<1>2. CASE HandlerFails(d) /\ Submitter(d)
  <2>1. UNCHANGED <<db, post, home>> /\ ~Submitter(d)'
    BY <1>2, <1>a DEF HandlerFails, Over, Submitter
  <2> DEFINE lost == {e \in {d} : post[e] \notin {"wire", "accepted"}}
  <2>2. lost \in SUBSET {e \in {d} : postSeen[e] = "wire"} BY <1>2 DEF postSeen
  <2>3. postSeen' = [e \in Delivery |-> IF e \in lost THEN "none" ELSE postSeen[e]]
    BY <2>1, <1>c, <1>d DEF postSeen
  <2>4. homeSeen' = homeSeen BY <2>1 DEF homeSeen
  <2>5. d \in workingSeen /\ workingSeen' = workingSeen \ {d}
    BY <1>2, <2>1, <1>d DEF workingSeen
  <2> HIDE DEF lost
  <2>6. SubmissionRow!Leave({d})
    BY <2>1, <2>2, <2>3, <2>4, <2>5, <1>b, SameDelivery
    DEF SubmissionRow!Leave, workingSeen, refusedSeen
  <2>7. QED BY <2>6, SameDelivery DEF SubmissionRow!SubmissionStep
<1>3. CASE ReadRow(d) /\ Settled(t)
  BY <1>1, <1>3, <1>a, <1>t DEF ReadRow, Goto, Submitter, Handling
<1>4. CASE ReadRow(d) /\ ~Settled(t)
  <2>1. /\ UNCHANGED <<db, post, home>> /\ handler[d].pc = "received"
        /\ ~Submitter(d) /\ Submitter(d)' /\ post[d] = "none"
    BY <1>4, <1>a, <1>t DEF ReadRow, Goto, Submitter, Handling, IInv,
       HandlersFollowDeliveries
  <2>2. db[t].status # "absent"
    BY <2>1, <1>t, MaxReceiveAssumption DEF IInv, HandlersFollowDeliveries,
       NothingBeforeTheRow, Delivery, SqsTypeOK
  <2>3. SubmissionRow!Unsettled(t)
    BY <1>4, <2>2 DEF SubmissionRow!Unsettled, Settled
  <2>4. postSeen' = [postSeen EXCEPT ![d] = "wire"] /\ postSeen[d] = "none"
    BY <2>1, <1>d DEF postSeen
  <2>5. homeSeen' = homeSeen BY <2>1 DEF homeSeen
  <2>6. d \notin workingSeen /\ workingSeen' = workingSeen \cup {d}
    BY <2>1, <1>d DEF workingSeen
  <2>7. SubmissionRow!Begin(d)
    BY <2>1, <2>3, <2>4, <2>5, <2>6, <1>b, <1>t
    DEF SubmissionRow!Begin, workingSeen, refusedSeen
  <2>8. QED BY <2>7, SameDelivery DEF SubmissionRow!SubmissionStep
<1>5. CASE MarkProcessing(d)
  <2>1. /\ UNCHANGED <<post, home>> /\ Submitter(d) /\ Submitter(d)'
        /\ post[d] = "none" /\ SetStatus(TxOf(d), "processing")
    BY <1>5, <1>a DEF MarkProcessing, Goto, Submitter, Handling, IInv,
       HandlersFollowDeliveries
  <2>2. postSeen' = postSeen /\ homeSeen' = homeSeen /\ workingSeen' = workingSeen
    BY <2>1, <1>d DEF postSeen, homeSeen, workingSeen
  <2>3. postSeen[d] = "wire" BY <2>1 DEF postSeen
  <2>4. QED BY <2>1, <2>2, <2>3, <1>b, <1>t, RowOnly
<1>6. CASE RouteAndPost(d) \/ PostAnswered(d)
  <2>1. /\ UNCHANGED db /\ Submitter(d) /\ Submitter(d)'
        /\ postSeen'[d] = postSeen[d] /\ homeSeen'[d] = homeSeen[d]
    BY <1>6, <1>a DEF RouteAndPost, PutOnWire, PostAnswered, Goto, Submitter,
       Handling, IInv, HandlersFollowDeliveries, postSeen, homeSeen
  <2>2. QED BY <2>1, <1>b, <1>d, Unseen DEF refusedSeen
<1>7. CASE SaveSubmission(d)
  <2>1. /\ UNCHANGED <<post, home>> /\ Submitter(d) /\ ~Submitter(d)'
        /\ post[d] = "accepted"
        /\ db' = [db EXCEPT ![t] =
                     [status |-> "submitted", ozId |-> d, ozUrl |-> homeSeen[d]]]
    BY <1>7, <1>a, <1>t DEF SaveSubmission, Goto, Submitter, Handling, IInv,
       HandlersFollowDeliveries, homeSeen
  <2>2. postSeen' = postSeen /\ homeSeen' = homeSeen /\ postSeen[d] = "accepted"
    BY <2>1, <1>d DEF postSeen, homeSeen
  <2>3. d \in workingSeen /\ workingSeen' = workingSeen \ {d}
    BY <2>1, <1>d DEF workingSeen
  <2>4. SubmissionRow!Save(d)
    BY <2>1, <2>2, <2>3, <1>b, <1>t
    DEF SubmissionRow!Save, workingSeen, refusedSeen
  <2>5. QED BY <2>4, SameDelivery DEF SubmissionRow!SubmissionStep
<1>8. CASE HandlerFails(d) /\ ~Submitter(d)
  BY <1>1, <1>8, <1>a DEF HandlerFails, Over, Submitter
<1>9. CASE Skip(d) \/ DeleteMessage(d)
  BY <1>1, <1>9, <1>a DEF Skip, DeleteMessage, Over, Submitter
<1>10. QED
  BY <1>2, <1>3, <1>4, <1>5, <1>6, <1>7, <1>8, <1>9 DEF HandlerStep

LEMMA ProcessRow ==
  ASSUME TypeOK, IInv, NEW c \in Consumer, Process(c)
  PROVE  SubmissionRow!SubmissionStep \/ UNCHANGED SubmissionRow!rowVars
<1> USE DEF TypeOK, ConsumerTypeOK
<1>1. UNCHANGED <<db, req, post, home>>
  BY DEF Process, ProcessStep, BeginShutdown, ShutdownEnds, ProcessCrash, Stop,
         ProcessStart, Receive
<1>2. refusedSeen' = refusedSeen /\ homeSeen' = homeSeen
  BY <1>1 DEF refusedSeen, homeSeen
<1>3. ASSUME \A d \in Delivery : Submitter(d)' <=> Submitter(d)
      PROVE  UNCHANGED SubmissionRow!rowVars
  BY <1>1, <1>2, <1>3, Unseen DEF postSeen
<1>4. CASE BeginShutdown(c) \/ ProcessStart(c)
  BY <1>3, <1>4 DEF BeginShutdown, ProcessStart, Submitter
<1>5. ASSUME NEW t \in Tx, Receive(c, t) PROVE UNCHANGED SubmissionRow!rowVars
  <2> DEFINE k == sqs[t].count + 1
  <2>1. /\ <<t, k>> \in Delivery /\ ~(k <= sqs[t].count)
        /\ handler' = [handler EXCEPT ![<<t, k>>] = [pc |-> "received", owner |-> c]]
    BY <1>5, MaxReceiveAssumption DEF Receive, Dequeue, Delivery, SqsTypeOK
  <2> HIDE DEF k
  <2>2. handler[<<t, k>>].pc = "idle" BY <2>1 DEF IInv, HandlersFollowDeliveries
  <2>3. QED BY <1>3, <2>1, <2>2 DEF Submitter
<1>6. CASE ShutdownEnds(c) \/ ProcessCrash(c)
  <2> DEFINE D == {d \in Delivery : Submitter(d) /\ handler[d].owner = c}
             L == {d \in D : post[d] \notin {"wire", "accepted"}}
  <2>1. \A d \in Delivery :
           handler'[d] = IF handler[d].owner = c THEN Over ELSE handler[d]
    BY <1>6 DEF ShutdownEnds, ProcessCrash, Stop
  <2>2. \A d \in Delivery : Submitter(d)' <=> Submitter(d) /\ d \notin D
    BY <2>1 DEF Submitter, Over
  <2>3. CASE D = {} BY <1>3, <2>2, <2>3
  <2>4. CASE D # {}
    <3>1. D \subseteq workingSeen /\ workingSeen' = workingSeen \ D
      BY <2>2 DEF workingSeen
    <3>2. L \in SUBSET {d \in D : postSeen[d] = "wire"} BY DEF postSeen
    <3>3. postSeen' = [d \in Delivery |-> IF d \in L THEN "none" ELSE postSeen[d]]
      BY <1>1, <2>2 DEF postSeen
    <3>4. D \in SUBSET Delivery OBVIOUS
    <3> HIDE DEF D, L
    <3>5. SubmissionRow!Leave(D)
      BY <1>1, <1>2, <2>4, <3>1, <3>2, <3>3, SameDelivery
      DEF SubmissionRow!Leave, workingSeen, refusedSeen
    <3>6. QED BY <3>4, <3>5, SameDelivery DEF SubmissionRow!SubmissionStep
  <2>5. QED BY <2>3, <2>4
<1>7. QED BY <1>4, <1>5, <1>6 DEF Process, ProcessStep

LEMMA IntakeRow ==
  ASSUME TypeOK, IInv, PostsHaveAHome, NEW d \in Delivery, Intake(d)
  PROVE  SubmissionRow!SubmissionStep \/ UNCHANGED SubmissionRow!rowVars
<1> USE DEF TypeOK, IntakeTypeOK
<1>1. /\ UNCHANGED <<db, req, handler, home>> /\ post[d] = "wire"
      /\ \A e \in Delivery \ {d} : post'[e] = post[e]
  BY DEF Intake, RelayerAccepts, RelayerLoses
<1>2. refusedSeen' = refusedSeen /\ workingSeen' = workingSeen
  BY <1>1 DEF refusedSeen, workingSeen, Submitter
<1>3. \A e \in Delivery : Submitter(e)' <=> Submitter(e) BY <1>1 DEF Submitter
<1>4. CASE RelayerAccepts(d)
  <2>1. post' = [post EXCEPT ![d] = "accepted"] BY <1>4 DEF RelayerAccepts
  <2>2. postSeen[d] = "wire" /\ postSeen' = [postSeen EXCEPT ![d] = "accepted"]
    BY <1>1, <1>3, <2>1 DEF postSeen
  <2>3. homeSeen' = [homeSeen EXCEPT ![d] = home[d]] BY <1>1, <2>1 DEF homeSeen
  <2>4. home[d] \in Relayer BY <1>1 DEF PostsHaveAHome
  <2>5. SubmissionRow!Accept(d)
    BY <1>1, <1>2, <2>2, <2>3, <2>4
    DEF SubmissionRow!Accept, workingSeen, refusedSeen
  <2>6. QED BY <2>5, SameDelivery DEF SubmissionRow!SubmissionStep
<1>5. CASE RelayerLoses(d) /\ Submitter(d)
  BY <1>1, <1>3, <1>5, Unseen DEF RelayerLoses, postSeen, homeSeen
<1>6. CASE RelayerLoses(d) /\ ~Submitter(d)
  <2>1. post' = [post EXCEPT ![d] = "lost"] BY <1>6 DEF RelayerLoses
  <2>2. postSeen[d] = "wire" /\ postSeen' = [postSeen EXCEPT ![d] = "none"]
    BY <1>1, <1>3, <1>6, <2>1 DEF postSeen
  <2>3. homeSeen' = homeSeen BY <1>1, <2>1 DEF homeSeen
  <2>4. SubmissionRow!Lose(d)
    BY <1>1, <1>2, <1>6, <2>2, <2>3
    DEF SubmissionRow!Lose, workingSeen, refusedSeen
  <2>5. QED BY <2>4, SameDelivery DEF SubmissionRow!SubmissionStep
<1>7. QED BY <1>4, <1>5, <1>6 DEF Intake

LEMMA PathRow ==
  ASSUME TypeOK, IInv, PostsHaveAHome, PathStep
  PROVE  SubmissionRow!SubmissionStep \/ UNCHANGED SubmissionRow!rowVars
<1>1. ASSUME UNCHANGED <<db, req, post, home>>,
             \A d \in Delivery : Submitter(d)' <=> Submitter(d)
      PROVE  UNCHANGED SubmissionRow!rowVars
  BY <1>1, Unseen DEF postSeen, homeSeen
<1>2. ASSUME NEW t \in Tx, VisibilityTimeout(t) \/ Redrive(t)
      PROVE  UNCHANGED SubmissionRow!rowVars
  BY <1>1, <1>2 DEF VisibilityTimeout, Redrive, Submitter
<1>3. ASSUME NEW t \in Tx, Unreceived(t) PROVE UNCHANGED SubmissionRow!rowVars
  <2> DEFINE k == sqs[t].count + 1
  <2>1. /\ <<t, k>> \in Delivery /\ ~(k <= sqs[t].count)
        /\ handler' = [handler EXCEPT ![<<t, k>>] = Over]
    BY <1>3, MaxReceiveAssumption
    DEF Unreceived, ReceiveInVain, Dequeue, Delivery, TypeOK, SqsTypeOK
  <2> HIDE DEF k
  <2>2. handler[<<t, k>>].pc = "idle" BY <2>1 DEF IInv, HandlersFollowDeliveries
  <2>3. \A d \in Delivery : Submitter(d)' <=> Submitter(d)
    BY <2>1, <2>2 DEF Submitter, Over, TypeOK, ConsumerTypeOK
  <2>4. QED BY <1>1, <1>3, <2>3 DEF Unreceived, ReceiveInVain
<1>4. QED
  BY <1>2, <1>3, ProduceRow, HandleRow, ProcessRow, IntakeRow DEF PathStep

LEMMA StatusWrittenRow ==
  ASSUME NEW t \in Tx, StatusWritten(t)
  PROVE  SubmissionRow!WriteStatus(t)
<1>1. UNCHANGED <<post, home, handler, req>> BY DEF StatusWritten
<1>2. /\ postSeen' = postSeen /\ homeSeen' = homeSeen
      /\ workingSeen' = workingSeen /\ refusedSeen' = refusedSeen
  BY <1>1 DEF postSeen, homeSeen, workingSeen, refusedSeen, Submitter
<1>3. QED
  BY <1>2 DEF StatusWritten, SubmissionRow!WriteStatus, SubmissionRow!SetStatus,
     SetStatus, SubmissionRow!OzStatus, OzStatus, workingSeen, refusedSeen

LEMMA NextRow ==
  TypeOK /\ IInv /\ PostsHaveAHome /\ [Next]_vars
    => [SubmissionRow!RowNext]_(SubmissionRow!rowVars)
<1> SUFFICES ASSUME TypeOK, IInv, PostsHaveAHome, [Next]_vars
             PROVE  SubmissionRow!RowNext \/ UNCHANGED SubmissionRow!rowVars
  OBVIOUS
<1>1. CASE PathStep BY <1>1, PathRow DEF SubmissionRow!RowNext
<1>2. ASSUME NEW t \in Tx, StatusWritten(t) PROVE SubmissionRow!RowNext
  BY <1>2, StatusWrittenRow DEF SubmissionRow!RowNext
<1>3. CASE UNCHANGED vars
  BY <1>3, Unseen DEF vars, postSeen, homeSeen, Submitter
<1>4. QED BY <1>1, <1>2, <1>3 DEF Next

\* Whatever producer, queue, handlers, processes and relayers do is, to those
\* who read and write the row's status, a step of SharedRow.
THEOREM ImplementsTheRow == Spec => KeepsToTheRow
<1>1. Init => SubmissionRow!RowInit BY InitRow
<1>2. TypeOK /\ IInv /\ PostsHaveAHome /\ [Next]_vars
        => [SubmissionRow!RowNext]_(SubmissionRow!rowVars)
  BY NextRow
<1>3. QED
  BY <1>1, <1>2, Invariant, Posted, PTL
  DEF Spec, KeepsToTheRow, SubmissionRow!RowSpec

(***************************************************************************)
(* The custody contract.                                                   *)
(***************************************************************************)

\* Where a transaction that is not recorded as relayed is; that the message was
\* sent, and that its row exists.
LEMMA RecordedWasSent ==
  ASSUME TypeOK, IInv, NEW t \in Tx, db[t].ozId # None \/ db[t].status = "absent"
  PROVE  IF db[t].ozId # None THEN sqs[t].place # "unsent" /\ req[t] # "idle"
                              ELSE sqs[t].place = "unsent" /\ req[t] # "accepted"
<1>1. CASE db[t].ozId # None
  <2>1. PICK d \in Delivery : TxOf(d) = t /\ post[d] = "accepted"
    BY <1>1 DEF IInv, RecordedSubmissionIsReal, RelayerTxs
  <2>2. d[2] <= sqs[t].count /\ d[2] \in 1..MaxReceive
    BY <2>1, DeliveryTx DEF IInv, HandlersFollowDeliveries
  <2>3. sqs[t].place # "unsent"
    BY <2>2, MaxReceiveAssumption DEF IInv, NothingBeforeTheRow
  <2>4. QED BY <1>1, <2>3 DEF IInv, NothingBeforeTheRow
<1>2. CASE db[t].ozId = None
  BY <1>2 DEF IInv, NothingBeforeTheRow
<1>3. QED BY <1>1, <1>2

\* What is left of a step when, for every transaction but t, the row's id, its
\* being there, its message's place and its client's answer stay as they were.
Elsewhere(t) == \A u \in Tx \ {t} :
    /\ db'[u].ozId # None <=> db[u].ozId # None
    /\ db'[u].status = "absent" <=> db[u].status = "absent"
    /\ sqs'[u].place = sqs[u].place
    /\ req'[u] = req[u]

LEMMA OthersKept ==
  ASSUME TypeOK, TypeOK', NEW t \in Tx, Elsewhere(t)
  PROVE  /\ custodyOf' = [custodyOf EXCEPT ![t] = Custodian(t)']
         /\ answerOf' = [answerOf EXCEPT ![t] = Answer(t)']
<1>1. ASSUME NEW u \in Tx \ {t}
      PROVE  Custodian(u)' = Custodian(u) /\ Answer(u)' = Answer(u)
  <2>1. /\ db'[u].ozId # None <=> db[u].ozId # None
        /\ db'[u].status = "absent" <=> db[u].status = "absent"
        /\ sqs'[u].place = sqs[u].place
        /\ req'[u] = req[u]
    BY DEF Elsewhere
  <2>2. sqs[u].place \in Place BY DEF TypeOK, SqsTypeOK
  <2>3. QED BY <2>1, <2>2 DEF Custodian, Answer, Place
<1>2. QED BY <1>1 DEF custodyOf, answerOf

\* What the contract lets happen to t.
Passes(t) ==
    LET here == Custodian(t)   there == Custodian(t)'
        told == Answer(t)      tell  == Answer(t)'
    IN  \/ here = there /\ told = tell
        \/ here = "client" /\ there = "api" /\ told = "none" /\ tell \in {"none", "no"}
        \/ here = there /\ told = "none" /\ tell = "no"
        \/ /\ here = there /\ here \in {"queue", "relayer", "dlq"}
           /\ told = "none" /\ tell = "yes"
        \/ here = "api" /\ there = "queue" /\ told # "yes" /\ told = tell
        \/ here \in {"queue", "dlq", "nobody"} /\ there = "relayer" /\ told = tell
        \/ here = "queue" /\ there = "dlq" /\ told = tell
        \/ here = "queue" /\ there = "nobody" /\ told = "no" /\ told = tell

LEMMA PassesIsAStep ==
  ASSUME TypeOK, TypeOK', NEW t \in Tx, Elsewhere(t), Passes(t)
  PROVE  Promises!Next \/ UNCHANGED <<custodyOf, answerOf>>
<1>1. /\ custodyOf' = [custodyOf EXCEPT ![t] = Custodian(t)']
      /\ answerOf' = [answerOf EXCEPT ![t] = Answer(t)']
  BY OthersKept
<1>2. /\ custodyOf[t] = Custodian(t) /\ answerOf[t] = Answer(t)
      /\ custodyOf = [custodyOf EXCEPT ![t] = Custodian(t)]
      /\ answerOf = [answerOf EXCEPT ![t] = Answer(t)]
  BY DEF custodyOf, answerOf
<1>3. \/ UNCHANGED <<custodyOf, answerOf>>
      \/ Promises!Register(t) \/ Promises!Deny(t) \/ Promises!Promise(t)
      \/ Promises!HandToQueue(t) \/ Promises!HandToRelayer(t)
      \/ Promises!DeadLetter(t) \/ Promises!Drop(t)
  BY <1>1, <1>2 DEF Passes, Promises!Register, Promises!Deny, Promises!Promise,
     Promises!HandToQueue, Promises!HandToRelayer, Promises!DeadLetter,
     Promises!Drop, Promises!Pass
<1>4. QED BY <1>3 DEF Promises!Next

LEMMA ProducePasses ==
  ASSUME TypeOK, IInv, NEW t \in Tx, Produce(t)
  PROVE  Elsewhere(t) /\ Passes(t)
<1> USE DEF TypeOK, DbTypeOK, SqsTypeOK, ReqTypeOK
<1>a. /\ db[t].status = "absent" => /\ sqs[t].place = "unsent" /\ db[t].ozId = None
                                    /\ req[t] # "accepted"
      /\ db[t].ozId # None => sqs[t].place # "unsent" /\ req[t] # "idle"
      /\ req[t] = "idle" => db[t] = NoRow /\ sqs[t].place = "unsent"
  BY RecordedWasSent DEF IInv, NothingBeforeTheRow, NoRow
<1>1. CASE CreateRow(t) \/ CreateRowFails(t)
  <2>1. Elsewhere(t) BY <1>1 DEF CreateRow, CreateRowFails, Elsewhere
  <2>2. Custodian(t) = "client" /\ Answer(t) = "none" /\ Answer(t)' \in {"none", "no"}
    BY <1>1, <1>a DEF CreateRow, CreateRowFails, Custodian, Answer, NoRow
  <2>3. CASE db' = db
    BY <1>1, <1>a, <2>1, <2>2, <2>3
    DEF CreateRow, CreateRowFails, Custodian, Answer, Passes, QueuedRow, NoRow
  <2>4. CASE db' = [db EXCEPT ![t] = QueuedRow]
    <3>1. Custodian(t)' = "api"
      BY <1>1, <1>a, <2>4 DEF CreateRow, CreateRowFails, Custodian, QueuedRow
    <3>2. QED BY <2>1, <2>2, <3>1 DEF Passes
  <2>5. QED BY <1>1, <2>3, <2>4 DEF CreateRow, CreateRowFails
<1>2. CASE MessageStored(t)
  <2>1. Elsewhere(t) BY <1>2 DEF MessageStored, Enqueue, Elsewhere
  <2>2. /\ Custodian(t) = "api" /\ Custodian(t)' = "queue"
        /\ Answer(t) # "yes" /\ Answer(t)' = Answer(t)
    BY <1>2, <1>a DEF MessageStored, Enqueue, Custodian, Answer, IInv,
       NothingBeforeTheRow
  <2>3. QED BY <2>1, <2>2 DEF Passes
<1>3. CASE SendSucceeds(t)
  <2>1. Elsewhere(t) BY <1>3 DEF SendSucceeds, Elsewhere
  <2>2. /\ Custodian(t) \in {"queue", "relayer", "dlq"} /\ Custodian(t)' = Custodian(t)
        /\ Answer(t) = "none" /\ Answer(t)' = "yes"
    BY <1>3 DEF SendSucceeds, Custodian, Answer, Place, IInv, DeletedForAReason
  <2>3. QED BY <2>1, <2>2 DEF Passes
<1>4. CASE SendFails(t) \/ ApiCrash(t)
  <2>1. Elsewhere(t) BY <1>4 DEF SendFails, ApiCrash, Elsewhere
  <2>2. Custodian(t)' = Custodian(t) /\ Answer(t)' = Answer(t)
    <3>1. UNCHANGED <<db, sqs>> BY <1>4 DEF SendFails, ApiCrash
    <3>2. Answer(t)' = Answer(t) BY <1>4 DEF SendFails, ApiCrash, Answer
    <3>3. QED BY <3>1, <3>2 DEF Custodian
  <2>3. QED BY <2>1, <2>2 DEF Passes
<1>5. CASE RollbackRow(t) \/ RollbackFails(t)
  <2>1. /\ \A u \in Tx : /\ db'[u].ozId = db[u].ozId
                         /\ db'[u].status = "absent" <=> db[u].status = "absent"
        /\ UNCHANGED sqs
    <3>1. db[t].status # "absent"
      BY <1>5 DEF RollbackRow, RollbackFails, IInv, NothingBeforeTheRow
    <3>2. QED BY <1>5, <3>1 DEF RollbackRow, RollbackFails, SetStatus, Row
  <2>2. Elsewhere(t) BY <1>5, <2>1 DEF RollbackRow, RollbackFails, Elsewhere
  <2>3. Custodian(t)' = Custodian(t) BY <2>1 DEF Custodian, Place
  <2>4. Answer(t) = "none" /\ Answer(t)' = "no"
    BY <1>5 DEF RollbackRow, RollbackFails, Answer
  <2>5. QED BY <2>2, <2>3, <2>4 DEF Passes
<1>6. QED BY <1>1, <1>2, <1>3, <1>4, <1>5 DEF Produce, ProducerStep

LEMMA HandlePasses ==
  ASSUME TypeOK, IInv, NEW d \in Delivery, Handle(d)
  PROVE  Elsewhere(TxOf(d)) /\ Passes(TxOf(d))
<1> USE DEF TypeOK, DbTypeOK, SqsTypeOK, ReqTypeOK, Handle
<1>t. PICK t \in Tx : t = TxOf(d) BY DeliveryTx
<1>r. Answer(t)' = Answer(t) BY DEF Answer
<1>p. Live(d) => sqs[t].place # "unsent"
  BY <1>t, MaxReceiveAssumption
  DEF Live, IInv, HandlersFollowDeliveries, NothingBeforeTheRow, Delivery
<1>1. CASE UNCHANGED <<db, sqs>>
  <2>1. Elsewhere(t) BY <1>1 DEF Elsewhere
  <2>2. Custodian(t)' = Custodian(t) BY <1>1 DEF Custodian
  <2>3. QED BY <2>1, <2>2, <1>r, <1>t DEF Passes
<1>2. CASE MarkProcessing(d)
  <2>1. /\ \A u \in Tx : db'[u].ozId = db[u].ozId
        /\ \A u \in Tx \ {t} : db'[u] = db[u]
        /\ UNCHANGED sqs /\ sqs[t].place # "unsent"
    BY <1>2, <1>t, <1>p DEF MarkProcessing, SetStatus, Row, Live
  <2>2. Elsewhere(t) BY <2>1 DEF Elsewhere
  <2>3. Custodian(t)' = Custodian(t) BY <2>1 DEF Custodian, Place
  <2>4. QED BY <2>2, <2>3, <1>r, <1>t DEF Passes
<1>3. CASE SaveSubmission(d)
  <2>1. /\ db'[t].ozId = d
        /\ \A u \in Tx \ {t} : db'[u] = db[u]
        /\ UNCHANGED sqs /\ sqs[t].place # "unsent"
    BY <1>3, <1>t, <1>p DEF SaveSubmission, Live
  <2>2. Elsewhere(t) BY <2>1 DEF Elsewhere
  <2>3. Custodian(t)' = "relayer" BY <2>1, NoneAssumption DEF Custodian
  <2>4. Custodian(t) \in {"relayer", "queue", "dlq", "nobody"}
    BY <2>1 DEF Custodian, Place
  <2>5. QED BY <2>2, <2>3, <2>4, <1>r, <1>t DEF Passes
<1>4. CASE DeleteMessage(d)
  <2>1. /\ UNCHANGED db /\ handler[d].pc = "deleting" /\ sqs[t].place # "unsent"
        /\ \/ UNCHANGED sqs
           \/ /\ sqs[t].place \in {"visible", "inflight"}
              /\ sqs' = [sqs EXCEPT ![t].place = "deleted"]
    BY <1>4, <1>t, <1>p DEF DeleteMessage, DeleteWith, Live
  <2>2. Elsewhere(t) BY <2>1 DEF Elsewhere
  <2>3. db[t].ozId # None \/ req[t] = "rejected"
    BY <2>1, <1>t DEF IInv, DeletedForAReason
  <2>4. \/ Custodian(t)' = Custodian(t)
        \/ Custodian(t) = "queue" /\ Custodian(t)' = "nobody" /\ Answer(t) = "no"
    BY <2>1, <2>3 DEF Custodian, Answer, Place
  <2>5. QED BY <2>2, <2>4, <1>r, <1>t DEF Passes
<1>5. QED
  BY <1>1, <1>2, <1>3, <1>4 DEF HandlerStep, Skip, ReadRow, RouteAndPost,
     PostAnswered, HandlerFails

LEMMA QueuePasses ==
  ASSUME TypeOK, IInv, NEW t \in Tx,
         \/ VisibilityTimeout(t) \/ Redrive(t)
         \/ Unreceived(t)
         \/ \E c \in Consumer : Receive(c, t) /\ UNCHANGED req
  PROVE  Elsewhere(t) /\ Passes(t)
<1> USE DEF TypeOK, SqsTypeOK
<1>1. /\ UNCHANGED <<db, req>>
      /\ sqs[t].place \in {"visible", "inflight"}
      /\ sqs'[t].place \in {"visible", "inflight", "dlq"}
      /\ \A u \in Tx \ {t} : sqs'[u] = sqs[u]
  <2>1. Dequeue(t) \/ Reappear(t) \/ MoveToDlq(t)
    BY DEF VisibilityTimeout, Redrive, Unreceived, ReceiveInVain, Receive
  <2>2. UNCHANGED <<db, req>>
    BY DEF VisibilityTimeout, Redrive, Unreceived, ReceiveInVain, Receive
  <2>3. QED BY <2>1, <2>2 DEF Dequeue, Reappear, MoveToDlq
<1>2. Elsewhere(t) BY <1>1 DEF Elsewhere
<1>3. Answer(t)' = Answer(t) BY <1>1 DEF Answer
<1>4. \/ Custodian(t)' = Custodian(t)
      \/ Custodian(t) = "queue" /\ Custodian(t)' = "dlq"
  BY <1>1 DEF Custodian
<1>5. QED BY <1>2, <1>3, <1>4 DEF Passes

LEMMA StatusPasses ==
  ASSUME TypeOK, IInv, NEW t \in Tx, StatusWritten(t)
  PROVE  Elsewhere(t) /\ Passes(t)
<1> USE DEF TypeOK, DbTypeOK
<1>1. /\ UNCHANGED <<sqs, req>> /\ db[t].ozId # None
      /\ \A u \in Tx : db'[u].ozId = db[u].ozId
      /\ \A u \in Tx \ {t} : db'[u] = db[u]
  BY DEF StatusWritten, SetStatus, Row
<1>2. Elsewhere(t) BY <1>1 DEF Elsewhere
<1>3. Answer(t)' = Answer(t) /\ Custodian(t)' = Custodian(t)
  BY <1>1 DEF Answer, Custodian
<1>4. QED BY <1>2, <1>3 DEF Passes

LEMMA NextCustody ==
  TypeOK /\ IInv /\ [Next]_vars
    => [Promises!Next]_<<custodyOf, answerOf>>
<1> SUFFICES ASSUME TypeOK, IInv, [Next]_vars
             PROVE  Promises!Next \/ UNCHANGED <<custodyOf, answerOf>>
  OBVIOUS
<1>1. TypeOK' BY NextTypeOK
<1>2. CASE UNCHANGED <<db, sqs, req>>
  BY <1>2 DEF custodyOf, answerOf, Custodian, Answer
<1>3. ASSUME NEW c \in Consumer, Process(c)
      PROVE  Promises!Next \/ UNCHANGED <<custodyOf, answerOf>>
  <2>1. CASE \E t \in Tx : Receive(c, t)
    BY <1>1, <1>3, <2>1, QueuePasses, PassesIsAStep DEF Process
  <2>2. QED
    BY <1>2, <1>3, <2>1 DEF Process, ProcessStep, BeginShutdown, ShutdownEnds,
       ProcessCrash, Stop, ProcessStart
<1>4. ASSUME NEW d \in Delivery, Handle(d)
      PROVE  Promises!Next \/ UNCHANGED <<custodyOf, answerOf>>
  BY <1>1, <1>4, DeliveryTx, HandlePasses, PassesIsAStep
<1>5. ASSUME NEW t \in Tx, Produce(t) \/ StatusWritten(t)
      PROVE  Promises!Next \/ UNCHANGED <<custodyOf, answerOf>>
  BY <1>1, <1>5, ProducePasses, StatusPasses, PassesIsAStep
<1>6. ASSUME NEW t \in Tx, VisibilityTimeout(t) \/ Redrive(t) \/ Unreceived(t)
      PROVE  Promises!Next \/ UNCHANGED <<custodyOf, answerOf>>
  BY <1>1, <1>6, QueuePasses, PassesIsAStep
<1>7. CASE \E d \in Delivery : Intake(d) BY <1>2, <1>7 DEF Intake
<1>8. CASE UNCHANGED vars BY <1>2, <1>8 DEF vars
<1>9. QED BY <1>3, <1>4, <1>5, <1>6, <1>7, <1>8 DEF Next, PathStep

\* Nobody drops a request whose client got a 202, and a request a relayer has
\* is never taken back: the submission path implements RequestCustody.
THEOREM ImplementsCustody == Spec => KeepsCustody
<1>1. Init => Promises!Init
  BY DEF Init, DbInit, SqsInit, ReqInit, NoRow, Promises!Init, custodyOf,
         answerOf, Custodian, Answer
<1>2. TypeOK /\ IInv /\ [Next]_vars => [Promises!Next]_<<custodyOf, answerOf>>
  BY NextCustody
<1>3. QED
  BY <1>1, <1>2, Invariant, PTL DEF Spec, KeepsCustody, Promises!Spec

=============================================================================
