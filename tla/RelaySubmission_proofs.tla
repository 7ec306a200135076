------------------------ MODULE RelaySubmission_proofs ------------------------
(***************************************************************************)
(* Theorems about RelaySubmission, for any sets of transactions, relayers  *)
(* and consumer processes and any maxReceiveCount.                         *)
(***************************************************************************)
EXTENDS RelaySubmission, FiniteSetTheorems, TLAPS

USE DEF TxOf

(***************************************************************************)
(* Type correctness.  What the shared operators do to the types first, so  *)
(* that the steps below need not open the record types again.              *)
(***************************************************************************)

LEMMA DeliveryTx == \A d \in Delivery : TxOf(d) \in Tx /\ d[2] \in 1..MaxReceive
  BY DEF Delivery

LEMMA DeliveryEqual ==
  \A d, e \in Delivery : TxOf(d) = TxOf(e) /\ d[2] = e[2] => d = e
  BY DEF Delivery

LEMMA SetStatusType ==
  ASSUME DbTypeOK, NEW t \in Tx, NEW s \in RowStatus, SetStatus(t, s)
  PROVE  DbTypeOK'
  BY DEF DbTypeOK, SetStatus, Row

LEMMA GotoType ==
  ASSUME handler \in [Delivery -> Handling], NEW d \in Delivery, NEW p \in Pc,
         Goto(d, p)
  PROVE  handler' \in [Delivery -> Handling]
  BY DEF Goto, Handling

LEMMA OverType == Over \in Handling
  BY DEF Over, Handling, Pc

LEMMA PlaceType ==
  ASSUME SqsTypeOK, NEW t \in Tx, NEW p \in Place,
         sqs' = [sqs EXCEPT ![t].place = p]
  PROVE  SqsTypeOK'
  BY DEF SqsTypeOK

LEMMA InitTypeOK == Init => TypeOK
<1> SUFFICES ASSUME Init PROVE TypeOK OBVIOUS
<1>1. DbTypeOK BY DEF Init, DbInit, DbTypeOK, NoRow, Row, RowStatus
<1>2. SqsTypeOK BY MaxReceiveAssumption DEF Init, SqsInit, SqsTypeOK, Place
<1>3. ReqTypeOK /\ IntakeTypeOK /\ exposed \subseteq Tx
  BY DEF Init, ReqInit, ReqTypeOK, ReqState, IntakeInit, IntakeTypeOK, PostState
<1>4. ConsumerTypeOK BY DEF Init, ConsumerInit, ConsumerTypeOK, Handling, Pc
<1>5. QED BY <1>1, <1>2, <1>3, <1>4 DEF TypeOK

LEMMA ProduceTypeOK ==
  ASSUME TypeOK, NEW t \in Tx, Produce(t)
  PROVE  TypeOK'
<1> USE DEF Produce, TypeOK
<1>1. IntakeTypeOK' /\ ConsumerTypeOK' /\ exposed' \subseteq Tx
  BY DEF IntakeTypeOK, ConsumerTypeOK
<1>2. QueuedRow \in Row /\ "failed" \in RowStatus
  BY DEF QueuedRow, Row, RowStatus, OzStatus
<1>3. ReqTypeOK'
  BY DEF ProducerStep, ReqTypeOK, ReqState, CreateRow, CreateRowFails,
         MessageStored, SendSucceeds, SendFails, RollbackRow, RollbackFails,
         ApiCrash
<1>4. SqsTypeOK'
  <2>1. CASE MessageStored(t)
    BY <2>1, PlaceType DEF MessageStored, Enqueue, Place
  <2>2. CASE UNCHANGED sqs BY <2>2 DEF SqsTypeOK
  <2>3. QED BY <2>1, <2>2 DEF ProducerStep, CreateRow, CreateRowFails,
              SendSucceeds, SendFails, RollbackRow, RollbackFails, ApiCrash
<1>5. DbTypeOK'
  <2>1. CASE CreateRow(t) \/ CreateRowFails(t)
    BY <2>1, <1>2 DEF CreateRow, CreateRowFails, DbTypeOK
  <2>2. CASE RollbackRow(t) BY <2>2, <1>2, SetStatusType DEF RollbackRow
  <2>3. CASE UNCHANGED db BY <2>3 DEF DbTypeOK
  <2>4. QED BY <2>1, <2>2, <2>3 DEF ProducerStep, MessageStored, SendSucceeds,
              SendFails, RollbackFails, ApiCrash
<1>6. QED BY <1>1, <1>3, <1>4, <1>5

LEMMA HandleTypeOK ==
  ASSUME TypeOK, NEW d \in Delivery, Handle(d)
  PROVE  TypeOK'
<1> USE DEF TypeOK, Handle
<1>1. ReqTypeOK' /\ exposed' \subseteq Tx BY DeliveryTx DEF ReqTypeOK
<1>2. proc' = proc
  BY DEF HandlerStep, Skip, ReadRow, MarkProcessing, RouteAndPost, PostAnswered,
         SaveSubmission, DeleteMessage, HandlerFails
<1>3. handler' \in [Delivery -> Handling]
  <2>1. handler \in [Delivery -> Handling] BY DEF ConsumerTypeOK
  <2>2. CASE Skip(d) \/ DeleteMessage(d) \/ HandlerFails(d)
    BY <2>1, <2>2, OverType DEF Skip, DeleteMessage, HandlerFails
  <2>3. CASE \E p \in Pc : Goto(d, p) BY <2>1, <2>3, GotoType
  <2>4. QED
    BY <2>2, <2>3 DEF HandlerStep, ReadRow, MarkProcessing, RouteAndPost,
       PostAnswered, SaveSubmission, Pc
<1>4. DbTypeOK'
  <2>1. CASE MarkProcessing(d)
    BY <2>1, DeliveryTx, SetStatusType DEF MarkProcessing, RowStatus
  <2>2. CASE SaveSubmission(d)
    BY <2>2, DeliveryTx
    DEF SaveSubmission, DbTypeOK, IntakeTypeOK, Row, RowStatus, OzStatus
  <2>3. CASE UNCHANGED db BY <2>3 DEF DbTypeOK
  <2>4. QED BY <2>1, <2>2, <2>3 DEF HandlerStep, Skip, ReadRow, RouteAndPost,
              PostAnswered, DeleteMessage, HandlerFails
<1>5. SqsTypeOK'
  <2>1. CASE DeleteMessage(d)
    BY <2>1, DeliveryTx, PlaceType DEF DeleteMessage, DeleteWith, Place, SqsTypeOK
  <2>2. CASE UNCHANGED sqs BY <2>2 DEF SqsTypeOK
  <2>3. QED BY <2>1, <2>2 DEF HandlerStep, Skip, ReadRow, MarkProcessing,
              RouteAndPost, PostAnswered, SaveSubmission, HandlerFails
<1>6. IntakeTypeOK'
  <2>1. CASE RouteAndPost(d)
    BY <2>1 DEF RouteAndPost, PutOnWire, IntakeTypeOK, PostState
  <2>2. CASE UNCHANGED <<post, home>> BY <2>2 DEF IntakeTypeOK
  <2>3. QED BY <2>1, <2>2 DEF HandlerStep, Skip, ReadRow, MarkProcessing,
              PostAnswered, SaveSubmission, DeleteMessage, HandlerFails
<1>7. QED BY <1>1, <1>2, <1>3, <1>4, <1>5, <1>6 DEF ConsumerTypeOK

LEMMA ProcessTypeOK ==
  ASSUME TypeOK, NEW c \in Consumer, Process(c)
  PROVE  TypeOK'
<1> USE DEF TypeOK
<1>1. DbTypeOK' /\ ReqTypeOK' /\ IntakeTypeOK' /\ exposed' \subseteq Tx
  BY DeliveryTx
  DEF Process, ProcessStep, BeginShutdown, ShutdownEnds, ProcessCrash, Stop,
      ProcessStart, Receive, DbTypeOK, ReqTypeOK, IntakeTypeOK
<1> SUFFICES SqsTypeOK' /\ ConsumerTypeOK' BY <1>1
<1>2. ASSUME NEW t \in Tx, Receive(c, t) PROVE SqsTypeOK' /\ ConsumerTypeOK'
  <2>1. SqsTypeOK'
    BY <1>2, MaxReceiveAssumption DEF Receive, Dequeue, SqsTypeOK, Place
  <2>2. [pc |-> "received", owner |-> c] \in Handling BY DEF Handling, Pc
  <2>3. QED BY <1>2, <2>1, <2>2 DEF Receive, ConsumerTypeOK
<1>3. CASE ShutdownEnds(c) \/ ProcessCrash(c)
  BY <1>3, OverType
  DEF ShutdownEnds, ProcessCrash, Stop, SqsTypeOK, ConsumerTypeOK
<1>4. CASE BeginShutdown(c) \/ ProcessStart(c)
  BY <1>4 DEF BeginShutdown, ProcessStart, SqsTypeOK, ConsumerTypeOK
<1>5. QED BY <1>1, <1>2, <1>3, <1>4 DEF Process, ProcessStep

LEMMA NextTypeOK == TypeOK /\ [Next]_vars => TypeOK'
<1> SUFFICES ASSUME TypeOK, [Next]_vars PROVE TypeOK' OBVIOUS
<1> USE DEF TypeOK
<1>1. ASSUME NEW t \in Tx, VisibilityTimeout(t) \/ Redrive(t) PROVE TypeOK'
  <2>1. SqsTypeOK'
    BY <1>1, PlaceType
    DEF VisibilityTimeout, Redrive, Reappear, MoveToDlq, Place
  <2>2. QED
    BY <1>1, <2>1 DEF VisibilityTimeout, Redrive, DbTypeOK, ReqTypeOK,
       IntakeTypeOK, ConsumerTypeOK
<1>2. ASSUME NEW t \in Tx, StatusWritten(t), UNCHANGED exposed PROVE TypeOK'
  <2>1. DbTypeOK' BY <1>2, SetStatusType DEF StatusWritten, RowStatus
  <2>2. QED
    BY <1>2, <2>1
    DEF StatusWritten, SqsTypeOK, ReqTypeOK, IntakeTypeOK, ConsumerTypeOK
<1>3. ASSUME NEW d \in Delivery, Intake(d) PROVE TypeOK'
  <2>1. IntakeTypeOK'
    BY <1>3 DEF Intake, RelayerAccepts, RelayerLoses, IntakeTypeOK, PostState
  <2>2. QED BY <1>3, <2>1 DEF Intake, DbTypeOK, SqsTypeOK, ReqTypeOK, ConsumerTypeOK
<1>4. CASE UNCHANGED vars
  BY <1>4 DEF vars, DbTypeOK, SqsTypeOK, ReqTypeOK, IntakeTypeOK, ConsumerTypeOK
<1>5. ASSUME NEW t \in Tx, Unreceived(t) PROVE TypeOK'
  <2>1. SqsTypeOK'
    BY <1>5, MaxReceiveAssumption
    DEF Unreceived, ReceiveInVain, Dequeue, SqsTypeOK, Place
  <2>2. ConsumerTypeOK'
    BY <1>5, OverType DEF Unreceived, ReceiveInVain, ConsumerTypeOK
  <2>3. QED
    BY <1>5, <2>1, <2>2
    DEF Unreceived, ReceiveInVain, DbTypeOK, ReqTypeOK, IntakeTypeOK
<1>6. QED
  BY <1>1, <1>2, <1>3, <1>4, <1>5, ProduceTypeOK, HandleTypeOK, ProcessTypeOK
  DEF Next, PathStep

\* Every variable keeps its type, for every value of the constants.
THEOREM TypeCorrect == Spec => []TypeOK
  BY InitTypeOK, NextTypeOK, PTL DEF Spec

(***************************************************************************)
(* The inductive invariant, one lemma per group of actions.                *)
(***************************************************************************)

LEMMA InitIInv == Init => IInv
<1> SUFFICES ASSUME Init PROVE IInv OBVIOUS
<1> USE DEF Init, DbInit, SqsInit, ReqInit, IntakeInit, ConsumerInit, NoRow, Delivery
<1>1. HandlersFollowDeliveries BY DEF HandlersFollowDeliveries, Live
<1>2. NothingBeforeTheRow BY DEF NothingBeforeTheRow
<1>3. RecordedSubmissionIsReal BY DEF RecordedSubmissionIsReal
<1>4. DeletedForAReason BY DEF DeletedForAReason
<1>5. OneWorkerUnlessExposed BY DEF OneWorkerUnlessExposed, Submitter
<1>6. QED BY <1>1, <1>2, <1>3, <1>4, <1>5 DEF IInv

LEMMA ProduceIInv ==
  ASSUME TypeOK, IInv, NEW t \in Tx, Produce(t)
  PROVE  IInv'
<1> USE DEF TypeOK, IInv, Produce, DbTypeOK, SqsTypeOK, ReqTypeOK, ConsumerTypeOK
<1>1. HandlersFollowDeliveries'
  <2>1. \A u \in Tx : sqs'[u].count = sqs[u].count
    BY DEF ProducerStep, CreateRow, CreateRowFails, MessageStored, Enqueue,
       SendSucceeds, SendFails, RollbackRow, RollbackFails, ApiCrash
  <2>2. QED BY <2>1, DeliveryTx DEF HandlersFollowDeliveries, Live
<1>2. NothingBeforeTheRow'
  <2>1. CASE CreateRow(t) \/ CreateRowFails(t)
    BY <2>1 DEF NothingBeforeTheRow, CreateRow, CreateRowFails, QueuedRow
  <2>2. CASE MessageStored(t) BY <2>2 DEF NothingBeforeTheRow, MessageStored, Enqueue
  <2>3. CASE RollbackRow(t)
    BY <2>3 DEF NothingBeforeTheRow, RollbackRow, SetStatus
  <2>4. CASE SendSucceeds(t) \/ SendFails(t) \/ RollbackFails(t) \/ ApiCrash(t)
    BY <2>4 DEF NothingBeforeTheRow, SendSucceeds, SendFails, RollbackFails, ApiCrash
  <2>5. QED BY <2>1, <2>2, <2>3, <2>4 DEF ProducerStep
<1>3. \A u \in Tx : /\ db'[u].ozId = db[u].ozId
                    /\ db[u].ozId # None => db'[u].ozUrl = db[u].ozUrl
  <2>1. CASE CreateRow(t) \/ CreateRowFails(t)
    <3>1. db[t] = NoRow BY <2>1 DEF NothingBeforeTheRow, CreateRow, CreateRowFails
    <3>2. QED BY <2>1, <3>1 DEF CreateRow, CreateRowFails, NoRow, QueuedRow
  <2>2. CASE RollbackRow(t) BY <2>2 DEF RollbackRow, SetStatus, Row
  <2>3. CASE UNCHANGED db BY <2>3
  <2>4. QED BY <2>1, <2>2, <2>3 DEF ProducerStep, MessageStored, SendSucceeds,
              SendFails, RollbackFails, ApiCrash
<1>4. RecordedSubmissionIsReal'
  BY <1>3, DeliveryTx DEF RecordedSubmissionIsReal, RelayerTxs
<1>5. DeletedForAReason'
  BY <1>3 DEF DeletedForAReason, ProducerStep, CreateRow, CreateRowFails,
     MessageStored, Enqueue, SendSucceeds, SendFails, RollbackRow,
     RollbackFails, ApiCrash, SetStatus, QueuedRow
<1>6. OneWorkerUnlessExposed'
  <2>1. ASSUME NEW u \in Tx, sqs'[u] # sqs[u]
        PROVE  \A d \in Delivery : TxOf(d) = u => handler[d].pc = "idle"
    <3>1. sqs[u].place = "unsent"
      BY <2>1 DEF ProducerStep, CreateRow, CreateRowFails, MessageStored,
         Enqueue, SendSucceeds, SendFails, RollbackRow, RollbackFails, ApiCrash
    <3>2. QED
      BY <3>1, DeliveryTx DEF NothingBeforeTheRow, HandlersFollowDeliveries
  <2>2. QED BY <1>3, <2>1, DeliveryTx DEF OneWorkerUnlessExposed, Submitter
<1>7. QED BY <1>1, <1>2, <1>4, <1>5, <1>6

LEMMA HandleIInv ==
  ASSUME TypeOK, IInv, NEW d \in Delivery, Handle(d)
  PROVE  IInv'
<1> USE DEF TypeOK, IInv, Handle
<1>t. PICK t \in Tx : t = TxOf(d) BY DeliveryTx
<1>a. /\ handler \in [Delivery -> Handling] /\ post \in [Delivery -> PostState]
      /\ home \in [Delivery -> Relayer \cup {None}]
  BY DEF ConsumerTypeOK, IntakeTypeOK
<1>b. sqs \in [Tx -> [place : Place, count : 0..MaxReceive]] /\ db \in [Tx -> Row]
  BY DEF SqsTypeOK, DbTypeOK
<1>c. \A e \in Delivery \ {d} : handler'[e] = handler[e]
  BY <1>a DEF HandlerStep, Skip, ReadRow, MarkProcessing, RouteAndPost,
     PostAnswered, SaveSubmission, DeleteMessage, HandlerFails, Goto
<1>d. \A u \in Tx : /\ sqs'[u].count = sqs[u].count
                    /\ sqs'[u].place \in {sqs[u].place, "deleted"}
                    /\ sqs[u].place = "unsent" <=> sqs'[u].place = "unsent"
  <2>1. CASE DeleteMessage(d)
    <3>1. sqs[t].place # "unsent"
      BY <2>1, <1>t, <1>b, MaxReceiveAssumption
      DEF DeleteMessage, DeleteWith, NothingBeforeTheRow, Delivery
    <3>2. QED BY <2>1, <3>1, <1>t, <1>b DEF DeleteMessage, DeleteWith
  <2>2. CASE UNCHANGED sqs BY <2>2
  <2>3. QED BY <2>1, <2>2 DEF HandlerStep, Skip, ReadRow, MarkProcessing,
              RouteAndPost, PostAnswered, SaveSubmission, HandlerFails
<1>e. \A e \in Delivery \ {d} : post'[e] = post[e] /\ home'[e] = home[e]
  BY <1>a DEF HandlerStep, Skip, ReadRow, MarkProcessing, RouteAndPost,
     PutOnWire, PostAnswered, SaveSubmission, DeleteMessage, HandlerFails
<1>p. Live(d) => sqs[t].place # "unsent" /\ req[t] # "idle"
  BY <1>t, <1>b, MaxReceiveAssumption
  DEF Live, HandlersFollowDeliveries, NothingBeforeTheRow, Delivery
<1>f. CASE RouteAndPost(d)
  <2>1. /\ handler[d].pc = "routing" /\ handler'[d].pc = "posting"
        /\ handler'[d].owner = handler[d].owner
        /\ post'[d] = "wire" /\ post[d] = "none"
        /\ UNCHANGED <<db, sqs, proc>>
    BY <1>f, <1>a DEF RouteAndPost, Goto, PutOnWire, Handling,
       HandlersFollowDeliveries
  <2>2. HandlersFollowDeliveries'
    BY <2>1, <1>c, <1>d, <1>e DEF HandlersFollowDeliveries, Live
  <2>3. NothingBeforeTheRow' BY <2>1 DEF NothingBeforeTheRow
  <2>4. RecordedSubmissionIsReal'
    BY <2>1, <1>e DEF RecordedSubmissionIsReal, RelayerTxs
  <2>5. DeletedForAReason' BY <2>1, <1>c DEF DeletedForAReason
  <2>6. OneWorkerUnlessExposed'
    BY <2>1, <1>c, <1>e DEF OneWorkerUnlessExposed, Submitter, LosesTrack
  <2>7. QED BY <2>2, <2>3, <2>4, <2>5, <2>6
<1>g. CASE SaveSubmission(d)
  <2>1. /\ handler[d].pc = "saving" /\ handler'[d].pc = "deleting"
        /\ handler'[d].owner = handler[d].owner
        /\ post[d] = "accepted" /\ db'[t].ozId = d /\ db'[t].ozUrl = home[d]
        /\ db'[t].status = "submitted"
        /\ \A u \in Tx \ {t} : db'[u] = db[u]
        /\ UNCHANGED <<sqs, post, home, proc>>
    BY <1>g, <1>a, <1>b, <1>t DEF SaveSubmission, Goto, Handling,
       HandlersFollowDeliveries
  <2>2. d # None BY NoneAssumption
  <2>3. HandlersFollowDeliveries'
    BY <2>1, <1>c DEF HandlersFollowDeliveries, Live
  <2>4. NothingBeforeTheRow'
    BY <2>1, <1>p, <1>t DEF NothingBeforeTheRow, Live
  <2>5. RecordedSubmissionIsReal'
    BY <2>1, <1>t DEF RecordedSubmissionIsReal, RelayerTxs
  <2>6. DeletedForAReason' BY <2>1, <2>2, <1>c, <1>t DEF DeletedForAReason
  <2>7. OneWorkerUnlessExposed'
    <3>1. ASSUME NEW e \in Delivery \ {d}, t \notin exposed, TxOf(e) = t
          PROVE  ~Submitter(e) /\ post[e] \notin {"wire", "accepted"}
      <4>1. db[t].ozId = None BY <3>1, <2>1, <1>t DEF OneWorkerUnlessExposed, Submitter
      <4>2. ~Submitter(e)
        BY <3>1, <2>1, <1>t, DeliveryEqual DEF OneWorkerUnlessExposed, Submitter
      <4>3. QED BY <3>1, <4>1, <4>2, NoneAssumption DEF OneWorkerUnlessExposed, Submitter
    <3>2. exposed' = exposed BY <2>1
    <3>3. ASSUME NEW e \in Delivery \ {d}, TxOf(e) \notin exposed
          PROVE  /\ Submitter(e) => db'[TxOf(e)].ozId = None
                 /\ post[e] \in {"wire", "accepted"} =>
                       handler[e].pc \in {"posting", "saving"} \/ db'[TxOf(e)].ozId = e
      BY <3>1, <3>3, <2>1, DeliveryTx DEF OneWorkerUnlessExposed
    <3>4. QED
      BY <3>2, <3>3, <2>1, <1>c, <1>t DEF OneWorkerUnlessExposed, Submitter
  <2>8. QED BY <2>3, <2>4, <2>5, <2>6, <2>7
<1>h. CASE ReadRow(d)
  <2>1. /\ handler[d].pc = "received"
        /\ handler'[d].pc = IF Settled(t) THEN "deleting" ELSE "marking"
        /\ handler'[d].owner = handler[d].owner
        /\ UNCHANGED <<db, sqs, post, home, proc>>
    BY <1>h, <1>a, <1>t DEF ReadRow, Goto, Handling
  <2>2. HandlersFollowDeliveries'
    BY <2>1, <1>c DEF HandlersFollowDeliveries, Live
  <2>3. NothingBeforeTheRow' BY <2>1 DEF NothingBeforeTheRow
  <2>4. RecordedSubmissionIsReal'
    BY <2>1 DEF RecordedSubmissionIsReal, RelayerTxs
  <2>5. DeletedForAReason' BY <2>1, <1>c, <1>t DEF DeletedForAReason, Settled
  <2>6. OneWorkerUnlessExposed'
    BY <2>1, <1>c, <1>t DEF OneWorkerUnlessExposed, Submitter, Settled
  <2>7. QED BY <2>2, <2>3, <2>4, <2>5, <2>6
<1>i. CASE MarkProcessing(d)
  <2>1. /\ handler[d].pc = "marking" /\ handler'[d].pc = "routing"
        /\ handler'[d].owner = handler[d].owner
        /\ db'[t].status = "processing"
        /\ \A u \in Tx : db'[u].ozId = db[u].ozId /\ db'[u].ozUrl = db[u].ozUrl
        /\ \A u \in Tx \ {t} : db'[u] = db[u]
        /\ UNCHANGED <<sqs, post, home, proc>>
    BY <1>i, <1>a, <1>b, <1>t DEF MarkProcessing, SetStatus, Goto, Handling, Row
  <2>2. HandlersFollowDeliveries'
    BY <2>1, <1>c DEF HandlersFollowDeliveries, Live
  <2>3. NothingBeforeTheRow' BY <2>1, <1>p, <1>t DEF NothingBeforeTheRow, Live
  <2>4. RecordedSubmissionIsReal'
    BY <2>1 DEF RecordedSubmissionIsReal, RelayerTxs
  <2>5. DeletedForAReason' BY <2>1, <1>c, <1>t DEF DeletedForAReason
  <2>6. OneWorkerUnlessExposed'
    BY <2>1, <1>c, <1>t, DeliveryTx DEF OneWorkerUnlessExposed, Submitter
  <2>7. QED BY <2>2, <2>3, <2>4, <2>5, <2>6
<1>j. CASE PostAnswered(d)
  <2>1. /\ handler[d].pc = "posting" /\ handler'[d].pc = "saving"
        /\ handler'[d].owner = handler[d].owner
        /\ post[d] = "accepted"
        /\ UNCHANGED <<db, sqs, post, home, proc>>
    BY <1>j, <1>a DEF PostAnswered, Goto, Handling
  <2>2. HandlersFollowDeliveries'
    BY <2>1, <1>c DEF HandlersFollowDeliveries, Live
  <2>3. NothingBeforeTheRow' BY <2>1 DEF NothingBeforeTheRow
  <2>4. RecordedSubmissionIsReal'
    BY <2>1 DEF RecordedSubmissionIsReal, RelayerTxs
  <2>5. DeletedForAReason' BY <2>1, <1>c DEF DeletedForAReason
  <2>6. OneWorkerUnlessExposed'
    BY <2>1, <1>c DEF OneWorkerUnlessExposed, Submitter
  <2>7. QED BY <2>2, <2>3, <2>4, <2>5, <2>6
<1>k. CASE Skip(d) \/ DeleteMessage(d) \/ HandlerFails(d)
  <2>1. /\ Live(d) /\ handler'[d].pc = "over" /\ handler'[d].owner = None
        /\ UNCHANGED <<db, post, home, proc>>
    BY <1>k, <1>a DEF Skip, DeleteMessage, HandlerFails, Over, Live
  <2>2. HandlersFollowDeliveries'
    BY <2>1, <1>c, <1>d, DeliveryTx DEF HandlersFollowDeliveries, Live
  <2>3. NothingBeforeTheRow' BY <2>1, <1>d DEF NothingBeforeTheRow
  <2>4. RecordedSubmissionIsReal'
    BY <2>1 DEF RecordedSubmissionIsReal, RelayerTxs
  <2>5. DeletedForAReason'
    <3>1. CASE sqs' = sqs BY <3>1, <2>1, <1>c DEF DeletedForAReason
    <3>2. CASE DeleteMessage(d)
      BY <3>2, <2>1, <1>b, <1>c, <1>t
      DEF DeletedForAReason, DeleteMessage, DeleteWith
    <3>3. QED BY <3>1, <3>2, <1>k DEF Skip, HandlerFails
  <2>6. OneWorkerUnlessExposed'
    BY <2>1, <1>c, <1>d, <1>t, DeliveryTx
    DEF OneWorkerUnlessExposed, Submitter, LosesTrack
  <2>7. QED BY <2>2, <2>3, <2>4, <2>5, <2>6
<1>l. QED BY <1>f, <1>g, <1>h, <1>i, <1>j, <1>k DEF HandlerStep

\* A message is received, by a handler or in vain.
LEMMA DequeueIInv ==
  ASSUME TypeOK, IInv, NEW t \in Tx, NEW h \in Handling,
         h.pc \in {"received", "over"}, h.owner # None <=> h.pc = "received",
         Dequeue(t), handler' = [handler EXCEPT ![<<t, sqs[t].count + 1>>] = h],
         UNCHANGED <<db, req, post, home>>, exposed \subseteq exposed'
  PROVE  IInv'
<1> USE DEF TypeOK, IInv
<1>a. /\ handler \in [Delivery -> Handling]
      /\ sqs \in [Tx -> [place : Place, count : 0..MaxReceive]]
  BY DEF ConsumerTypeOK, SqsTypeOK
<1>c. RecordedSubmissionIsReal' BY DEF RecordedSubmissionIsReal, RelayerTxs
<1> DEFINE k == sqs[t].count + 1
<1> DEFINE d == <<t, k>>
<1>1. /\ sqs[t].place = "visible" /\ k \in 1..MaxReceive /\ d \in Delivery
      /\ sqs'[t].place = "inflight" /\ sqs'[t].count = k
      /\ \A u \in Tx \ {t} : sqs'[u] = sqs[u]
  BY <1>a, MaxReceiveAssumption DEF Dequeue, Delivery
<1>2. handler'[d] = h /\ \A e \in Delivery \ {d} : handler'[e] = handler[e]
  BY <1>a, <1>1
<1>3. handler[d].pc = "idle" /\ post[d] = "none" /\ TxOf(d) = t /\ d[2] = k
  BY <1>1, <1>a DEF HandlersFollowDeliveries
<1> HIDE DEF d
<1>4. \A e \in Delivery \ {d} : TxOf(e) = t => (e[2] <= k <=> e[2] <= sqs[t].count)
  <2>1. ASSUME NEW e \in Delivery \ {d}, TxOf(e) = t PROVE e[2] # k
    BY <2>1, <1>1, <1>3, DeliveryEqual
  <2>2. \A e \in Delivery : e[2] \in Nat BY DeliveryTx, MaxReceiveAssumption
  <2>3. sqs[t].count \in Nat BY <1>a, MaxReceiveAssumption
  <2>4. QED BY <2>1, <2>2, <2>3
<1> HIDE DEF k
<1>5. HandlersFollowDeliveries'
  <2>1. ASSUME NEW e \in Delivery \ {d}
        PROVE  e[2] <= sqs'[TxOf(e)].count <=> e[2] <= sqs[TxOf(e)].count
    BY <1>1, <1>4, DeliveryTx
  <2>2. d[2] <= sqs'[TxOf(d)].count BY <1>1, <1>3
  <2>3. QED
    BY <1>2, <1>3, <2>1, <2>2
    DEF HandlersFollowDeliveries, Live
<1>6. NothingBeforeTheRow' BY <1>1 DEF NothingBeforeTheRow
<1>7. DeletedForAReason' BY <1>1, <1>2 DEF DeletedForAReason
<1>8. OneWorkerUnlessExposed'
  <2>1. ASSUME NEW e \in Delivery, TxOf(e) = t, t \notin exposed
        PROVE  ~Submitter(e) /\ handler[e].pc # "received"
    BY <2>1, <1>1 DEF OneWorkerUnlessExposed
  <2>2. QED
    BY <1>1, <1>2, <1>3, <2>1, DeliveryTx
    DEF OneWorkerUnlessExposed, Submitter
<1>9. QED BY <1>5, <1>6, <1>7, <1>8, <1>c

LEMMA ProcessIInv ==
  ASSUME TypeOK, IInv, NEW c \in Consumer, Process(c)
  PROVE  IInv'
<1> USE DEF TypeOK, IInv
<1>a. /\ handler \in [Delivery -> Handling]
      /\ sqs \in [Tx -> [place : Place, count : 0..MaxReceive]]
  BY DEF ConsumerTypeOK, SqsTypeOK
<1>b. UNCHANGED <<db, req, post, home>> /\ exposed \subseteq exposed'
  BY DEF Process, ProcessStep, BeginShutdown, ShutdownEnds, ProcessCrash, Stop,
         ProcessStart, Receive
<1>c. RecordedSubmissionIsReal'
  BY <1>b DEF RecordedSubmissionIsReal, RelayerTxs
<1>d. CASE BeginShutdown(c) \/ ProcessStart(c)
  <2>1. UNCHANGED <<sqs, handler>> BY <1>d DEF BeginShutdown, ProcessStart
  <2>2. QED
    BY <2>1, <1>b, <1>c
    DEF HandlersFollowDeliveries, Live, NothingBeforeTheRow, DeletedForAReason,
        OneWorkerUnlessExposed, Submitter
<1>e. CASE ShutdownEnds(c) \/ ProcessCrash(c)
  <2>1. /\ handler' = [d \in Delivery |->
                         IF handler[d].owner = c THEN Over ELSE handler[d]]
        /\ UNCHANGED sqs
    BY <1>e DEF ShutdownEnds, ProcessCrash, Stop
  <2>2. \A d \in Delivery :
           \/ handler'[d] = handler[d]
           \/ /\ handler'[d].pc = "over" /\ handler'[d].owner = None /\ Live(d)
              /\ LosesTrack(d) => TxOf(d) \in exposed'
    <3> TAKE d \in Delivery
    <3>1. CASE handler[d].owner = c
      <4>1. handler'[d].pc = "over" /\ handler'[d].owner = None /\ Live(d)
        BY <3>1, <2>1, ConsumerAssumption DEF Over, HandlersFollowDeliveries
      <4>2. LosesTrack(d) => TxOf(d) \in exposed' BY <4>1 DEF Process
      <4>3. QED BY <4>1, <4>2
    <3>2. QED BY <3>1, <2>1
  <2>3. HandlersFollowDeliveries'
    BY <2>1, <2>2, <1>b DEF HandlersFollowDeliveries, Live
  <2>4. NothingBeforeTheRow' BY <2>1, <1>b DEF NothingBeforeTheRow
  <2>5. DeletedForAReason' BY <2>1, <2>2, <1>b DEF DeletedForAReason
  <2>6. OneWorkerUnlessExposed'
    BY <2>1, <2>2, <1>b DEF OneWorkerUnlessExposed, Submitter, LosesTrack
  <2>7. QED BY <2>3, <2>4, <2>5, <2>6, <1>c
<1>f. ASSUME NEW t \in Tx, Receive(c, t) PROVE IInv'
  <2> DEFINE h == [pc |-> "received", owner |-> c]
  <2>1. h \in Handling BY DEF Handling, Pc
  <2>2. h.pc = "received" /\ (h.owner # None <=> h.pc = "received")
    BY ConsumerAssumption
  <2> HIDE DEF h
  <2>3. /\ Dequeue(t)
        /\ handler' = [handler EXCEPT ![<<t, sqs[t].count + 1>>] = h]
    BY <1>f DEF Receive, h
  <2>4. QED BY <2>1, <2>2, <2>3, <1>b, DequeueIInv
<1>g. QED BY <1>d, <1>e, <1>f DEF Process, ProcessStep

LEMMA NextIInv == TypeOK /\ IInv /\ [Next]_vars => IInv'
<1> SUFFICES ASSUME TypeOK, IInv, [Next]_vars PROVE IInv' OBVIOUS
<1> USE DEF TypeOK, IInv
<1>1. ASSUME NEW t \in Tx, VisibilityTimeout(t) \/ Redrive(t) PROVE IInv'
  <2>1. /\ UNCHANGED <<db, req, post, home, handler>>
        /\ exposed' = exposed \/ exposed' = exposed \cup {t}
    BY <1>1 DEF VisibilityTimeout, Redrive
  <2>2. /\ sqs[t].place \in {"visible", "inflight"}
        /\ sqs'[t].place \in {"visible", "dlq"} /\ sqs'[t].count = sqs[t].count
        /\ \A u \in Tx \ {t} : sqs'[u] = sqs[u]
    BY <1>1 DEF VisibilityTimeout, Redrive, Reappear, MoveToDlq, SqsTypeOK
  <2>3. HandlersFollowDeliveries'
    BY <2>1, <2>2, DeliveryTx DEF HandlersFollowDeliveries, Live
  <2>4. NothingBeforeTheRow' BY <2>1, <2>2 DEF NothingBeforeTheRow
  <2>5. RecordedSubmissionIsReal'
    BY <2>1 DEF RecordedSubmissionIsReal, RelayerTxs
  <2>6. DeletedForAReason' BY <2>1, <2>2 DEF DeletedForAReason
  <2>7. OneWorkerUnlessExposed'
    <3>1. ASSUME NEW d \in Delivery, TxOf(d) = t, t \notin exposed'
          PROVE  ~Submitter(d) /\ handler[d].pc # "received"
      <4>1. CASE VisibilityTimeout(t)
        BY <4>1, <3>1 DEF VisibilityTimeout, Overtaken
      <4>2. CASE Redrive(t)
        BY <4>2, <3>1 DEF Redrive, MoveToDlq, OneWorkerUnlessExposed
      <4>3. QED BY <4>1, <4>2, <1>1
    <3>2. QED
      BY <2>1, <2>2, <3>1, DeliveryTx DEF OneWorkerUnlessExposed, Submitter
  <2>8. QED BY <2>3, <2>4, <2>5, <2>6, <2>7
<1>2. ASSUME NEW t \in Tx, StatusWritten(t), UNCHANGED exposed PROVE IInv'
  <2>1. /\ UNCHANGED <<sqs, req, post, home, handler>> /\ db[t].ozId # None
        /\ \A u \in Tx : db'[u].ozId = db[u].ozId /\ db'[u].ozUrl = db[u].ozUrl
        /\ \A u \in Tx \ {t} : db'[u] = db[u]
        /\ db'[t].status # "absent"
    BY <1>2 DEF StatusWritten, SetStatus, DbTypeOK, Row, OzStatus
  <2>2. HandlersFollowDeliveries' BY <2>1 DEF HandlersFollowDeliveries, Live
  <2>3. NothingBeforeTheRow' BY <2>1 DEF NothingBeforeTheRow, NoRow
  <2>4. RecordedSubmissionIsReal'
    BY <2>1 DEF RecordedSubmissionIsReal, RelayerTxs
  <2>5. DeletedForAReason' BY <2>1 DEF DeletedForAReason
  <2>6. OneWorkerUnlessExposed'
    BY <1>2, <2>1, DeliveryTx DEF OneWorkerUnlessExposed, Submitter
  <2>7. QED BY <2>2, <2>3, <2>4, <2>5, <2>6
<1>3. ASSUME NEW d \in Delivery, Intake(d) PROVE IInv'
  <2>1. /\ UNCHANGED <<db, sqs, req, home, handler, exposed>>
        /\ post[d] = "wire" /\ post'[d] \in {"accepted", "lost"}
        /\ \A e \in Delivery \ {d} : post'[e] = post[e]
    BY <1>3 DEF Intake, RelayerAccepts, RelayerLoses, IntakeTypeOK
  <2>2. HandlersFollowDeliveries' BY <2>1 DEF HandlersFollowDeliveries, Live
  <2>3. NothingBeforeTheRow' BY <2>1 DEF NothingBeforeTheRow
  <2>4. RecordedSubmissionIsReal'
    BY <2>1 DEF RecordedSubmissionIsReal, RelayerTxs
  <2>5. DeletedForAReason' BY <2>1 DEF DeletedForAReason
  <2>6. OneWorkerUnlessExposed'
    BY <2>1 DEF OneWorkerUnlessExposed, Submitter
  <2>7. QED BY <2>2, <2>3, <2>4, <2>5, <2>6
<1>4. CASE UNCHANGED vars
  BY <1>4 DEF vars, HandlersFollowDeliveries, Live, NothingBeforeTheRow,
     RecordedSubmissionIsReal, RelayerTxs, DeletedForAReason,
     OneWorkerUnlessExposed, Submitter
<1>5. ASSUME NEW t \in Tx, Unreceived(t) PROVE IInv'
  <2>1. Over.pc = "over" /\ Over.owner = None BY DEF Over
  <2>2. QED
    BY <1>5, <2>1, OverType, DequeueIInv DEF Unreceived, ReceiveInVain
<1>6. QED
  BY <1>1, <1>2, <1>3, <1>4, <1>5, ProduceIInv, HandleIInv, ProcessIInv DEF Next, PathStep

\* What handlers, deliveries, rows and requests know of each other, on which all
\* that follows rests: the state of a handler and of its POST agree, nothing
\* exists of a request before its row, a message is deleted for a reason that
\* still stands, and while t is not exposed one handler alone works on it.
THEOREM Invariant == Spec => [](TypeOK /\ IInv)
<1>1. Init => TypeOK /\ IInv BY InitTypeOK, InitIInv
<1>2. TypeOK /\ IInv /\ [Next]_vars => (TypeOK /\ IInv)'
  BY NextTypeOK, NextIInv
<1>3. QED BY <1>1, <1>2, PTL DEF Spec

(***************************************************************************)
(* The properties.                                                         *)
(***************************************************************************)

\* A transaction whose client got a 202 is in SQS, in the dead-letter queue or
\* recorded as relayed: handleMessage deletes only what it has saved.
THEOREM AcceptedIsNeverLost == Spec => []NoAcceptedTransactionLost
<1>1. TypeOK /\ IInv => NoAcceptedTransactionLost
  BY DEF TypeOK, SqsTypeOK, Place, IInv, NothingBeforeTheRow, DeletedForAReason,
         NoAcceptedTransactionLost, Held
<1>2. QED BY <1>1, Invariant, PTL

\* The row's ozRelayerTxId and ozRelayerUrl always belong together and name a
\* transaction that relayer accepted for this row.
THEOREM RecordedIsReal == Spec => []RecordedSubmissionIsReal
<1>1. IInv => RecordedSubmissionIsReal BY DEF IInv
<1>2. QED BY <1>1, Invariant, PTL

\* A row without ozRelayerTxId that nobody works on was never sent, unless
\* exposed.
THEOREM UnrecordedIsUnsent == Spec => []UnrecordedMeansUnsent
<1>1. IInv => UnrecordedMeansUnsent
  BY NoneAssumption
  DEF IInv, OneWorkerUnlessExposed, UnrecordedMeansUnsent, Submissions, Submitter
<1>2. QED BY <1>1, Invariant, PTL

\* Whatever is redelivered and whatever fails elsewhere, a transaction is
\* relayed at most once unless a handler was overtaken by its visibility
\* timeout or ended between its POST and the UPDATE that records it.
THEOREM AtMostOnceUnlessExposed == Spec => []ExactlyOnceUnlessExposed
<1>1. TypeOK /\ IInv => ExactlyOnceUnlessExposed
  <2> SUFFICES ASSUME TypeOK, IInv, NEW t \in Tx, t \notin exposed
               PROVE  Cardinality(Submissions(t)) <= 1
    BY DEF ExactlyOnceUnlessExposed
  <2>1. \A d, e \in Submissions(t) : d = e
    <3> TAKE d, e \in Submissions(t)
    <3>1. /\ d \in Delivery /\ TxOf(d) = t /\ post[d] \in {"wire", "accepted"}
          /\ e \in Delivery /\ TxOf(e) = t /\ post[e] \in {"wire", "accepted"}
      BY DEF Submissions
    <3>2. CASE Submitter(d) /\ Submitter(e)
      BY <3>1, <3>2, DeliveryEqual DEF IInv, OneWorkerUnlessExposed
    <3>3. CASE ~Submitter(d) \/ ~Submitter(e)
      BY <3>1, <3>3, NoneAssumption DEF IInv, OneWorkerUnlessExposed, Submitter
    <3>4. QED BY <3>2, <3>3
  <2>2. CASE Submissions(t) = {} BY <2>2, FS_EmptySet
  <2>3. CASE Submissions(t) # {}
    <3>1. PICK d \in Submissions(t) : TRUE BY <2>3
    <3>2. Submissions(t) = {d} BY <2>1, <3>1
    <3>3. Cardinality({d}) = 1 BY FS_Singleton
    <3>4. QED BY <3>2, <3>3
  <2>4. QED BY <2>2, <2>3
<1>2. QED BY <1>1, Invariant, PTL

LEMMA QuietStep ==
  ASSUME TypeOK, IInv, [Next]_vars, NEW t \in Tx, Quiet(t)
  PROVE  Quiet(t)' /\ RelayerTxs(t)' = RelayerTxs(t)
<1> USE DEF TypeOK, DbTypeOK, ConsumerTypeOK, IntakeTypeOK
<1>q. /\ Settled(t)
      /\ \A d \in Delivery : TxOf(d) = t => ~Submitter(d) /\ post[d] # "wire"
  BY DEF Quiet
\* It is enough that the row stays settled and no handler or POST of t
\* comes to life.
<1>s. SUFFICES /\ Settled(t)'
               /\ \A d \in Delivery : TxOf(d) = t =>
                     ~Submitter(d)' /\ post'[d] = post[d]
  BY <1>q DEF Quiet, RelayerTxs
<1>1. ASSUME NEW u \in Tx, Produce(u) PROVE Settled(t)' /\ UNCHANGED <<handler, post>>
  <2>1. CASE CreateRow(u) \/ CreateRowFails(u)
    <3>1. req[u] = "idle" BY <2>1 DEF CreateRow, CreateRowFails
    <3>2. t # u
      BY <3>1, <1>q DEF IInv, NothingBeforeTheRow, NoRow, Settled
    <3>3. QED
      BY <1>1, <2>1, <3>2, <1>q DEF Produce, CreateRow, CreateRowFails, Settled
  <2>2. CASE RollbackRow(u)
    BY <1>1, <2>2, <1>q DEF Produce, RollbackRow, SetStatus, Settled, Row
  <2>3. CASE UNCHANGED db BY <1>1, <2>3, <1>q DEF Produce, Settled
  <2>4. QED
    BY <1>1, <2>1, <2>2, <2>3 DEF Produce, ProducerStep, MessageStored,
       SendSucceeds, SendFails, RollbackFails, ApiCrash
<1>2. ASSUME NEW d \in Delivery, Handle(d), TxOf(d) = t
      PROVE  /\ UNCHANGED <<db, post>> /\ handler'[d].pc \in {"deleting", "over"}
             /\ \A e \in Delivery \ {d} : handler'[e] = handler[e]
  <2>1. CASE ReadRow(d)
    BY <2>1, <1>2, <1>q DEF ReadRow, Goto, Handling
  <2>2. CASE Skip(d) \/ DeleteMessage(d) \/ HandlerFails(d)
    BY <2>2, <1>2 DEF Skip, DeleteMessage, HandlerFails, Over
  <2>3. QED
    BY <2>1, <2>2, <1>2, <1>q DEF Handle, HandlerStep, MarkProcessing,
       RouteAndPost, PostAnswered, SaveSubmission, Submitter
<1>3. ASSUME NEW d \in Delivery, Handle(d), TxOf(d) # t
      PROVE  /\ Settled(t)'
             /\ \A e \in Delivery : TxOf(e) = t =>
                   handler'[e] = handler[e] /\ post'[e] = post[e]
  <2>1. Settled(t)'
    BY <1>3, <1>q, DeliveryTx DEF Handle, HandlerStep, Skip, ReadRow,
       MarkProcessing, SetStatus, RouteAndPost, PostAnswered, SaveSubmission,
       DeleteMessage, HandlerFails, Settled
  <2>2. \A e \in Delivery \ {d} : handler'[e] = handler[e] /\ post'[e] = post[e]
    BY <1>3 DEF Handle, HandlerStep, Skip, ReadRow, MarkProcessing, RouteAndPost,
       PutOnWire, PostAnswered, SaveSubmission, DeleteMessage, HandlerFails, Goto
  <2>3. QED BY <2>1, <2>2, <1>3
<1>4. ASSUME NEW c \in Consumer, Process(c)
      PROVE  /\ UNCHANGED <<db, post>>
             /\ \A d \in Delivery : \/ handler'[d] = handler[d]
                                   \/ handler'[d].pc \in {"over", "received"}
  <2>1. ASSUME NEW u \in Tx, Receive(c, u)
        PROVE  /\ UNCHANGED <<db, post>>
               /\ \A d \in Delivery : \/ handler'[d] = handler[d]
                                     \/ handler'[d].pc = "received"
    BY <2>1 DEF Receive
  <2>2. CASE ShutdownEnds(c) \/ ProcessCrash(c)
    BY <2>2 DEF ShutdownEnds, ProcessCrash, Stop, Over
  <2>3. CASE BeginShutdown(c) \/ ProcessStart(c)
    BY <2>3 DEF BeginShutdown, ProcessStart
  <2>4. QED BY <1>4, <2>1, <2>2, <2>3 DEF Process, ProcessStep
<1>5. ASSUME NEW u \in Tx, VisibilityTimeout(u) \/ Redrive(u)
      PROVE  UNCHANGED <<db, handler, post>>
  BY <1>5 DEF VisibilityTimeout, Redrive
<1>6. ASSUME NEW u \in Tx, StatusWritten(u)
      PROVE  Settled(t)' /\ UNCHANGED <<handler, post>>
  BY <1>6, <1>q DEF StatusWritten, SetStatus, Settled, Row
<1>7. ASSUME NEW d \in Delivery, Intake(d)
      PROVE  /\ UNCHANGED <<db, handler>>
             /\ \A e \in Delivery : TxOf(e) = t => post'[e] = post[e]
  BY <1>7, <1>q DEF Intake, RelayerAccepts, RelayerLoses
<1>8. CASE \E u \in Tx : Produce(u) BY <1>1, <1>8, <1>q DEF Submitter
<1>9. CASE \E d \in Delivery : Handle(d)
  <2>1. PICK d \in Delivery : Handle(d) BY <1>9
  <2>2. CASE TxOf(d) = t BY <2>1, <2>2, <1>2, <1>q DEF Settled, Submitter
  <2>3. CASE TxOf(d) # t BY <2>1, <2>3, <1>3, <1>q DEF Submitter
  <2>4. QED BY <2>2, <2>3
<1>10. CASE \E c \in Consumer : Process(c)
  BY <1>4, <1>10, <1>q DEF Settled, Submitter
<1>11. CASE \E u \in Tx : VisibilityTimeout(u) \/ Redrive(u) \/ StatusWritten(u)
  BY <1>5, <1>6, <1>11, <1>q DEF Settled, Submitter
<1>12. CASE \E d \in Delivery : Intake(d)
  BY <1>7, <1>12, <1>q DEF Settled, Submitter
<1>13. CASE UNCHANGED vars BY <1>13, <1>q DEF vars, Settled, Submitter
<1>14. CASE \E u \in Tx : Unreceived(u)
  <2>1. /\ UNCHANGED <<db, post>>
        /\ \A d \in Delivery : handler'[d] = handler[d] \/ handler'[d].pc = "over"
    BY <1>14 DEF Unreceived, ReceiveInVain, Over
  <2>2. QED BY <2>1, <1>q DEF Settled, Submitter
<1>15. QED BY <1>8, <1>9, <1>10, <1>11, <1>12, <1>13, <1>14 DEF Next, PathStep

\* A settled transaction on which nothing is under way is never reopened.
THEOREM QuietStaysQuiet == Spec => QuietIsFinal
<1>1. TypeOK /\ IInv /\ [Next]_vars =>
        [\A t \in Tx : Quiet(t) => Quiet(t)' /\ RelayerTxs(t)' = RelayerTxs(t)]_vars
  BY QuietStep
<1>2. QED BY <1>1, Invariant, PTL DEF Spec, QuietIsFinal

=============================================================================
