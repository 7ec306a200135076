-------------------------- MODULE RelayService_proofs --------------------------
(***************************************************************************)
(* The whole service implements the specification of either half, so what  *)
(* is proved of a half holds of the whole; and what only the whole can     *)
(* promise.  For any sets of transactions, consumers, relayers, webhook    *)
(* and status requests.                                                    *)
(*                                                                         *)
(* Each half is proved on an assumption about the other one: the path that *)
(* statuses are written only over a row that names a relayer transaction   *)
(* (StatusWritten), the readers that all else keeps to SharedRow.  Neither *)
(* half keeps its side but by its own invariant, so both invariants are    *)
(* carried along together.                                                 *)
(***************************************************************************)
EXTENDS RelayService, RelaySubmission_refinement

USE DEF TxOf, SubmissionRow!TxOf, Status!TxOf

ServiceInv == /\ TypeOK /\ IInv /\ PostsHaveAHome
              /\ Status!TypeOK /\ Status!SyncInv

(***************************************************************************)
(* The same thing under two names.                                         *)
(***************************************************************************)

LEMMA SameIds == Status!Delivery = Delivery
  BY DEF Status!Delivery, Delivery

\* What StatusSync assumes of the constants.
LEMMA StatusAssumptions ==
  /\ MaxReceive \in Nat \ {0}
  /\ None \notin Status!Delivery /\ None \notin Relayer
  /\ {"pending"} \subseteq Reported /\ Reported \subseteq Status!OzStatus
  BY MaxReceiveAssumption, NoneAssumption, ReportedAssumption, SameIds
  DEF Status!OzStatus, OzStatus

LEMMA SameTxs ==
  ASSUME NEW t
  PROVE  Status!RelayerTxs(t) = RelayerTxs(t)
<1>1. \A d \in Delivery : postSeen[d] = "accepted" <=> post[d] = "accepted"
  BY DEF postSeen
<1>2. QED BY <1>1, SameIds DEF Status!RelayerTxs, RelayerTxs

LEMMA SameRow ==
  /\ UNCHANGED SubmissionRow!rowVars => UNCHANGED Status!rowVars
  /\ SubmissionRow!SubmissionStep => Status!SubmissionStep
<1>1. UNCHANGED SubmissionRow!rowVars => UNCHANGED Status!rowVars
  BY DEF SubmissionRow!rowVars, Status!rowVars
<1>2. ASSUME NEW t \in Tx
      PROVE  /\ SubmissionRow!Create(t) => Status!Create(t)
             /\ SubmissionRow!RollBack(t) => Status!RollBack(t)
  BY DEF SubmissionRow!Create, Status!Create, SubmissionRow!NoRow, Status!NoRow,
     SubmissionRow!QueuedRow, Status!QueuedRow, SubmissionRow!RollBack,
     Status!RollBack, SubmissionRow!SetStatus, Status!SetStatus
<1>3. ASSUME NEW d \in Delivery
      PROVE  /\ SubmissionRow!Begin(d) => Status!Begin(d)
             /\ SubmissionRow!Mark(d) => Status!Mark(d)
             /\ SubmissionRow!Accept(d) => Status!Accept(d)
             /\ SubmissionRow!Save(d) => Status!Save(d)
             /\ SubmissionRow!Lose(d) => Status!Lose(d)
  <2>1. SubmissionRow!Begin(d) => Status!Begin(d)
    BY DEF SubmissionRow!Begin, Status!Begin, SubmissionRow!Unsettled,
       Status!Unsettled
  <2>2. SubmissionRow!Mark(d) => Status!Mark(d)
    BY DEF SubmissionRow!Mark, Status!Mark, SubmissionRow!SetStatus,
       Status!SetStatus
  <2>3. SubmissionRow!Accept(d) => Status!Accept(d)
    BY DEF SubmissionRow!Accept, Status!Accept
  <2>4. SubmissionRow!Save(d) => Status!Save(d)
    BY DEF SubmissionRow!Save, Status!Save
  <2>5. SubmissionRow!Lose(d) => Status!Lose(d)
    BY DEF SubmissionRow!Lose, Status!Lose
  <2>6. QED BY <2>1, <2>2, <2>3, <2>4, <2>5
<1>4. ASSUME NEW D \in SUBSET Delivery
      PROVE  SubmissionRow!Leave(D) => Status!Leave(D)
  BY SameDelivery, SameIds DEF SubmissionRow!Leave, Status!Leave
<1>5. QED
  BY <1>1, <1>2, <1>3, <1>4, SameDelivery, SameIds
  DEF SubmissionRow!SubmissionStep, Status!SubmissionStep

\* What the readers see of the path does not change unless the path does.
LEMMA PathKept ==
  ASSUME UNCHANGED <<post, home, pathVars>>
  PROVE  /\ postSeen' = postSeen /\ homeSeen' = homeSeen
         /\ {d \in Delivery : Submitter(d)}' = {d \in Delivery : Submitter(d)}
         /\ {t \in Tx : req[t] = "rejected"}' = {t \in Tx : req[t] = "rejected"}
  BY DEF pathVars, postSeen, homeSeen, Submitter

(***************************************************************************)
(* The steps of the readers, as StatusSync has them.                       *)
(***************************************************************************)

LEMMA ProceedSeen ==
  ASSUME NEW d \in Delivery, Proceed(d)
  PROVE  Status!Proceed(d)
<1>1. UNCHANGED <<post, home, pathVars>> BY DEF Proceed, RelayerProgress
<1>2. postSeen[d] = "accepted" BY DEF Proceed, RelayerProgress, postSeen
<1>3. Status!RelayerProgress(d)
  BY <1>1, <1>2, PathKept
  DEF Proceed, RelayerProgress, Status!RelayerProgress, Stage, Status!Stage
<1>4. QED BY <1>1, <1>3, PathKept DEF Proceed, Status!Proceed

LEMMA WebhookSeen ==
  ASSUME NEW h \in Hook, HandleWebhook(h)
  PROVE  Status!HandleWebhook(h)
<1>1. UNCHANGED <<post, home, pathVars>>
  BY DEF HandleWebhook, WebhookStep, UpdateMysql, UpdateRedisCache, HookEndsEarly
<1>2. ASSUME NEW e \in events, UpdateMysql(h, e[1], e[2])
      PROVE  Status!UpdateMysql(h, e[1], e[2])
  BY <1>1, <1>2, PathKept
  DEF UpdateMysql, Status!UpdateMysql, RowsOf, Status!RowsOf, View, Status!View,
      SetStatus, Status!SetStatus, RowSnapshot, Status!RowSnapshot
<1>3. UpdateRedisCache(h) => Status!UpdateRedisCache(h)
  BY <1>1, PathKept DEF UpdateRedisCache, Status!UpdateRedisCache, CacheSet,
     Status!CacheSet
<1>4. HookEndsEarly(h) => Status!HookEndsEarly(h)
  BY <1>1, PathKept DEF HookEndsEarly, Status!HookEndsEarly
<1>5. Status!WebhookStep(h)
  BY <1>2, <1>3, <1>4 DEF HandleWebhook, WebhookStep, Status!WebhookStep
<1>6. QED BY <1>1, <1>5, PathKept DEF HandleWebhook, Status!HandleWebhook

LEMMA LookupSeen ==
  ASSUME NEW q \in Query, Lookup(q)
  PROVE  Status!Lookup(q)
<1>1. UNCHANGED <<post, home, pathVars>>
  BY DEF Lookup, LookupStep, Ask, AnswerStep, FailureStep, ReadRedis, ReadMysql,
     Backfill, LocateRelayer, FetchFromOzRelayer, WriteRedis, UpsertMysql,
     ReadMysqlFails, BackfillFails, LocateFails, FetchFails, WriteFails
<1>2. /\ postSeen' = postSeen /\ homeSeen' = homeSeen
      /\ UNCHANGED <<{d \in Delivery : Submitter(d)}, {t \in Tx : req[t] = "rejected"}>>
  BY <1>1, PathKept
<1>3. \A t \in Tx : Ask(q, t) <=> Status!Ask(q, t)
  BY <1>1, <1>2 DEF Ask, Status!Ask, Open, Status!Open, Outcome, Status!Outcome,
     Unasked, Status!Unasked
<1>4. AnswerStep(q) => Status!AnswerStep(q)
  <2> USE DEF Reply, Status!Reply, Unasked, Status!Unasked
  <2>1. ReadRedis(q) => Status!ReadRedis(q)
    BY <1>2 DEF ReadRedis, Status!ReadRedis, TerminalStatus, Status!TerminalStatus
  <2>2. ReadMysql(q) => Status!ReadMysql(q)
    BY <1>2 DEF ReadMysql, Status!ReadMysql, TerminalStatus, Status!TerminalStatus,
       RowSnapshot, Status!RowSnapshot
  <2>3. Backfill(q) => Status!Backfill(q)
    BY <1>2 DEF Backfill, Status!Backfill, CacheSet, Status!CacheSet
  <2>4. LocateRelayer(q) => Status!LocateRelayer(q)
    BY <1>2 DEF LocateRelayer, Status!LocateRelayer
  <2>5. FetchFromOzRelayer(q) => Status!FetchFromOzRelayer(q)
    BY <1>2 DEF FetchFromOzRelayer, Status!FetchFromOzRelayer, CurrentView,
       Status!CurrentView, View, Status!View
  <2>6. WriteRedis(q, TRUE) => Status!WriteRedis(q, TRUE)
    BY <1>2 DEF WriteRedis, Status!WriteRedis, Writing, Status!Writing, WriteOver,
       Status!WriteOver, CacheSet, Status!CacheSet
  <2>7. UpsertMysql(q, TRUE) => Status!UpsertMysql(q, TRUE)
    BY <1>2 DEF UpsertMysql, Status!UpsertMysql, Writing, Status!Writing, WriteOver,
       Status!WriteOver, SetStatus, Status!SetStatus
  <2>8. QED
    BY <2>1, <2>2, <2>3, <2>4, <2>5, <2>6, <2>7 DEF AnswerStep, Status!AnswerStep
<1>5. FailureStep(q) => Status!FailureStep(q)
  <2> USE DEF Reply, Status!Reply, Unasked, Status!Unasked
  <2>1. ReadMysqlFails(q) => Status!ReadMysqlFails(q)
    BY <1>2 DEF ReadMysqlFails, Status!ReadMysqlFails
  <2>2. BackfillFails(q) => Status!BackfillFails(q)
    BY <1>2 DEF BackfillFails, Status!BackfillFails
  <2>3. LocateFails(q) => Status!LocateFails(q)
    BY <1>2 DEF LocateFails, Status!LocateFails
  <2>4. FetchFails(q) => Status!FetchFails(q)
    BY <1>2 DEF FetchFails, Status!FetchFails
  <2>5. WriteRedis(q, FALSE) => Status!WriteRedis(q, FALSE)
    BY <1>2 DEF WriteRedis, Status!WriteRedis, Writing, Status!Writing, WriteOver,
       Status!WriteOver, CacheSet, Status!CacheSet
  <2>6. UpsertMysql(q, FALSE) => Status!UpsertMysql(q, FALSE)
    BY <1>2 DEF UpsertMysql, Status!UpsertMysql, Writing, Status!Writing, WriteOver,
       Status!WriteOver, SetStatus, Status!SetStatus
  <2>7. \A what \in {"redis", "mysql"} :
           WriteFails(q, what) => Status!WriteFails(q, what)
    BY <1>2 DEF WriteFails, Status!WriteFails, Writing, Status!Writing, WriteOver,
       Status!WriteOver
  <2>8. QED
    BY <2>1, <2>2, <2>3, <2>4, <2>5, <2>6, <2>7 DEF FailureStep, Status!FailureStep
<1>6. Status!LookupStep(q)
  BY <1>3, <1>4, <1>5 DEF Lookup, LookupStep, Status!LookupStep
<1>7. late' = IF \E t \in Tx : Status!Ask(q, t) /\ Status!FinalAndRecorded(t)
              THEN late \cup {q}
              ELSE IF Status!Open(q) THEN late ELSE late \ {q}
  BY <1>3 DEF Lookup, Open, Status!Open, Outcome, Status!Outcome
<1>8. QED BY <1>1, <1>2, <1>6, <1>7 DEF Lookup, Status!Lookup

LEMMA ExpireSeen ==
  ASSUME NEW t \in Tx, Expire(t)
  PROVE  Status!Expire(t)
<1>1. UNCHANGED <<post, home, pathVars>> BY DEF Expire, CacheExpires
<1>2. QED
  BY <1>1, PathKept DEF Expire, CacheExpires, Status!Expire, Status!CacheExpires,
     CacheSet, Status!CacheSet

(***************************************************************************)
(* A step of the whole is a step of either half.                           *)
(***************************************************************************)

LEMMA InitBoth == ServiceInit => Init /\ Status!Init
<1> SUFFICES ASSUME ServiceInit PROVE Init /\ Status!Init OBVIOUS
<1> USE DEF ServiceInit
<1>1. Status!RowInit
  BY InitRow, SameDelivery, SameIds
  DEF SubmissionRow!RowInit, Status!RowInit, SubmissionRow!DbInit,
     Status!DbInit, SubmissionRow!NoRow, Status!NoRow, SubmissionRow!IntakeInit,
     Status!IntakeInit
<1>2. QED
  BY <1>1, SameIds DEF Status!Init, LifecycleInit, Status!LifecycleInit, StoreInit,
     Status!StoreInit, HookInit, Status!HookInit, QueryInit, Status!QueryInit,
     Unasked, Status!Unasked

\* The readers write only over a row that names a relayer transaction, and the
\* path sees no more of them than that.
LEMMA ReadersSeen ==
  ASSUME UNCHANGED <<post, home, pathVars>>,
         (\E t \in Tx : Status!WriteStatus(t)) \/ UNCHANGED Status!rowVars
  PROVE  [Next]_vars
<1>1. ASSUME NEW t \in Tx, Status!WriteStatus(t)
      PROVE  StatusWritten(t) /\ UNCHANGED exposed
  BY <1>1 DEF Status!WriteStatus, StatusWritten, Status!OzStatus, OzStatus,
     Status!SetStatus, SetStatus, pathVars
<1>2. UNCHANGED Status!rowVars => UNCHANGED vars
  BY DEF Status!rowVars, vars, pathVars
<1>3. QED BY <1>1, <1>2 DEF Next

LEMMA StepOfBoth ==
  ASSUME ServiceInv, [ServiceNext]_serviceVars
  PROVE  [Next]_vars /\ [Status!Next]_(Status!vars)
<1> USE DEF ServiceInv
<1>1. CASE Submit
  <2>1. PathStep /\ UNCHANGED statusVars BY <1>1 DEF Submit
  <2>2. Status!SubmissionStep \/ UNCHANGED Status!rowVars
    BY <2>1, PathRow, SameRow
  <2>3. Status!SubmissionStep => Status!Submit
    BY <2>1 DEF Status!Submit, statusVars
  <2>4. UNCHANGED Status!rowVars => UNCHANGED Status!vars
    BY <2>1 DEF Status!rowVars, Status!vars, statusVars
  <2>5. QED BY <2>1, <2>2, <2>3, <2>4 DEF Next, Status!Next
<1>2. ASSUME NEW d \in Delivery, Proceed(d)
      PROVE  [Next]_vars /\ Status!Next
  <2>1. UNCHANGED vars BY <1>2 DEF Proceed, RelayerProgress, vars, pathVars
  <2>2. QED BY <1>2, <2>1, ProceedSeen, SameIds DEF Status!Next
<1>3. ASSUME NEW h \in Hook, HandleWebhook(h)
      PROVE  [Next]_vars /\ Status!Next
  <2>1. UNCHANGED <<post, home, pathVars>>
    BY <1>3 DEF HandleWebhook, WebhookStep, UpdateMysql, UpdateRedisCache,
       HookEndsEarly
  <2>2. Status!HandleWebhook(h) BY <1>3, WebhookSeen
  <2>3. (\E t \in Tx : Status!WriteStatus(t)) \/ UNCHANGED Status!rowVars
    BY <2>2, Status!WebhookRow, StatusAssumptions
  <2>4. [Next]_vars BY <2>1, <2>3, ReadersSeen
  <2>5. QED BY <2>2, <2>4 DEF Status!Next
<1>4. ASSUME NEW q \in Query, Lookup(q)
      PROVE  [Next]_vars /\ Status!Next
  <2>1. UNCHANGED <<post, home, pathVars>>
    BY <1>4 DEF Lookup, LookupStep, Ask, AnswerStep, FailureStep, ReadRedis,
       ReadMysql, Backfill, LocateRelayer, FetchFromOzRelayer, WriteRedis,
       UpsertMysql, ReadMysqlFails, BackfillFails, LocateFails, FetchFails,
       WriteFails
  <2>2. Status!Lookup(q) BY <1>4, LookupSeen
  <2>3. (\E t \in Tx : Status!WriteStatus(t)) \/ UNCHANGED Status!rowVars
    BY <2>2, Status!LookupRow, StatusAssumptions DEF Status!SyncInv
  <2>4. [Next]_vars BY <2>1, <2>3, ReadersSeen
  <2>5. QED BY <2>2, <2>4 DEF Status!Next
<1>5. ASSUME NEW t \in Tx, Expire(t)
      PROVE  [Next]_vars /\ Status!Next
  <2>1. UNCHANGED vars BY <1>5 DEF Expire, CacheExpires, vars, pathVars
  <2>2. QED BY <1>5, <2>1, ExpireSeen DEF Status!Next
<1>6. CASE UNCHANGED serviceVars
  <2>1. UNCHANGED vars /\ UNCHANGED statusVars BY <1>6 DEF serviceVars
  <2>2. UNCHANGED <<post, home, pathVars>> BY <2>1 DEF vars, pathVars
  <2>3. UNCHANGED Status!vars
    BY <2>1, <2>2, PathKept DEF vars, statusVars, Status!vars
  <2>4. QED BY <2>1, <2>3
<1>7. QED BY <1>1, <1>2, <1>3, <1>4, <1>5, <1>6 DEF ServiceNext

(***************************************************************************)
(* The joint invariant, and what each half owes to the other one.          *)
(***************************************************************************)

LEMMA InitServiceInv == ServiceInit => ServiceInv
<1> SUFFICES ASSUME ServiceInit PROVE ServiceInv OBVIOUS
<1>1. Init /\ Status!Init BY InitBoth
<1>2. TypeOK /\ IInv /\ PostsHaveAHome BY <1>1, InitTypeOK, InitIInv, PostedInit
<1>3. Status!TypeOK /\ Status!SyncInv
  BY <1>1, Status!InitInv, StatusAssumptions
<1>4. QED BY <1>2, <1>3 DEF ServiceInv

LEMMA StepServiceInv ==
  ASSUME ServiceInv, [ServiceNext]_serviceVars
  PROVE  ServiceInv'
<1>1. [Next]_vars /\ [Status!Next]_(Status!vars) BY StepOfBoth
<1>2. /\ TypeOK /\ IInv /\ PostsHaveAHome
      /\ Status!TypeOK /\ Status!SyncInv
  BY DEF ServiceInv
<1>3. TypeOK' /\ IInv' /\ PostsHaveAHome'
  BY <1>1, <1>2, NextTypeOK, NextIInv, PostedStep
<1>4. Status!TypeOK'
  BY <1>1, <1>2, Status!NextType, StatusAssumptions
<1>5. Status!NamesAreReal' /\ Status!LocalsAreSet'
  BY <1>1, <1>2, Status!NamesStep, Status!LocalsStep, StatusAssumptions
<1>6. Status!AllTruthful' /\ Status!LateAreLed'
  BY <1>1, <1>2, Status!TruthStep, Status!LateStep, StatusAssumptions
<1>7. QED BY <1>3, <1>4, <1>5, <1>6 DEF ServiceInv, Status!SyncInv

LEMMA ServiceInvariant == ServiceSpec => []ServiceInv
  BY InitServiceInv, StepServiceInv, PTL DEF ServiceSpec

\* The whole service implements the submission path's specification: of the
\* real webhooks and status requests, the path sees nothing but StatusWritten.
THEOREM ImplementsThePath == ServiceSpec => Spec
<1>1. ServiceInit => Init BY InitBoth
<1>2. ServiceInv /\ [ServiceNext]_serviceVars => [Next]_vars BY StepOfBoth
<1>3. QED BY <1>1, <1>2, ServiceInvariant, PTL DEF ServiceSpec, Spec

\* The whole service implements the specification of the readers: of the real
\* producer, queue and consumers, they see nothing but SharedRow's steps.
THEOREM ImplementsTheReaders == ServiceSpec => Status!Spec
<1>1. ServiceInit => Status!Init BY InitBoth
<1>2. ServiceInv /\ [ServiceNext]_serviceVars => [Status!Next]_(Status!vars)
  BY StepOfBoth
<1>3. QED BY <1>1, <1>2, ServiceInvariant, PTL DEF ServiceSpec, Status!Spec

(***************************************************************************)
(* End to end.                                                             *)
(***************************************************************************)

\* When an outcome is told of a transaction, its row names a relayer transaction
\* and the one that had this outcome, if it was neither exposed nor refused.
LEMMA OneTransaction ==
  ASSUME ServiceInv, NEW t \in Tx \ exposed, db[t].ozId # None
  PROVE  /\ RelayerTxs(t) = {db[t].ozId}
         /\ Quiet(t)
<1>1. ASSUME NEW d \in Delivery, TxOf(d) = t
      PROVE  /\ ~Submitter(d)
             /\ post[d] \in {"wire", "accepted"} => db[t].ozId = d
  BY <1>1 DEF ServiceInv, IInv, OneWorkerUnlessExposed, Submitter
<1>2. db[t].ozId \in RelayerTxs(t)
  BY DEF ServiceInv, IInv, RecordedSubmissionIsReal
<1>3. RelayerTxs(t) = {db[t].ozId} BY <1>1, <1>2 DEF RelayerTxs
<1>4. Quiet(t) BY <1>1, <1>2 DEF Quiet, Settled, RelayerTxs
<1>5. QED BY <1>3, <1>4

LEMMA TruthfulOfTheOne ==
  ASSUME ServiceInv, NEW t \in Unexcepted,
         NEW v, Status!Truthful(t, v), v.status \in TerminalStatus
  PROVE  /\ RelayerTxs(t) = {db[t].ozId}
         /\ Quiet(t)
         /\ <<db[t].ozId, v.status>> \in events
         /\ v.status = "confirmed" => v.hash = db[t].ozId
<1>1. /\ db[t].ozId # None
      /\ \E d \in RelayerTxs(t) : <<d, v.status>> \in events
      /\ v.status = "confirmed" => v.hash \in RelayerTxs(t)
  BY SameTxs DEF Status!Truthful, TerminalStatus, Status!TerminalStatus, Unexcepted
<1>2. RelayerTxs(t) = {db[t].ozId} /\ Quiet(t)
  BY <1>1, OneTransaction DEF Unexcepted
<1>3. QED BY <1>1, <1>2

LEMMA ToldIsTruthful ==
  ASSUME ServiceInv, NEW t \in Tx, NEW v \in Status!Snapshots(t)
  PROVE  Status!Truthful(t, v)
  BY Status!ToldIsTruthful, StatusAssumptions DEF ServiceInv

\* A transaction, neither exposed nor refused, of which an outcome is told
\* anywhere has exactly the relayer transaction its row names, that is the one
\* with the outcome, and nothing can add another.
THEOREM OneOutcome == ServiceSpec => []OutcomeIsOfTheOneTransaction
<1>1. ASSUME ServiceInv, NEW t \in Unexcepted,
             NEW v \in Status!Snapshots(t), v.status \in TerminalStatus
      PROVE  /\ RelayerTxs(t) = {db[t].ozId}
             /\ <<db[t].ozId, v.status>> \in events
             /\ v.status \in Final => chain[db[t].ozId] = v.status
             /\ v.status = "confirmed" => v.hash = db[t].ozId
             /\ Quiet(t)
  <2>1. /\ RelayerTxs(t) = {db[t].ozId} /\ Quiet(t)
        /\ <<db[t].ozId, v.status>> \in events
        /\ v.status = "confirmed" => v.hash = db[t].ozId
    BY <1>1, ToldIsTruthful, TruthfulOfTheOne DEF Unexcepted
  <2>2. v.status \in Final => chain[db[t].ozId] = v.status
    <3>1. db[t].ozId \in Delivery BY <2>1 DEF RelayerTxs
    <3>2. \A d \in Delivery, s \in Final : <<d, s>> \in events => chain[d] = s
      BY <1>1, SameIds
      DEF ServiceInv, Status!SyncInv, Status!NamesAreReal, Final, Status!Final
    <3>3. QED BY <2>1, <3>1, <3>2
  <2>3. QED BY <2>1, <2>2
<1>2. ServiceInv => OutcomeIsOfTheOneTransaction
  BY <1>1 DEF OutcomeIsOfTheOneTransaction
<1>3. QED BY <1>2, ServiceInvariant, PTL

LEMMA ToldIsQuiet == ServiceInv => \A t \in Unexcepted : Told(t) => Quiet(t)
  BY ToldIsTruthful, TruthfulOfTheOne DEF Told, Unexcepted

\* No redelivery, restart or late POST adds a relayer transaction once an
\* outcome was told.
THEOREM OutcomeEndsRelaying == ServiceSpec => NothingRelayedAfterAnOutcome
<1>1. ASSUME ServiceInv, [ServiceNext]_serviceVars, NEW t \in Unexcepted, Told(t)
      PROVE  RelayerTxs(t)' = RelayerTxs(t)
  <2>1. Quiet(t) /\ t \in Tx BY <1>1, ToldIsQuiet DEF Unexcepted
  <2>2. [Next]_vars BY <1>1, StepOfBoth
  <2>3. QED BY <1>1, <2>1, <2>2, QuietStep DEF ServiceInv
<1>2. ServiceInv /\ [ServiceNext]_serviceVars =>
        [\A t \in Unexcepted :
            Told(t) => RelayerTxs(t)' = RelayerTxs(t)]_serviceVars
  BY <1>1
<1>3. QED
  BY <1>2, ServiceInvariant, PTL DEF ServiceSpec, NothingRelayedAfterAnOutcome

\* And never will, whatever becomes of the transaction after that, exposure and
\* rollback included: a delivery that has not posted by then, never does.
THEOREM OutcomeEndsRelayingForGood ==
  ASSUME NEW d \in Delivery
  PROVE  ServiceSpec => []( /\ TxOf(d) \in Unexcepted /\ Told(TxOf(d))
                            /\ post[d] # "accepted"
                            => [](post[d] # "accepted"))
<1> DEFINE Done == TxOf(d) \in Tx /\ Quiet(TxOf(d)) /\ post[d] # "accepted"
<1>1. ServiceInv /\ TxOf(d) \in Unexcepted /\ Told(TxOf(d)) /\ post[d] # "accepted"
        => Done
  BY ToldIsQuiet DEF Unexcepted
<1>2. ServiceInv /\ Done /\ [ServiceNext]_serviceVars => Done'
  <2> SUFFICES ASSUME ServiceInv, Done, [ServiceNext]_serviceVars PROVE Done'
    OBVIOUS
  <2>1. [Next]_vars BY StepOfBoth
  <2>2. Quiet(TxOf(d))' /\ RelayerTxs(TxOf(d))' = RelayerTxs(TxOf(d))
    BY <2>1, QuietStep DEF ServiceInv
  <2>3. QED BY <2>2 DEF RelayerTxs
<1>3. Done => post[d] # "accepted" OBVIOUS
<1> HIDE DEF Done
<1>4. QED BY <1>1, <1>2, <1>3, ServiceInvariant, PTL DEF ServiceSpec

\* A client that asks once the outcome is final and recorded is told an outcome,
\* and one that its only relayer transaction had.
THEOREM LateAnswersAreTrue ==
  ServiceSpec => [](\A q \in late :
                      query[q].pc = "found" /\ query[q].tx \in Unexcepted =>
                         /\ query[q].view.status \in TerminalStatus
                         /\ RelayerTxs(query[q].tx) = {db[query[q].tx].ozId}
                         /\ <<db[query[q].tx].ozId, query[q].view.status>> \in events)
<1>1. ASSUME ServiceInv, NEW q \in late,
             query[q].pc = "found", query[q].tx \in Unexcepted
      PROVE  /\ query[q].view.status \in TerminalStatus
             /\ RelayerTxs(query[q].tx) = {db[query[q].tx].ozId}
             /\ <<db[query[q].tx].ozId, query[q].view.status>> \in events
  <2>1. /\ query[q].view.status \in TerminalStatus
        /\ Status!Truthful(query[q].tx, query[q].view)
    BY <1>1
    DEF ServiceInv, Status!TypeOK, Status!SyncInv, Status!LateAreLed,
        Status!AllTruthful, Status!WithView, TerminalStatus, Status!TerminalStatus
  <2>2. QED BY <1>1, <2>1, TruthfulOfTheOne
<1>2. ServiceInv =>
        \A q \in late :
          query[q].pc = "found" /\ query[q].tx \in Unexcepted =>
             /\ query[q].view.status \in TerminalStatus
             /\ RelayerTxs(query[q].tx) = {db[query[q].tx].ozId}
             /\ <<db[query[q].tx].ozId, query[q].view.status>> \in events
  BY <1>1
<1>3. QED BY <1>2, ServiceInvariant, PTL

(***************************************************************************)
(* What was proved of a half holds of the whole.                           *)
(***************************************************************************)

\* Nothing accepted is lost, nothing sent twice unless exposed, the 202 is
\* honoured, and a settled transaction stays settled, whatever webhooks and
\* status requests do in between.
THEOREM PathPromisesHold ==
  ServiceSpec => /\ []NoAcceptedTransactionLost
                 /\ []ExactlyOnceUnlessExposed
                 /\ []UnrecordedMeansUnsent
                 /\ []RecordedSubmissionIsReal
                 /\ QuietIsFinal
                 /\ KeepsCustody
  BY ImplementsThePath, AcceptedIsNeverLost, AtMostOnceUnlessExposed,
     UnrecordedIsUnsent, RecordedIsReal, QuietStaysQuiet, ImplementsCustody, PTL

\* No outcome is invented, confirmed has its receipt and who asks late is told
\* an outcome, whatever queue, consumers and restarts do in between.
THEOREM ReadersPromisesHold ==
  ServiceSpec => /\ []Status!OutcomesAreReal
                 /\ []Status!ConfirmedHasItsReceipt
                 /\ []Status!LateAnswersAreTerminal
  BY ImplementsTheReaders, Status!ToldOutcomesAreReal,
     Status!ConfirmedComesWithItsReceipt, Status!LateRequestsLearnTheOutcome,
     StatusAssumptions, PTL

=============================================================================
