-------------------------- MODULE StatusSync_proofs --------------------------
(***************************************************************************)
(* Theorems about StatusSync, for any sets of transactions, relayers,      *)
(* webhook and status requests, and any set of reported statuses.          *)
(***************************************************************************)
EXTENDS StatusSync, TLAPS

USE DEF TxOf

(***************************************************************************)
(* The invariant.                                                          *)
(***************************************************************************)

\* Rows and events name relayer transactions that exist; what an event says
\* had happened has happened, and what is final stays so.
NamesAreReal ==
    /\ \A t \in Tx : db[t].ozId # None => db[t].ozId \in RelayerTxs(t)
    /\ \A d \in Delivery, s \in Reported : <<d, s>> \in events => post[d] = "accepted"
    /\ \A d \in Delivery : chain[d] # "none" => <<d, chain[d]>> \in events
    /\ \A d \in Delivery, s \in Final : <<d, s>> \in events => chain[d] = s

\* What the program counter of a status request says of its local variables.
WithView == {"backfill", "store", "spoiled", "found"}
WithId   == {"locate", "fetch", "store", "spoiled"}

LocalsAreSet ==
    \A q \in Query :
        /\ query[q].pc # "idle" => query[q].tx \in Tx
        /\ query[q].pc \in WithView => query[q].view \in Snapshot
        /\ query[q].pc \notin WithView => query[q].view = None
        /\ query[q].pc \in WithId => /\ query[q].ozId \in RelayerTxs(query[q].tx)
                                     /\ db[query[q].tx].ozId # None
        /\ query[q].pc \in {"store", "spoiled"} => query[q].view.status \in OzStatus

\* v says of t nothing that did not happen, and no outcome before the row names
\* a relayer transaction.
Truthful(t, v) ==
    /\ v.status \in TerminalStatus =>
           \/ /\ db[t].ozId # None
              /\ \E d \in RelayerTxs(t) : <<d, v.status>> \in events
           \/ v.status = "failed" /\ t \in refused
    /\ v.status = "confirmed" => /\ v.hash \in RelayerTxs(t)
                                 /\ chain[v.hash] = "confirmed"
                                 /\ v.confirmed

AllTruthful ==
    /\ \A t \in Tx : Truthful(t, RowSnapshot(t))
    /\ \A t \in Tx : redis[t] # None => Truthful(t, redis[t])
    /\ \A h \in Hook : hook[h] # None => Truthful(hook[h].tx, hook[h].row)
    /\ \A q \in Query : query[q].pc \in WithView =>
                            Truthful(query[q].tx, query[q].view)

\* What a request asked late will find.
LateAreLed ==
    \A q \in late :
        /\ Open(q) => FinalAndRecorded(query[q].tx)
        /\ query[q].pc \in WithId => chain[query[q].ozId] \in Final
        /\ query[q].pc \in WithView => query[q].view.status \in TerminalStatus

SyncInv == NamesAreReal /\ LocalsAreSet /\ AllTruthful /\ LateAreLed

(***************************************************************************)
(* Facts used throughout.                                                  *)
(***************************************************************************)

LEMMA DeliveryTx == \A d \in Delivery : TxOf(d) \in Tx
  BY DEF Delivery

LEMMA Stages ==
  \A s \in OzStatus : /\ ~(Stage["confirmed"] < Stage[s])
                      /\ ~(Stage["failed"] < Stage[s])
  BY DEF Stage, OzStatus

LEMMA SnapshotType ==
  ASSUME TypeOK, NEW t \in Tx
  PROVE  RowSnapshot(t) \in Snapshot
  BY DEF TypeOK, RowTypeOK, DbTypeOK, StoreTypeOK, Row, Snapshot, RowSnapshot

LEMMA ViewType ==
  ASSUME NEW d \in Delivery, NEW s \in OzStatus
  PROVE  View(d, s) \in Snapshot /\ View(d, s).status = s
  BY DEF View, Snapshot, RowStatus, Hash

LEMMA SetStatusType ==
  ASSUME DbTypeOK, NEW t \in Tx, NEW s \in RowStatus, SetStatus(t, s)
  PROVE  DbTypeOK'
  BY DEF DbTypeOK, SetStatus, Row

LEMMA RowStepType ==
  ASSUME RowTypeOK, [RowNext]_rowVars
  PROVE  RowTypeOK'
<1> USE DEF RowTypeOK, IntakeTypeOK
<1>1. ASSUME NEW t \in Tx, Create(t) \/ RollBack(t) \/ WriteStatus(t)
      PROVE  RowTypeOK'
  <2>1. CASE Create(t)
    BY <2>1 DEF Create, DbTypeOK, QueuedRow, Row, RowStatus
  <2>2. CASE RollBack(t)
    <3>1. DbTypeOK'
      BY <2>2, SetStatusType DEF RollBack, RowStatus, OzStatus, DbTypeOK
    <3>2. QED BY <2>2, <3>1 DEF RollBack
  <2>3. CASE WriteStatus(t)
    <3>1. DbTypeOK' BY <2>3, SetStatusType DEF WriteStatus, RowStatus
    <3>2. QED BY <2>3, <3>1 DEF WriteStatus
  <2>4. QED BY <1>1, <2>1, <2>2, <2>3
<1>2. ASSUME NEW d \in Delivery, Begin(d) \/ Mark(d) \/ Accept(d) \/ Save(d) \/ Lose(d)
      PROVE  RowTypeOK'
  <2>1. CASE Begin(d) \/ Accept(d) \/ Lose(d)
    BY <2>1 DEF Begin, Accept, Lose, PostState, DbTypeOK
  <2>2. CASE Mark(d)
    <3>1. DbTypeOK' BY <2>2, DeliveryTx, SetStatusType DEF Mark, RowStatus
    <3>2. QED BY <2>2, <3>1 DEF Mark
  <2>3. CASE Save(d)
    BY <2>3, DeliveryTx DEF Save, DbTypeOK, Row, RowStatus, OzStatus
  <2>4. QED BY <1>2, <2>1, <2>2, <2>3
<1>3. ASSUME NEW D \in SUBSET Delivery, Leave(D) PROVE RowTypeOK'
  BY <1>3 DEF Leave, PostState, DbTypeOK
<1>4. CASE UNCHANGED rowVars BY <1>4 DEF rowVars, DbTypeOK
<1>5. QED BY <1>1, <1>2, <1>3, <1>4 DEF RowNext, SubmissionStep

(***************************************************************************)
(* The contract on the row.                                                *)
(***************************************************************************)

\* All that webhooks and status requests do to the row is to write a reported
\* status over a row that names a relayer transaction.
LEMMA WebhookRow ==
  ASSUME TypeOK, NEW h \in Hook, HandleWebhook(h)
  PROVE  (\E t \in Tx : WriteStatus(t)) \/ UNCHANGED rowVars
<1>1. ASSUME NEW e \in events, UpdateMysql(h, e[1], e[2])
      PROVE  \E t \in Tx : WriteStatus(t)
  <2>1. e[1] \in Delivery /\ e[2] \in OzStatus
    BY ReportedAssumption DEF TypeOK, LifecycleTypeOK
  <2>2. PICK t \in Tx : db[t].ozId = e[1] /\ SetStatus(t, e[2])
    BY <1>1 DEF UpdateMysql, RowsOf
  <2>3. WriteStatus(t)
    BY <1>1, <2>1, <2>2, NoneAssumption DEF WriteStatus, HandleWebhook, UpdateMysql
  <2>4. QED BY <2>3
<1>2. CASE UpdateRedisCache(h) \/ HookEndsEarly(h)
  BY <1>2 DEF HandleWebhook, UpdateRedisCache, HookEndsEarly, rowVars
<1>3. QED BY <1>1, <1>2 DEF HandleWebhook, WebhookStep

LEMMA LookupRow ==
  ASSUME LocalsAreSet, NEW q \in Query, Lookup(q)
  PROVE  (\E t \in Tx : WriteStatus(t)) \/ UNCHANGED rowVars
<1>1. ASSUME NEW ok \in BOOLEAN, UpsertMysql(q, ok)
      PROVE  \E t \in Tx : WriteStatus(t)
  <2>1. /\ query[q].tx \in Tx /\ db[query[q].tx].ozId # None
        /\ query[q].view.status \in OzStatus
    BY <1>1 DEF UpsertMysql, Writing, LocalsAreSet, WithId
  <2>2. WriteStatus(query[q].tx)
    BY <1>1, <2>1 DEF WriteStatus, UpsertMysql, Lookup
  <2>3. QED BY <2>1, <2>2
<1>2. CASE UNCHANGED <<db, post, home>> BY <1>2 DEF Lookup, rowVars
<1>3. QED
  BY <1>1, <1>2 DEF Lookup, LookupStep, Ask, AnswerStep, FailureStep, ReadRedis,
     ReadMysql, Backfill, LocateRelayer, FetchFromOzRelayer, WriteRedis,
     ReadMysqlFails, BackfillFails, LocateFails, FetchFails, WriteFails

\* All of a step that concerns the row is a step of the contract.
LEMMA NextIsRow == TypeOK /\ SyncInv /\ [Next]_vars => [RowNext]_rowVars
<1> SUFFICES ASSUME TypeOK, SyncInv, [Next]_vars
             PROVE  RowNext \/ UNCHANGED rowVars
  OBVIOUS
<1>1. CASE Submit BY <1>1 DEF Submit, RowNext
<1>2. ASSUME NEW d \in Delivery, Proceed(d) PROVE UNCHANGED rowVars
  BY <1>2 DEF Proceed, RelayerProgress, rowVars
<1>3. ASSUME NEW h \in Hook, HandleWebhook(h) PROVE RowNext \/ UNCHANGED rowVars
  BY <1>3, WebhookRow DEF RowNext
<1>4. ASSUME NEW q \in Query, Lookup(q) PROVE RowNext \/ UNCHANGED rowVars
  BY <1>4, LookupRow DEF RowNext, SyncInv
<1>5. ASSUME NEW t \in Tx, Expire(t) PROVE UNCHANGED rowVars
  BY <1>5 DEF Expire, CacheExpires, rowVars
<1>6. CASE UNCHANGED vars BY <1>6 DEF vars, rowVars
<1>7. QED BY <1>1, <1>2, <1>3, <1>4, <1>5, <1>6 DEF Next

(***************************************************************************)
(* What never goes away.                                                   *)
(***************************************************************************)

LEMMA RowKeeps ==
  ASSUME TypeOK, [RowNext]_rowVars
  PROVE  /\ \A d \in Delivery : post[d] = "accepted" => post'[d] = "accepted"
         /\ refused \subseteq refused'
         /\ \A t \in Tx : db[t].ozId # None => db'[t].ozId # None
<1> USE DEF TypeOK, RowTypeOK, DbTypeOK, IntakeTypeOK
<1>1. ASSUME NEW t \in Tx, Create(t) \/ RollBack(t) \/ WriteStatus(t)
      PROVE  /\ UNCHANGED post /\ refused \subseteq refused'
             /\ \A u \in Tx : db[u].ozId # None => db'[u].ozId # None
  <2>1. CASE Create(t) BY <2>1 DEF Create, NoRow
  <2>2. CASE RollBack(t) \/ WriteStatus(t)
    BY <2>2 DEF RollBack, WriteStatus, SetStatus, Row
  <2>3. QED BY <1>1, <2>1, <2>2
<1>2. ASSUME NEW d \in Delivery, Begin(d) \/ Mark(d) \/ Accept(d) \/ Save(d) \/ Lose(d)
      PROVE  /\ \A e \in Delivery : post[e] = "accepted" => post'[e] = "accepted"
             /\ UNCHANGED refused
             /\ \A u \in Tx : db[u].ozId # None => db'[u].ozId # None
  <2>1. CASE Begin(d) \/ Accept(d) \/ Lose(d) BY <2>1 DEF Begin, Accept, Lose
  <2>2. CASE Mark(d) BY <2>2 DEF Mark, SetStatus, Row
  <2>3. CASE Save(d) BY <2>3, NoneAssumption DEF Save
  <2>4. QED BY <1>2, <2>1, <2>2, <2>3
<1>3. ASSUME NEW D \in SUBSET Delivery, Leave(D)
      PROVE  /\ \A e \in Delivery : post[e] = "accepted" => post'[e] = "accepted"
             /\ UNCHANGED <<refused, db>>
  BY <1>3 DEF Leave
<1>4. QED BY <1>1, <1>2, <1>3 DEF RowNext, SubmissionStep, rowVars

LEMMA RelayersKeep ==
  ASSUME TypeOK, SyncInv, [Next]_vars
  PROVE  /\ events \subseteq events'
         /\ \A d \in Delivery : chain[d] \in Final => chain'[d] = chain[d]
<1> USE DEF TypeOK, LifecycleTypeOK
<1>1. ASSUME NEW d \in Delivery, RelayerProgress(d)
      PROVE  /\ events \subseteq events'
             /\ \A e \in Delivery : chain[e] \in Final => chain'[e] = chain[e]
  <2>1. PICK s \in Reported : /\ Stage[chain[d]] < Stage[s]
                              /\ chain' = [chain EXCEPT ![d] = s]
                              /\ events' = events \cup {<<d, s>>}
    BY <1>1 DEF RelayerProgress
  <2>2. chain[d] \notin Final BY <2>1, Stages, ReportedAssumption DEF Final
  <2>3. QED BY <2>1, <2>2
<1>2. CASE UNCHANGED <<chain, events>> BY <1>2
<1>3. QED
  BY <1>1, <1>2 DEF Next, vars, Submit, Proceed, HandleWebhook,
     WebhookStep, UpdateMysql, UpdateRedisCache, HookEndsEarly, Lookup,
     LookupStep, Ask, AnswerStep, FailureStep, ReadRedis, ReadMysql, Backfill,
     LocateRelayer, FetchFromOzRelayer, WriteRedis, UpsertMysql, ReadMysqlFails,
     BackfillFails, LocateFails, FetchFails, WriteFails, Expire, CacheExpires

LEMMA TruthStays ==
  ASSUME TypeOK, SyncInv, [Next]_vars, NEW t \in Tx, NEW v \in Snapshot,
         Truthful(t, v)
  PROVE  Truthful(t, v)'
<1>1. /\ RelayerTxs(t) \subseteq RelayerTxs(t)' /\ refused \subseteq refused'
      /\ db[t].ozId # None => db'[t].ozId # None
  BY NextIsRow, RowKeeps DEF RelayerTxs
<1>2. /\ events \subseteq events'
      /\ \A d \in Delivery : chain[d] \in Final => chain'[d] = chain[d]
  BY RelayersKeep
<1>3. QED BY <1>1, <1>2 DEF Truthful, Final, RelayerTxs

(***************************************************************************)
(* Type correctness.                                                       *)
(***************************************************************************)

LEMMA ReplyType ==
  ASSUME QueryTypeOK, NEW q \in Query, NEW outcome \in Outcome,
         NEW view \in Snapshot \cup {None}, Reply(q, outcome, view)
  PROVE  QueryTypeOK'
  BY DEF QueryTypeOK, Request, Reply, Unasked

LEMMA WriteOverType ==
  ASSUME QueryTypeOK, NEW q \in Query, NEW what, NEW ok \in BOOLEAN,
         Writing(q, what), WriteOver(q, what, ok)
  PROVE  QueryTypeOK'
<1>1. query[q].view \in Snapshot \cup {None} BY DEF QueryTypeOK, Request
<1>2. CASE Reply(q, "found", query[q].view) \/ Reply(q, "error", None)
  BY <1>1, <1>2, ReplyType DEF Outcome
<1>3. CASE \E rest \in SUBSET {"redis", "mysql"}, pc \in {"store", "spoiled"} :
              query' = [query EXCEPT ![q].todo = rest, ![q].pc = pc]
  <2>1. PICK rest \in SUBSET {"redis", "mysql"}, pc \in {"store", "spoiled"} :
               query' = [query EXCEPT ![q].todo = rest, ![q].pc = pc]
    BY <1>3
  <2>2. [query[q] EXCEPT !.todo = rest, !.pc = pc] \in Request
    BY DEF QueryTypeOK, Request
  <2>3. QED BY <2>1, <2>2 DEF QueryTypeOK
<1>4. query[q].todo \ {what} \in SUBSET {"redis", "mysql"}
  BY DEF QueryTypeOK, Request
<1>5. (IF ok THEN query[q].pc ELSE "spoiled") \in {"store", "spoiled"}
  BY DEF Writing
<1>6. QED BY <1>2, <1>3, <1>4, <1>5 DEF WriteOver

LEMMA LookupType ==
  ASSUME TypeOK, SyncInv, NEW q \in Query, Lookup(q)
  PROVE  StoreTypeOK' /\ QueryTypeOK'
<1> USE DEF TypeOK
<1>a. /\ query[q].view \in Snapshot \cup {None}
      /\ query[q].pc \in WithView => query[q].view \in Snapshot
      /\ query[q].pc # "idle" => query[q].tx \in Tx
  BY DEF QueryTypeOK, Request, SyncInv, LocalsAreSet
<1>1. ASSUME NEW t \in Tx, Ask(q, t) PROVE StoreTypeOK' /\ QueryTypeOK'
  BY <1>1 DEF Ask, Unasked, StoreTypeOK, QueryTypeOK, Request
<1>2. CASE ReadRedis(q)
  <2>1. StoreTypeOK' BY <1>2 DEF ReadRedis, StoreTypeOK
  <2>2. redis[query[q].tx] \in Snapshot \cup {None}
    BY <1>2, <1>a DEF ReadRedis, StoreTypeOK
  <2>3. CASE query' = [query EXCEPT ![q].pc = "mysql"]
    BY <2>1, <2>3 DEF QueryTypeOK, Request, Outcome
  <2>4. QED BY <1>2, <2>1, <2>2, <2>3, ReplyType DEF ReadRedis, Outcome
<1>3. CASE ReadMysql(q)
  <2>1. StoreTypeOK' BY <1>3 DEF ReadMysql, StoreTypeOK
  <2>2. /\ RowSnapshot(query[q].tx) \in Snapshot
        /\ db[query[q].tx].ozId \in Delivery \cup {None}
    BY <1>3, <1>a, SnapshotType DEF ReadMysql, RowTypeOK, DbTypeOK, Row
  <2>3. CASE Reply(q, "notFound", None)
    BY <2>1, <2>3, ReplyType DEF Outcome
  <2>4. CASE query' = [query EXCEPT ![q].pc = "backfill",
                                    ![q].view = RowSnapshot(query[q].tx)]
    <3>1. [query[q] EXCEPT !.pc = "backfill", !.view = RowSnapshot(query[q].tx)]
            \in Request
      BY <2>2 DEF QueryTypeOK, Request
    <3>2. QED BY <2>1, <2>4, <3>1 DEF QueryTypeOK
  <2>5. CASE query' = [query EXCEPT ![q].pc = "locate",
                                    ![q].ozId = db[query[q].tx].ozId]
    <3>1. [query[q] EXCEPT !.pc = "locate", !.ozId = db[query[q].tx].ozId]
            \in Request
      BY <2>2 DEF QueryTypeOK, Request
    <3>2. QED BY <2>1, <2>5, <3>1 DEF QueryTypeOK
  <2>6. QED BY <1>3, <2>1, <2>3, <2>4, <2>5 DEF ReadMysql
<1>4. CASE ReadMysqlFails(q) \/ LocateFails(q) \/ FetchFails(q)
  <2>1. StoreTypeOK'
    BY <1>4 DEF ReadMysqlFails, LocateFails, FetchFails, StoreTypeOK
  <2>2. QED BY <1>4, <2>1, ReplyType
            DEF ReadMysqlFails, LocateFails, FetchFails, Outcome
<1>5. CASE Backfill(q) \/ BackfillFails(q)
  <2>1. StoreTypeOK'
    BY <1>5, <1>a DEF Backfill, BackfillFails, CacheSet, StoreTypeOK
  <2>2. QED
    BY <1>5, <1>a, <2>1, ReplyType DEF Backfill, BackfillFails, Outcome
<1>6. CASE LocateRelayer(q)
  BY <1>6 DEF LocateRelayer, StoreTypeOK, QueryTypeOK, Request, Outcome
<1>7. CASE FetchFromOzRelayer(q)
  <2>1. StoreTypeOK' BY <1>7 DEF FetchFromOzRelayer, StoreTypeOK
  <2>2. CurrentView(query[q].ozId) \in Snapshot
    BY <1>7, ViewType, ReportedAssumption DEF FetchFromOzRelayer, CurrentView,
       SyncInv, LocalsAreSet, WithId, RelayerTxs, LifecycleTypeOK, OzStatus
  <2>3. query' = [query EXCEPT ![q].pc = "store",
                               ![q].view = CurrentView(query[q].ozId),
                               ![q].todo = {"redis", "mysql"}]
    BY <1>7 DEF FetchFromOzRelayer
  <2>4. [query[q] EXCEPT !.pc = "store", !.view = CurrentView(query[q].ozId),
                         !.todo = {"redis", "mysql"}] \in Request
    BY <2>2 DEF QueryTypeOK, Request
  <2>5. QED BY <2>1, <2>3, <2>4 DEF QueryTypeOK
<1>8. ASSUME NEW ok \in BOOLEAN, WriteRedis(q, ok) PROVE StoreTypeOK' /\ QueryTypeOK'
  <2>1. StoreTypeOK' BY <1>8, <1>a DEF WriteRedis, CacheSet, StoreTypeOK
  <2>2. QED BY <1>8, <2>1, WriteOverType DEF WriteRedis
<1>9. ASSUME NEW ok \in BOOLEAN, UpsertMysql(q, ok) PROVE StoreTypeOK' /\ QueryTypeOK'
  <2>1. query[q].view \in Snapshot
    BY <1>9, <1>a DEF UpsertMysql, Writing, WithView
  <2>2. StoreTypeOK' BY <1>9, <2>1 DEF UpsertMysql, Snapshot, StoreTypeOK
  <2>3. QED BY <1>9, <2>2, WriteOverType DEF UpsertMysql
<1>10. ASSUME NEW what \in {"redis", "mysql"}, WriteFails(q, what)
       PROVE StoreTypeOK' /\ QueryTypeOK'
  <2>1. StoreTypeOK' BY <1>10 DEF WriteFails, StoreTypeOK
  <2>2. QED BY <1>10, <2>1, WriteOverType DEF WriteFails
<1>11. QED
  BY <1>1, <1>2, <1>3, <1>4, <1>5, <1>6, <1>7, <1>8, <1>9, <1>10
  DEF Lookup, LookupStep, AnswerStep, FailureStep

LEMMA NextType == TypeOK /\ SyncInv /\ [Next]_vars => TypeOK'
<1> SUFFICES ASSUME TypeOK, SyncInv, [Next]_vars PROVE TypeOK' OBVIOUS
<1> USE DEF TypeOK
<1>r. RowTypeOK' BY NextIsRow, RowStepType
<1>1. ASSUME UNCHANGED <<chain, events, receipt, redis, hook, query, late>>
      PROVE  TypeOK'
  BY <1>r, <1>1 DEF LifecycleTypeOK, StoreTypeOK, HookTypeOK, QueryTypeOK
<1>2. ASSUME NEW d \in Delivery, Proceed(d) PROVE TypeOK'
  <2>1. LifecycleTypeOK' BY <1>2 DEF Proceed, RelayerProgress, LifecycleTypeOK
  <2>2. UNCHANGED <<receipt, redis, hook, query, late>> BY <1>2 DEF Proceed
  <2>3. QED BY <1>r, <2>1, <2>2 DEF StoreTypeOK, HookTypeOK, QueryTypeOK
<1>3. ASSUME NEW h \in Hook, HandleWebhook(h) PROVE TypeOK'
  <2>1. UNCHANGED <<chain, events, query, late>>
    BY <1>3 DEF HandleWebhook, WebhookStep, UpdateMysql, UpdateRedisCache,
       HookEndsEarly
  <2>2. LifecycleTypeOK' /\ QueryTypeOK' BY <2>1 DEF LifecycleTypeOK, QueryTypeOK
  <2>3. StoreTypeOK' /\ HookTypeOK'
    <3>1. ASSUME NEW e \in events, UpdateMysql(h, e[1], e[2])
          PROVE  StoreTypeOK' /\ HookTypeOK'
      <4>1. View(e[1], e[2]).hash \in Hash /\ View(e[1], e[2]).confirmed \in BOOLEAN
        BY DEF View, Hash, LifecycleTypeOK
      <4>2. PICK t \in Tx :
              /\ receipt' = [receipt EXCEPT ![t] =
                   [hash |-> IF View(e[1], e[2]).hash = None THEN @.hash
                             ELSE View(e[1], e[2]).hash,
                    confirmed |-> @.confirmed \/ View(e[1], e[2]).confirmed]]
              /\ hook' = [hook EXCEPT ![h] = [tx |-> t, row |-> RowSnapshot(t)']]
        BY <3>1 DEF UpdateMysql, RowsOf
      <4>3. StoreTypeOK' BY <3>1, <4>1, <4>2 DEF UpdateMysql, StoreTypeOK
      <4>4. RowSnapshot(t)' \in Snapshot
        BY <1>r, <4>3
        DEF RowTypeOK, DbTypeOK, StoreTypeOK, Row, Snapshot, RowSnapshot
      <4>5. QED BY <4>2, <4>3, <4>4 DEF HookTypeOK
    <3>2. CASE UpdateRedisCache(h) \/ HookEndsEarly(h)
      BY <3>2 DEF UpdateRedisCache, HookEndsEarly, CacheSet, StoreTypeOK, HookTypeOK
    <3>3. QED BY <1>3, <3>1, <3>2 DEF HandleWebhook, WebhookStep
  <2>4. QED BY <1>r, <2>1, <2>2, <2>3
<1>4. ASSUME NEW q \in Query, Lookup(q) PROVE TypeOK'
  <2>1. UNCHANGED <<chain, events, hook>> /\ late' \subseteq Query
    BY <1>4 DEF Lookup, LookupStep, Ask, AnswerStep, FailureStep, ReadRedis,
       ReadMysql, Backfill, LocateRelayer, FetchFromOzRelayer, WriteRedis,
       UpsertMysql, ReadMysqlFails, BackfillFails, LocateFails, FetchFails,
       WriteFails
  <2>2. LifecycleTypeOK' /\ HookTypeOK' BY <2>1 DEF LifecycleTypeOK, HookTypeOK
  <2>3. QED BY <1>r, <1>4, <2>1, <2>2, LookupType
<1>5. ASSUME NEW t \in Tx, Expire(t) PROVE TypeOK'
  BY <1>r, <1>5 DEF Expire, CacheExpires, CacheSet, LifecycleTypeOK, StoreTypeOK,
     HookTypeOK, QueryTypeOK
<1>6. CASE UNCHANGED vars BY <1>1, <1>6 DEF vars
<1>7. QED
  BY <1>1, <1>2, <1>3, <1>4, <1>5, <1>6 DEF Next, Submit

(***************************************************************************)
(* The invariant, one lemma per part.                                      *)
(***************************************************************************)

LEMMA NamesStep ==
  ASSUME TypeOK, SyncInv, [Next]_vars
  PROVE  NamesAreReal'
<1> USE DEF TypeOK, SyncInv, NamesAreReal
<1>r. [RowNext]_rowVars BY NextIsRow
<1>k. /\ \A d \in Delivery : post[d] = "accepted" => post'[d] = "accepted"
      /\ events \subseteq events'
      /\ \A d \in Delivery : chain[d] \in Final => chain'[d] = chain[d]
  BY <1>r, RowKeeps, RelayersKeep
<1>1. \A t \in Tx : db'[t].ozId # None => db'[t].ozId \in RelayerTxs(t)'
  <2> TAKE t \in Tx
  <2> USE DEF RowTypeOK, DbTypeOK
  <2>1. CASE db'[t].ozId = db[t].ozId BY <1>k, <2>1 DEF RelayerTxs
  <2>2. ASSUME NEW d \in Delivery, Save(d), TxOf(d) = t
        PROVE  db'[t].ozId \in RelayerTxs(t)'
    BY <2>2 DEF Save, RelayerTxs
  <2>3. ASSUME NEW u \in Tx, Create(u) \/ RollBack(u) \/ WriteStatus(u)
        PROVE  db'[t].ozId = None \/ db'[t].ozId = db[t].ozId
    BY <2>3 DEF Create, RollBack, WriteStatus, SetStatus, QueuedRow, Row
  <2>4. ASSUME NEW d \in Delivery, Begin(d) \/ Mark(d) \/ Accept(d) \/ Lose(d)
        PROVE  db'[t].ozId = db[t].ozId
    BY <2>4 DEF Begin, Mark, Accept, Lose, SetStatus, Row
  <2>5. ASSUME NEW d \in Delivery, Save(d), TxOf(d) # t
        PROVE  db'[t].ozId = db[t].ozId
    BY <2>5 DEF Save
  <2>6. ASSUME NEW D \in SUBSET Delivery, Leave(D) PROVE db'[t].ozId = db[t].ozId
    BY <2>6 DEF Leave
  <2>7. QED
    BY <1>r, <2>1, <2>2, <2>3, <2>4, <2>5, <2>6 DEF RowNext, SubmissionStep, rowVars
<1>2. ASSUME NEW d \in Delivery, RelayerProgress(d) PROVE NamesAreReal'
  <2>1. PICK s \in Reported : /\ chain' = [chain EXCEPT ![d] = s]
                              /\ events' = events \cup {<<d, s>>}
                              /\ post[d] = "accepted"
    BY <1>2 DEF RelayerProgress
  <2>2. QED BY <1>k, <1>1, <2>1 DEF LifecycleTypeOK, Final
<1>3. CASE UNCHANGED <<chain, events>> BY <1>k, <1>1, <1>3
<1>4. QED
  BY <1>2, <1>3 DEF Next, vars, Submit, Proceed, HandleWebhook,
     WebhookStep, UpdateMysql, UpdateRedisCache, HookEndsEarly, Lookup,
     LookupStep, Ask, AnswerStep, FailureStep, ReadRedis, ReadMysql, Backfill,
     LocateRelayer, FetchFromOzRelayer, WriteRedis, UpsertMysql, ReadMysqlFails,
     BackfillFails, LocateFails, FetchFails, WriteFails, Expire, CacheExpires

\* What a step of a status request does to its record: it asks, gives up, finds
\* a cached answer, reads the row, or goes on with what it has.
Asks(q) == \E t \in Tx : query'[q] = [Unasked EXCEPT !.pc = "redis", !.tx = t]

GivesUp(q) == /\ query'[q].pc \in {"notFound", "error"}
              /\ query'[q].tx = query[q].tx
              /\ query'[q].view = None

FindsEntry(q) == /\ redis[query[q].tx] # None
                 /\ redis[query[q].tx].status \in TerminalStatus
                 /\ query'[q].pc = "found"
                 /\ query'[q].view = redis[query[q].tx]

FindsRow(q) == /\ db[query[q].tx].status \in TerminalStatus
               /\ query'[q].pc = "backfill"
               /\ query'[q].view = RowSnapshot(query[q].tx)

GoesOn(q) == \/ query'[q].pc = "mysql" /\ query'[q].view = query[q].view
             \/ /\ db[query[q].tx].ozId # None
                /\ query'[q].pc = "locate"
                /\ query'[q].ozId = db[query[q].tx].ozId
                /\ query'[q].view = query[q].view
             \/ /\ query[q].pc = "locate" /\ query'[q].pc = "fetch"
                /\ query'[q].ozId = query[q].ozId
                /\ query'[q].view = query[q].view

Fetches(q) == /\ query[q].pc = "fetch" /\ query'[q].pc = "store"
              /\ query'[q].ozId = query[q].ozId
              /\ query'[q].view = CurrentView(query[q].ozId)

Stores(q) == /\ query[q].pc \in {"backfill", "store", "spoiled"}
             /\ query'[q].view = query[q].view
             /\ \/ query'[q].pc = "found"
                \/ /\ query[q].pc \in {"store", "spoiled"}
                   /\ query'[q].pc \in {"store", "spoiled"}
                   /\ query'[q].ozId = query[q].ozId

LEMMA RequestSteps ==
  ASSUME TypeOK, SyncInv, NEW q \in Query, Lookup(q)
  PROVE  /\ \A p \in Query \ {q} : query'[p] = query[p]
         /\ \/ Asks(q) /\ ~Open(q)
            \/ /\ Open(q) /\ query'[q].tx = query[q].tx
               /\ \/ GivesUp(q)
                  \/ query[q].pc = "redis" /\ FindsEntry(q)
                  \/ query[q].pc = "mysql" /\ FindsRow(q)
                  \/ query[q].pc \in {"redis", "mysql", "locate"} /\ GoesOn(q)
                  \/ Fetches(q) \/ Stores(q)
<1> USE DEF TypeOK, QueryTypeOK
<1>a. query[q] \in Request OBVIOUS
<1>1. \A p \in Query \ {q} : query'[p] = query[p]
  BY DEF Lookup, LookupStep, Ask, AnswerStep, FailureStep, ReadRedis, ReadMysql,
     Backfill, LocateRelayer, FetchFromOzRelayer, WriteRedis, UpsertMysql,
     ReadMysqlFails, BackfillFails, LocateFails, FetchFails, WriteFails,
     WriteOver, Reply
<1>2. ASSUME NEW t \in Tx, Ask(q, t) PROVE Asks(q) /\ ~Open(q)
  BY <1>2 DEF Ask, Asks
<1>3. ASSUME NEW outcome \in Outcome, NEW view, Reply(q, outcome, view)
      PROVE  /\ query'[q].pc = outcome /\ query'[q].tx = query[q].tx
             /\ query'[q].view = view
  BY <1>3 DEF Reply, Unasked
<1> USE DEF Open, Outcome
<1>4. CASE ReadRedis(q)
  BY <1>a, <1>1, <1>3, <1>4 DEF ReadRedis, FindsEntry, GoesOn, Request
<1>5. CASE ReadMysql(q)
  <2>1. CASE Reply(q, "notFound", None)
    BY <1>1, <1>3, <1>5, <2>1 DEF ReadMysql, GivesUp
  <2>2. CASE ~Reply(q, "notFound", None)
    BY <1>a, <1>5, <2>2 DEF ReadMysql, FindsRow, GoesOn, Request
  <2>3. QED BY <1>5, <2>1, <2>2
<1>6. CASE ReadMysqlFails(q) \/ LocateFails(q) \/ FetchFails(q) \/ BackfillFails(q)
  BY <1>1, <1>3, <1>6
  DEF ReadMysqlFails, LocateFails, FetchFails, BackfillFails, GivesUp
<1>7. CASE Backfill(q) BY <1>1, <1>3, <1>7 DEF Backfill, Stores
<1>8. CASE LocateRelayer(q) BY <1>a, <1>8 DEF LocateRelayer, GoesOn, Request
<1>9. CASE FetchFromOzRelayer(q)
  BY <1>a, <1>9 DEF FetchFromOzRelayer, Fetches, Request
<1>10. ASSUME NEW what, NEW ok \in BOOLEAN, Writing(q, what), WriteOver(q, what, ok)
       PROVE  Open(q) /\ query'[q].tx = query[q].tx /\ (GivesUp(q) \/ Stores(q))
  <2>1. Open(q) BY <1>10 DEF Writing
  <2>2. CASE Reply(q, "found", query[q].view)
    BY <1>3, <1>10, <2>1, <2>2 DEF Writing, Stores
  <2>3. CASE Reply(q, "error", None) BY <1>3, <2>1, <2>3 DEF GivesUp
  <2>4. CASE query[q].todo \ {what} # {}
    BY <1>a, <1>10, <2>1, <2>4 DEF WriteOver, Writing, Stores, Request
  <2>5. QED BY <1>10, <2>2, <2>3, <2>4 DEF WriteOver
<1>11. CASE \/ \E ok \in BOOLEAN : WriteRedis(q, ok) \/ UpsertMysql(q, ok)
            \/ \E what \in {"redis", "mysql"} : WriteFails(q, what)
  BY <1>1, <1>10, <1>11 DEF WriteRedis, UpsertMysql, WriteFails
<1>12. QED
  BY <1>1, <1>2, <1>4, <1>5, <1>6, <1>7, <1>8, <1>9, <1>11
  DEF Lookup, LookupStep, AnswerStep, FailureStep

LEMMA LocalsStep ==
  ASSUME TypeOK, SyncInv, [Next]_vars
  PROVE  LocalsAreSet'
<1> USE DEF TypeOK, SyncInv
<1>t. TypeOK' BY NextType
<1>k. /\ \A t \in Tx : RelayerTxs(t) \subseteq RelayerTxs(t)'
      /\ \A t \in Tx : db[t].ozId # None => db'[t].ozId # None
  BY NextIsRow, RowKeeps DEF RelayerTxs
<1> DEFINE Set(p) ==
        /\ query[p].pc # "idle" => query[p].tx \in Tx
        /\ query[p].pc \in WithView => query[p].view \in Snapshot
        /\ query[p].pc \notin WithView => query[p].view = None
        /\ query[p].pc \in WithId => /\ query[p].ozId \in RelayerTxs(query[p].tx)
                                     /\ db[query[p].tx].ozId # None
        /\ query[p].pc \in {"store", "spoiled"} => query[p].view.status \in OzStatus
<1>s. \A p \in Query : Set(p) BY DEF LocalsAreSet
<1>1. ASSUME NEW p \in Query, query'[p] = query[p] PROVE Set(p)'
  BY <1>1, <1>s, <1>k DEF WithId
<1>2. ASSUME NEW q \in Query, Lookup(q) PROVE Set(q)'
  <2> USE DEF WithId, WithView
  <2>1. CASE Asks(q) BY <2>1 DEF Asks, Unasked
  <2>2. ASSUME Open(q), query'[q].tx = query[q].tx PROVE Set(q)'
    <3>1. query[q].tx \in Tx BY <1>s, <2>2 DEF Open
    <3>2. CASE GivesUp(q) BY <2>2, <3>1, <3>2 DEF GivesUp
    <3>3. CASE FindsEntry(q)
      BY <2>2, <3>1, <3>3 DEF FindsEntry, StoreTypeOK
    <3>4. CASE FindsRow(q)
      BY <2>2, <3>1, <3>4, SnapshotType DEF FindsRow
    <3>5. CASE query[q].pc \in {"redis", "mysql", "locate"} /\ GoesOn(q)
      <4>1. query[q].view = None BY <1>s, <3>5
      <4>2. db[query[q].tx].ozId # None =>
              db[query[q].tx].ozId \in RelayerTxs(query[q].tx)
        BY <3>1 DEF NamesAreReal
      <4>3. QED BY <1>s, <1>k, <2>2, <3>1, <3>5, <4>1, <4>2 DEF GoesOn
    <3>6. CASE Fetches(q)
      <4>1. query[q].ozId \in RelayerTxs(query[q].tx) /\ db[query[q].tx].ozId # None
        BY <1>s, <3>6 DEF Fetches
      <4>2. /\ CurrentView(query[q].ozId) \in Snapshot
            /\ CurrentView(query[q].ozId).status \in OzStatus
        <5> DEFINE d == query[q].ozId
        <5>1. d \in Delivery BY <4>1 DEF RelayerTxs
        <5>2. (IF chain[d] = "none" THEN "pending" ELSE chain[d]) \in OzStatus
          BY <5>1, ReportedAssumption DEF LifecycleTypeOK, OzStatus
        <5>3. QED BY <5>1, <5>2, ViewType DEF CurrentView
      <4>3. QED BY <1>k, <2>2, <3>1, <3>6, <4>1, <4>2 DEF Fetches
    <3>7. CASE Stores(q) BY <1>s, <1>k, <2>2, <3>1, <3>7 DEF Stores
    <3>8. QED
      BY <1>2, <2>2, <3>2, <3>3, <3>4, <3>5, <3>6, <3>7, RequestSteps
      DEF Asks
  <2>3. QED BY <1>2, <2>1, <2>2, RequestSteps
<1>3. ASSUME NEW p \in Query PROVE Set(p)'
  <2>1. CASE \E q \in Query : Lookup(q) BY <1>1, <1>2, <2>1, RequestSteps
  <2>2. CASE query' = query BY <1>1, <2>2
  <2>3. QED
    BY <2>1, <2>2 DEF Next, vars, Submit, Proceed, HandleWebhook, Expire
<1>4. QED BY <1>3 DEF LocalsAreSet

LEMMA LateStep ==
  ASSUME TypeOK, SyncInv, [Next]_vars
  PROVE  LateAreLed'
<1> USE DEF TypeOK, SyncInv
<1>r. [RowNext]_rowVars BY NextIsRow
<1>k. /\ \A t \in Tx : db[t].ozId # None => db'[t].ozId # None
      /\ \A d \in Delivery : chain[d] \in Final => chain'[d] = chain[d]
      /\ LocalsAreSet'
  BY <1>r, RowKeeps, RelayersKeep, LocalsStep
<1>f. ASSUME NEW t \in Tx, FinalAndRecorded(t)
      PROVE  FinalAndRecorded(t)' /\ db'[t].ozId = db[t].ozId
  <2>1. /\ db[t].ozId \in Delivery /\ chain[db[t].ozId] \in Final
        /\ \A d \in working : TxOf(d) # t
    BY <1>f DEF FinalAndRecorded, NamesAreReal, RelayerTxs
  <2> USE DEF RowTypeOK, DbTypeOK
  <2>2. ASSUME NEW u \in Tx, Create(u) \/ RollBack(u) \/ WriteStatus(u)
        PROVE  db'[t].ozId = db[t].ozId /\ working' = working
    BY <1>f, <2>2 DEF FinalAndRecorded, Create, NoRow, RollBack, WriteStatus,
       SetStatus, Row
  <2>3. ASSUME NEW d \in Delivery, Begin(d)
        PROVE  db' = db /\ \A e \in working' : TxOf(e) # t
    BY <1>f, <2>1, <2>3 DEF Begin, Unsettled, FinalAndRecorded
  <2>4. ASSUME NEW d \in Delivery, Mark(d) \/ Save(d) \/ Accept(d) \/ Lose(d)
        PROVE  db'[t].ozId = db[t].ozId /\ working' \subseteq working
    BY <2>1, <2>4 DEF Mark, Save, Accept, Lose, SetStatus, Row
  <2>5. ASSUME NEW D \in SUBSET Delivery, Leave(D)
        PROVE  db' = db /\ working' \subseteq working
    BY <2>5 DEF Leave
  <2>6. db'[t].ozId = db[t].ozId /\ \A d \in working' : TxOf(d) # t
    BY <1>r, <2>1, <2>2, <2>3, <2>4, <2>5 DEF RowNext, SubmissionStep, rowVars
  <2>7. QED BY <1>k, <1>f, <2>1, <2>6 DEF FinalAndRecorded
<1> DEFINE Led(p) ==
        /\ Open(p) => FinalAndRecorded(query[p].tx)
        /\ query[p].pc \in WithId => chain[query[p].ozId] \in Final
        /\ query[p].pc \in WithView => query[p].view.status \in TerminalStatus
<1>o. \A p \in Query : Open(p) => query[p].tx \in Tx
  BY DEF LocalsAreSet, Open
<1>1. ASSUME NEW p \in late, query'[p] = query[p] PROVE Led(p)'
  <2>1. Led(p) /\ p \in Query BY DEF LateAreLed
  <2>2. query[p].pc \in WithId => query[p].ozId \in Delivery
    BY <2>1 DEF LocalsAreSet, RelayerTxs
  <2>3. QED BY <1>1, <1>k, <1>f, <1>o, <2>1, <2>2 DEF Open
<1>2. ASSUME NEW q \in Query, Lookup(q), q \in late' PROVE Led(q)'
  <2> USE DEF WithId, WithView
  <2>1. CASE Asks(q) /\ ~Open(q)
    <3>1. PICK t \in Tx : Ask(q, t) /\ FinalAndRecorded(t)
      BY <1>2, <2>1 DEF Lookup
    <3>2. query'[q].tx = t /\ query'[q].pc = "redis"
      BY <3>1 DEF Ask, Unasked, QueryTypeOK
    <3>3. QED BY <1>f, <3>1, <3>2
  <2>2. ASSUME Open(q), query'[q].tx = query[q].tx, ~(Asks(q) /\ ~Open(q)) PROVE Led(q)'
    <3>1. q \in late
      BY <1>2, <2>2 DEF Lookup, Ask
    <3>2. query[q].tx \in Tx /\ Led(q) BY <1>o, <2>2, <3>1 DEF LateAreLed
    <3>3. PICK t \in Tx : /\ t = query[q].tx /\ query'[q].tx = t
                          /\ FinalAndRecorded(t)'
      BY <1>f, <2>2, <3>2
    <3>4. CASE GivesUp(q) BY <3>3, <3>4 DEF GivesUp
    <3>5. CASE FindsEntry(q) \/ FindsRow(q)
      BY <3>3, <3>5 DEF FindsEntry, FindsRow, RowSnapshot
    <3>6. CASE query[q].pc \in {"redis", "mysql", "locate"} /\ GoesOn(q)
      <4>1. /\ db[query[q].tx].ozId \in Delivery
            /\ chain[db[query[q].tx].ozId] \in Final
        BY <3>2, <2>2 DEF FinalAndRecorded, NamesAreReal, RelayerTxs
      <4>2. query[q].pc = "locate" => query[q].ozId \in Delivery
        BY DEF LocalsAreSet, RelayerTxs
      <4>3. QED BY <1>k, <3>2, <3>3, <3>6, <4>1, <4>2 DEF GoesOn
    <3>7. CASE Fetches(q)
      <4>1. query[q].ozId \in Delivery /\ chain[query[q].ozId] \in Final
        BY <3>2, <3>7 DEF Fetches, LocalsAreSet, RelayerTxs
      <4>2. CurrentView(query[q].ozId).status \in TerminalStatus
        BY <4>1 DEF CurrentView, View, Final, TerminalStatus
      <4>3. QED BY <1>k, <3>3, <3>7, <4>1, <4>2 DEF Fetches
    <3>8. CASE Stores(q)
      <4>1. query[q].pc \in {"store", "spoiled"} => query[q].ozId \in Delivery
        BY DEF LocalsAreSet, RelayerTxs
      <4>2. QED BY <1>k, <3>2, <3>3, <3>8, <4>1 DEF Stores
    <3>9. QED
      BY <1>2, <2>2, <3>4, <3>5, <3>6, <3>7, <3>8, RequestSteps
  <2>3. QED BY <1>2, <2>1, <2>2, RequestSteps
<1>3. ASSUME NEW p \in late' PROVE Led(p)'
  <2>1. ASSUME NEW q \in Query, Lookup(q) PROVE Led(p)'
    <3>1. CASE p = q BY <1>2, <2>1, <3>1
    <3>2. CASE p # q
      <4>1. p \in late BY <2>1, <3>2 DEF Lookup
      <4>2. query'[p] = query[p] BY <2>1, <3>2, <4>1, RequestSteps
      <4>3. QED BY <1>1, <4>1, <4>2
    <3>3. QED BY <3>1, <3>2
  <2>2. CASE UNCHANGED <<query, late>> BY <1>1, <2>2
  <2>3. QED
    BY <2>1, <2>2 DEF Next, vars, Submit, Proceed, HandleWebhook, Expire
<1>4. QED BY <1>3 DEF LateAreLed

\* A step that writes to the row, if anything, a status that is no outcome or
\* the rollback's.
LEMMA RowTruth ==
  ASSUME TypeOK, SyncInv, [Next]_vars, NEW t \in Tx,
         \/ UNCHANGED db
         \/ \E u \in Tx : Create(u) \/ RollBack(u)
         \/ \E d \in Delivery : Mark(d) \/ Save(d),
         UNCHANGED receipt
  PROVE  Truthful(t, RowSnapshot(t))'
<1> USE DEF TypeOK, SyncInv, RowTypeOK, DbTypeOK
<1>1. Truthful(t, RowSnapshot(t))' \/ db'[t].status # db[t].status
  <2> DEFINE v == RowSnapshot(t)
  <2>1. Truthful(t, v) /\ v \in Snapshot BY SnapshotType DEF AllTruthful
  <2> HIDE DEF v
  <2>2. \A w \in Snapshot : Truthful(t, w) => Truthful(t, w)' BY TruthStays
  <2>3. db'[t].status = db[t].status => RowSnapshot(t)' = v
    BY DEF v, RowSnapshot
  <2>4. SUFFICES ASSUME db'[t].status = db[t].status
                 PROVE  Truthful(t, RowSnapshot(t))'
    OBVIOUS
  <2>5. PICK w \in Snapshot : w = v /\ Truthful(t, w)' BY <2>1, <2>2
  <2>6. QED BY <2>3, <2>4, <2>5 DEF Truthful
<1>2. ASSUME db'[t].status # db[t].status
      PROVE  \/ db'[t].status \in {"queued", "processing", "submitted"}
             \/ db'[t].status = "failed" /\ t \in refused'
  <2>1. ASSUME NEW u \in Tx, Create(u) \/ RollBack(u)
        PROVE  \/ db'[t].status \in {"queued", "processing", "submitted"}
               \/ db'[t].status = "failed" /\ t \in refused'
    BY <1>2, <2>1 DEF Create, QueuedRow, RollBack, SetStatus, Row
  <2>2. ASSUME NEW d \in Delivery, Mark(d) \/ Save(d)
        PROVE  db'[t].status \in {"queued", "processing", "submitted"}
    BY <1>2, <2>2, DeliveryTx DEF Mark, Save, SetStatus, Row
  <2>3. QED BY <1>2, <2>1, <2>2
<1>3. QED BY <1>1, <1>2 DEF Truthful, RowSnapshot, TerminalStatus

LEMMA TruthStep ==
  ASSUME TypeOK, SyncInv, [Next]_vars
  PROVE  AllTruthful'
<1> USE DEF TypeOK, SyncInv
<1>t. TypeOK' BY NextType
<1>r. [RowNext]_rowVars BY NextIsRow
<1>k. \A t \in Tx, v \in Snapshot : Truthful(t, v) => Truthful(t, v)'
  BY TruthStays
\* What was true of a snapshot is true of it where it is now found.
<1>a. \A t \in Tx, v \in Snapshot :
         Truthful(t, v) /\ redis'[t] = v => Truthful(t, redis[t])'
  BY <1>k DEF Truthful
<1>b. \A t \in Tx, v \in Snapshot :
         Truthful(t, v) /\ RowSnapshot(t)' = v => Truthful(t, RowSnapshot(t))'
  BY <1>k DEF Truthful
<1>c. \A h \in Hook, t \in Tx, v \in Snapshot :
         Truthful(t, v) /\ hook'[h].tx = t /\ hook'[h].row = v
           => Truthful(hook[h].tx, hook[h].row)'
  BY <1>k DEF Truthful
<1>d. \A q \in Query, t \in Tx, v \in Snapshot :
         Truthful(t, v) /\ query'[q].tx = t /\ query'[q].view = v
           => Truthful(query[q].tx, query[q].view)'
  BY <1>k DEF Truthful
<1>e. /\ \A t \in Tx : RowSnapshot(t) \in Snapshot /\ Truthful(t, RowSnapshot(t))
      /\ \A t \in Tx : redis[t] # None =>
            redis[t] \in Snapshot /\ Truthful(t, redis[t])
      /\ \A h \in Hook : hook[h] # None =>
            /\ hook[h].tx \in Tx /\ hook[h].row \in Snapshot
            /\ Truthful(hook[h].tx, hook[h].row)
      /\ \A q \in Query : query[q].pc \in WithView =>
            /\ query[q].tx \in Tx /\ query[q].view \in Snapshot
            /\ Truthful(query[q].tx, query[q].view)
  BY SnapshotType
  DEF AllTruthful, StoreTypeOK, HookTypeOK, LocalsAreSet, WithView
<1>f. ASSUME NEW q \in Query, query'[q] = query[q], query'[q].pc \in WithView
      PROVE  Truthful(query[q].tx, query[q].view)'
  BY <1>d, <1>e, <1>f
\* Steps of the row's owners and of the relayers.
<1>1. ASSUME UNCHANGED <<receipt, redis, hook, query>>,
             \/ UNCHANGED db
             \/ \E u \in Tx : Create(u) \/ RollBack(u)
             \/ \E d \in Delivery : Mark(d) \/ Save(d)
      PROVE  AllTruthful'
  <2>1. \A t \in Tx : Truthful(t, RowSnapshot(t))' BY <1>1, RowTruth
  <2>2. \A t \in Tx : redis'[t] # None => Truthful(t, redis[t])'
    BY <1>1, <1>a, <1>e
  <2>3. \A h \in Hook : hook'[h] # None => Truthful(hook[h].tx, hook[h].row)'
    BY <1>1, <1>c, <1>e
  <2>4. \A q \in Query : query'[q].pc \in WithView =>
           Truthful(query[q].tx, query[q].view)'
    BY <1>1, <1>f
  <2>5. QED BY <2>1, <2>2, <2>3, <2>4 DEF AllTruthful
\* A webhook.
<1>2. ASSUME NEW h \in Hook, HandleWebhook(h) PROVE AllTruthful'
  <2>1. query' = query /\ \A g \in Hook \ {h} : hook'[g] = hook[g]
    <3>1. ASSUME NEW e \in events, UpdateMysql(h, e[1], e[2])
          PROVE  \A g \in Hook \ {h} : hook'[g] = hook[g]
      BY <3>1 DEF UpdateMysql, HookTypeOK
    <3>2. CASE UpdateRedisCache(h) \/ HookEndsEarly(h)
      BY <1>2, <3>2
      DEF HandleWebhook, UpdateRedisCache, HookEndsEarly, HookTypeOK
    <3>3. QED BY <1>2, <3>1, <3>2 DEF HandleWebhook, WebhookStep
  <2>2. \A q \in Query : query'[q].pc \in WithView =>
           Truthful(query[q].tx, query[q].view)'
    BY <2>1, <1>f
  <2>3. \A g \in Hook \ {h} : hook'[g] # None => Truthful(hook[g].tx, hook[g].row)'
    BY <2>1, <1>c, <1>e
  <2>4. ASSUME NEW e \in events, UpdateMysql(h, e[1], e[2]) PROVE AllTruthful'
    <3> DEFINE d == e[1]
               s == e[2]
    <3>1. d \in Delivery /\ s \in Reported /\ <<d, s>> \in events /\ d # None
      BY NoneAssumption DEF LifecycleTypeOK
    <3>2. PICK t \in Tx :
            /\ db[t].ozId = d /\ SetStatus(t, s)
            /\ receipt' = [receipt EXCEPT ![t] =
                 [hash |-> IF View(d, s).hash = None THEN @.hash
                           ELSE View(d, s).hash,
                  confirmed |-> @.confirmed \/ View(d, s).confirmed]]
            /\ hook' = [hook EXCEPT ![h] = [tx |-> t, row |-> RowSnapshot(t)']]
      BY <2>4 DEF UpdateMysql, RowsOf
    <3>3. UNCHANGED <<redis, chain, events, post>> BY <2>4 DEF UpdateMysql
    <3>4. d \in RelayerTxs(t) BY <3>1, <3>2 DEF NamesAreReal
    <3> HIDE DEF d, s
    <3>5. PICK v \in Snapshot : v = RowSnapshot(t)'
      BY <1>t, <3>2 DEF RowTypeOK, DbTypeOK, StoreTypeOK, Row, Snapshot, RowSnapshot
    <3>6. v.status = s
      BY <3>2, <3>5 DEF RowSnapshot, SetStatus, RowTypeOK, DbTypeOK, Row
    <3>7. s = "confirmed" => v.hash = d /\ v.confirmed
      BY <3>1, <3>2, <3>5 DEF RowSnapshot, View, StoreTypeOK
    <3>8. Truthful(t, v)
      BY <3>1, <3>2, <3>4, <3>6, <3>7 DEF Truthful, NamesAreReal, Final
    <3>9. ASSUME NEW u \in Tx PROVE Truthful(u, RowSnapshot(u))'
      <4>1. CASE u = t BY <1>b, <3>5, <3>8, <4>1
      <4>2. CASE u # t
        <5>1. RowSnapshot(u)' = RowSnapshot(u)
          BY <3>2, <4>2 DEF RowSnapshot, SetStatus
        <5>2. QED BY <5>1, <1>b, <1>e
      <4>3. QED BY <4>1, <4>2
    <3>10. hook'[h].tx = t /\ hook'[h].row = v
      BY <3>2, <3>5 DEF HookTypeOK
    <3>11. \A u \in Tx : redis'[u] # None => Truthful(u, redis[u])'
      BY <3>3, <1>a, <1>e
    <3>12. Truthful(hook[h].tx, hook[h].row)' BY <3>8, <3>10, <1>c
    <3>13. QED BY <2>2, <2>3, <3>9, <3>11, <3>12 DEF AllTruthful
  <2>5. CASE UpdateRedisCache(h) \/ HookEndsEarly(h)
    <3>1. UNCHANGED <<db, receipt>> /\ hook'[h] = None
      BY <2>5 DEF UpdateRedisCache, HookEndsEarly, HookTypeOK
    <3>2. \A t \in Tx : Truthful(t, RowSnapshot(t))' BY <3>1, RowTruth
    <3>3. ASSUME NEW t \in Tx, redis'[t] # None PROVE Truthful(t, redis[t])'
      <4>1. CASE redis'[t] = redis[t] BY <3>3, <4>1, <1>a, <1>e
      <4>2. CASE redis'[t] # redis[t]
        <5>1. /\ hook[h] # None /\ t = hook[h].tx
              /\ redis'[t] = hook[h].row
          BY <2>5, <4>2 DEF UpdateRedisCache, HookEndsEarly, CacheSet, StoreTypeOK
        <5>2. QED BY <5>1, <1>a, <1>e
      <4>3. QED BY <4>1, <4>2
    <3>4. QED BY <2>2, <2>3, <3>1, <3>2, <3>3 DEF AllTruthful
  <2>6. QED BY <1>2, <2>4, <2>5 DEF HandleWebhook, WebhookStep
\* A status request.
<1>3. ASSUME NEW q \in Query, Lookup(q) PROVE AllTruthful'
  <2>1. UNCHANGED <<chain, events, post, hook>>
    BY <1>3 DEF Lookup, LookupStep, Ask, AnswerStep, FailureStep, ReadRedis,
       ReadMysql, Backfill, LocateRelayer, FetchFromOzRelayer, WriteRedis,
       UpsertMysql, ReadMysqlFails, BackfillFails, LocateFails, FetchFails,
       WriteFails
  <2>2. \A h \in Hook : hook'[h] # None => Truthful(hook[h].tx, hook[h].row)'
    BY <2>1, <1>c, <1>e
  <2>3. ASSUME query'[q].pc \in WithView
        PROVE  Truthful(query[q].tx, query[q].view)'
    <3> USE DEF WithView
    <3>1. /\ Open(q) /\ query'[q].tx = query[q].tx /\ query[q].tx \in Tx
          /\ FindsEntry(q) \/ FindsRow(q) \/ Fetches(q) \/ Stores(q)
      BY <1>3, <2>3, RequestSteps
      DEF Asks, Unasked, GivesUp, GoesOn, LocalsAreSet, Open
    <3>2. CASE FindsEntry(q) BY <3>1, <3>2, <1>d, <1>e DEF FindsEntry
    <3>3. CASE FindsRow(q)
      <4>1. PICK v \in Snapshot : v = RowSnapshot(query[q].tx) /\ Truthful(query[q].tx, v)
        BY <3>1, <1>e
      <4>2. QED BY <3>1, <3>3, <4>1, <1>d DEF FindsRow
    <3>4. CASE Fetches(q)
      <4> DEFINE t == query[q].tx
                 d == query[q].ozId
      <4>1. d \in RelayerTxs(t) /\ d \in Delivery /\ db[t].ozId # None
        BY <3>4 DEF Fetches, LocalsAreSet, WithId, RelayerTxs
      <4>2. PICK v \in Snapshot : v = CurrentView(d)
        BY <2>3, <3>4, LocalsStep DEF Fetches, LocalsAreSet
      <4> HIDE DEF t, d
      <4>3. Truthful(t, v)
        BY <4>1, <4>2, NoneAssumption
        DEF Truthful, CurrentView, View, TerminalStatus, NamesAreReal
      <4>4. QED BY <3>1, <3>4, <4>2, <4>3, <1>d DEF Fetches, t, d
    <3>5. CASE Stores(q) BY <3>1, <3>5, <1>d, <1>e DEF Stores
    <3>6. QED BY <3>1, <3>2, <3>3, <3>4, <3>5
  <2>4. \A p \in Query : query'[p].pc \in WithView =>
           Truthful(query[p].tx, query[p].view)'
    BY <1>3, <1>f, <2>3, RequestSteps
  <2>5. ASSUME NEW t \in Tx, redis'[t] # None PROVE Truthful(t, redis[t])'
    <3>1. CASE redis'[t] = redis[t] BY <2>5, <3>1, <1>a, <1>e
    <3>2. CASE redis'[t] # redis[t]
      <4>1. /\ query[q].pc \in WithView /\ t = query[q].tx
            /\ redis'[t] = query[q].view
        BY <1>3, <3>2
        DEF Lookup, LookupStep, Ask, AnswerStep, FailureStep, ReadRedis,
            ReadMysql, Backfill, LocateRelayer, FetchFromOzRelayer, WriteRedis,
            UpsertMysql, ReadMysqlFails, BackfillFails, LocateFails, FetchFails,
            WriteFails, CacheSet, StoreTypeOK, Writing, WithView
      <4>2. QED BY <4>1, <1>a, <1>e
    <3>3. QED BY <3>1, <3>2
  <2>6. \A t \in Tx : Truthful(t, RowSnapshot(t))'
    <3>1. CASE \E ok \in BOOLEAN : UpsertMysql(q, ok)
      <4>1. PICK t \in Tx, v \in Snapshot : /\ t = query[q].tx /\ v = query[q].view
                                            /\ Truthful(t, v)
        BY <3>1, <1>e DEF UpsertMysql, Writing, WithView
      <4>2. /\ db' = [db EXCEPT ![t].status = v.status]
            /\ receipt' = [receipt EXCEPT ![t] = [hash |-> v.hash,
                                                  confirmed |-> v.confirmed]]
        BY <3>1, <4>1 DEF UpsertMysql, SetStatus
      <4>3. /\ db'[t].status = v.status /\ receipt'[t].hash = v.hash
            /\ receipt'[t].confirmed = v.confirmed
        BY <4>2 DEF RowTypeOK, DbTypeOK, Row, StoreTypeOK
      <4>4. RowSnapshot(t)' = v BY <4>3 DEF RowSnapshot, Snapshot
      <4>5. ASSUME NEW u \in Tx \ {t} PROVE Truthful(u, RowSnapshot(u))'
        <5>1. RowSnapshot(u)' = RowSnapshot(u) BY <4>2 DEF RowSnapshot
        <5>2. QED BY <5>1, <1>b, <1>e
      <4>6. QED BY <4>1, <4>4, <4>5, <1>b
    <3>2. CASE UNCHANGED <<db, receipt>> BY <3>2, RowTruth
    <3>3. QED
      BY <1>3, <3>1, <3>2 DEF Lookup, LookupStep, Ask, AnswerStep, FailureStep,
         ReadRedis, ReadMysql, Backfill, LocateRelayer, FetchFromOzRelayer,
         WriteRedis, ReadMysqlFails, BackfillFails, LocateFails, FetchFails,
         WriteFails
  <2>7. QED BY <2>2, <2>4, <2>5, <2>6 DEF AllTruthful
<1>4. ASSUME NEW t \in Tx, Expire(t) PROVE AllTruthful'
  <2>1. UNCHANGED <<db, receipt, hook, query>> BY <1>4 DEF Expire, CacheExpires
  <2>2. \A u \in Tx : Truthful(u, RowSnapshot(u))' BY <2>1, RowTruth
  <2>3. \A u \in Tx : redis'[u] # None => redis'[u] = redis[u]
    BY <1>4 DEF Expire, CacheExpires, CacheSet, StoreTypeOK
  <2>4. \A u \in Tx : redis'[u] # None => Truthful(u, redis[u])'
    BY <2>3, <1>a, <1>e
  <2>5. \A h \in Hook : hook'[h] # None => Truthful(hook[h].tx, hook[h].row)'
    BY <2>1, <1>c, <1>e
  <2>6. \A q \in Query : query'[q].pc \in WithView =>
           Truthful(query[q].tx, query[q].view)'
    BY <2>1, <1>f
  <2>7. QED BY <2>2, <2>4, <2>5, <2>6 DEF AllTruthful
<1>5. CASE Submit
  <2>1. \/ UNCHANGED db
        \/ \E u \in Tx : Create(u) \/ RollBack(u)
        \/ \E d \in Delivery : Mark(d) \/ Save(d)
    BY <1>5 DEF Submit, SubmissionStep, Begin, Accept, Lose, Leave
  <2>2. QED BY <1>1, <1>5, <2>1 DEF Submit
<1>6. ASSUME NEW d \in Delivery, Proceed(d) PROVE AllTruthful'
  BY <1>1, <1>6 DEF Proceed
<1>7. CASE UNCHANGED vars BY <1>1, <1>7 DEF vars
<1>8. QED BY <1>2, <1>3, <1>4, <1>5, <1>6, <1>7 DEF Next

(***************************************************************************)
(* The theorems.                                                           *)
(***************************************************************************)

LEMMA InitInv == Init => TypeOK /\ SyncInv
<1> SUFFICES ASSUME Init PROVE TypeOK /\ SyncInv OBVIOUS
<1> USE DEF Init, RowInit, DbInit, IntakeInit, LifecycleInit, StoreInit, HookInit,
        QueryInit
<1>1. TypeOK
  <2>1. RowTypeOK
    BY DEF RowTypeOK, DbTypeOK, IntakeTypeOK, NoRow, Row, RowStatus, PostState
  <2>2. LifecycleTypeOK /\ HookTypeOK BY DEF LifecycleTypeOK, HookTypeOK
  <2>3. StoreTypeOK BY DEF StoreTypeOK, Hash
  <2>4. QueryTypeOK BY DEF QueryTypeOK, Request, Unasked
  <2>5. QED BY <2>1, <2>2, <2>3, <2>4 DEF TypeOK
<1>2. NamesAreReal BY DEF NamesAreReal, NoRow
<1>3. LocalsAreSet BY DEF LocalsAreSet, Unasked, WithView, WithId
<1>4. AllTruthful
  BY DEF AllTruthful, Truthful, RowSnapshot, NoRow, TerminalStatus, Unasked, WithView
<1>5. LateAreLed BY DEF LateAreLed
<1>6. QED BY <1>1, <1>2, <1>3, <1>4, <1>5 DEF SyncInv

LEMMA Inductive == Spec => [](TypeOK /\ SyncInv)
<1>1. TypeOK /\ SyncInv /\ [Next]_vars => (TypeOK /\ SyncInv)'
  BY NextType, NamesStep, LocalsStep, TruthStep, LateStep DEF SyncInv
<1>2. QED BY <1>1, InitInv, PTL DEF Spec

\* Every variable keeps its type, for every value of the constants.
THEOREM TypeCorrect == Spec => []TypeOK
<1> QED BY Inductive, PTL

\* Webhooks and status requests write the row within the contract that the
\* submission path relies on, so the two halves can be checked apart.
THEOREM ImplementsTheRow == Spec => KeepsToTheRow
<1>1. Init => RowInit BY DEF Init
<1>2. TypeOK /\ SyncInv /\ [Next]_vars => [RowNext]_rowVars BY NextIsRow
<1>3. QED BY <1>1, <1>2, Inductive, PTL DEF Spec, KeepsToTheRow, RowSpec

\* Wherever a snapshot is found that a client may be told, it is truthful.
LEMMA ToldIsTruthful ==
  ASSUME TypeOK, SyncInv, NEW t \in Tx, NEW v \in Snapshots(t)
  PROVE  Truthful(t, v)
<1> USE DEF SyncInv, AllTruthful
<1>1. CASE v = RowSnapshot(t) \/ (v = redis[t] /\ redis[t] # None)
  <2>1. CASE v = RowSnapshot(t) BY <2>1
  <2>2. CASE v = redis[t] /\ redis[t] # None BY <2>2
  <2>3. QED BY <1>1, <2>1, <2>2
<1>2. ASSUME NEW h \in Hook, hook[h] # None, hook[h].tx = t, v = hook[h].row
      PROVE  Truthful(t, v)
  BY <1>2
<1>3. ASSUME NEW q \in Query, query[q].tx = t, v = query[q].view, v # None
      PROVE  Truthful(t, v)
  BY <1>3 DEF LocalsAreSet
<1>4. QED BY <1>1, <1>2, <1>3 DEF Snapshots

\* In whatever order webhooks, fetches and cache writes land, nobody is told an
\* outcome that did not occur.
THEOREM ToldOutcomesAreReal == Spec => []OutcomesAreReal
<1>1. TypeOK /\ SyncInv => OutcomesAreReal
  BY ToldIsTruthful DEF Truthful, OutcomesAreReal
<1>2. QED BY <1>1, Inductive, PTL

\* Nobody is told "confirmed" without the hash of a confirmed transaction and
\* the time.
THEOREM ConfirmedComesWithItsReceipt == Spec => []ConfirmedHasItsReceipt
<1>1. TypeOK /\ SyncInv => ConfirmedHasItsReceipt
  BY ToldIsTruthful DEF Truthful, ConfirmedHasItsReceipt
<1>2. QED BY <1>1, Inductive, PTL

\* A request asked after the outcome was final is never answered with a status
\* that says otherwise.
THEOREM LateRequestsLearnTheOutcome == Spec => []LateAnswersAreTerminal
<1>1. TypeOK /\ SyncInv => LateAnswersAreTerminal
  BY DEF SyncInv, LateAreLed, WithView, LateAnswersAreTerminal
<1>2. QED BY <1>1, Inductive, PTL

=============================================================================
