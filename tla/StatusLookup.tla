----------------------------- MODULE StatusLookup -----------------------------
(***************************************************************************)
(* StatusService.getTransactionStatus: Redis, then the table, then the     *)
(* relayer that has the transaction, with the answer of the relayer        *)
(* written back to both.  One step per await.                              *)
(***************************************************************************)
EXTENDS StatusStore

CONSTANT Query         \* status requests that can be under way at a time

VARIABLE query         \* each request: where it is and what it has read

\* TERMINAL_STATUSES; relayers never report its fourth member, "cancelled".
TerminalStatus == {"mined", "confirmed", "failed"}

Outcome == {"found", "notFound", "error"}

Request == [pc : {"idle", "redis", "mysql", "backfill", "locate", "fetch",
                  "store", "spoiled"} \cup Outcome,
            tx : Tx \cup {None},
            ozId : Delivery \cup {None},           \* the id read from the row
            view : Snapshot \cup {None},           \* what is, or will be, answered
            todo : SUBSET {"redis", "mysql"}]      \* Promise.all: writes under way

QueryTypeOK == query \in [Query -> Request]

Unasked == [pc |-> "idle", tx |-> None, ozId |-> None, view |-> None, todo |-> {}]

QueryInit == query = [q \in Query |-> Unasked]

Open(q) == query[q].pc \notin {"idle"} \cup Outcome

\* The request ends; its slot keeps the transaction and the answer.
Reply(q, outcome, view) ==
    query' = [query EXCEPT ![q] = [Unasked EXCEPT !.pc = outcome,
                                                  !.tx = query[q].tx,
                                                  !.view = view]]

-----------------------------------------------------------------------------

\* GET /relay/status/{t}.
Ask(q, t) ==
    /\ ~Open(q)
    /\ query' = [query EXCEPT ![q] = [Unasked EXCEPT !.pc = "redis", !.tx = t]]
    /\ UNCHANGED <<db, post, home, chain, events, receipt, redis>>

\* (A mutation of ReadRedis: any entry is an answer.)
ReadRedisAnyEntry(q) ==
    LET cached == redis[query[q].tx] IN
    /\ query[q].pc = "redis"
    /\ \/ cached # None /\ Reply(q, "found", cached)
       \/ query' = [query EXCEPT ![q].pc = "mysql"]
    /\ UNCHANGED <<db, post, home, chain, events, receipt, redis>>

\* Tier 1: only a terminal entry is an answer.  A Redis error is a miss.
ReadRedis(q) ==
    LET cached == redis[query[q].tx] IN
    /\ query[q].pc = "redis"
    /\ \/ /\ cached # None
          /\ cached.status \in TerminalStatus
          /\ Reply(q, "found", cached)
       \/ query' = [query EXCEPT ![q].pc = "mysql"]
    /\ UNCHANGED <<db, post, home, chain, events, receipt, redis>>

\* (A mutation of ReadMysql: any relayed row is an answer.)
ReadMysqlAnyRow(q) ==
    LET t == query[q].tx IN
    /\ query[q].pc = "mysql"
    /\ IF db[t].ozId # None
       THEN query' = [query EXCEPT ![q].pc = "backfill", ![q].view = RowSnapshot(t)]
       ELSE Reply(q, "notFound", None)
    /\ UNCHANGED <<db, post, home, chain, events, receipt, redis>>

\* Tier 2: a terminal row is an answer once Redis has it; another row sends the
\* request to its relayer; a row without relayer transaction is "not found".
ReadMysql(q) ==
    LET t == query[q].tx IN
    /\ query[q].pc = "mysql"
    /\ IF db[t].status \in TerminalStatus
       THEN query' = [query EXCEPT ![q].pc = "backfill", ![q].view = RowSnapshot(t)]
       ELSE IF db[t].ozId # None
       THEN query' = [query EXCEPT ![q].pc = "locate", ![q].ozId = db[t].ozId]
       ELSE Reply(q, "notFound", None)
    /\ UNCHANGED <<db, post, home, chain, events, receipt, redis>>

\* findUnique rejects: logged, the row counts as absent, so "not found".
ReadMysqlFails(q) ==
    /\ query[q].pc = "mysql"
    /\ Reply(q, "notFound", None)
    /\ UNCHANGED <<db, post, home, chain, events, receipt, redis>>

\* The row is put into Redis before it is answered.
Backfill(q) ==
    /\ query[q].pc = "backfill"
    /\ CacheSet(query[q].tx, query[q].view)
    /\ Reply(q, "found", query[q].view)
    /\ UNCHANGED <<db, post, home, chain, events, receipt>>

\* That write is not guarded like the read of Redis: 500 when it rejects.
BackfillFails(q) ==
    /\ query[q].pc = "backfill"
    /\ redis' \in {redis, [redis EXCEPT ![query[q].tx] = query[q].view]}
    /\ Reply(q, "error", None)
    /\ UNCHANGED <<db, post, home, chain, events, receipt>>

\* Tier 3: fetchFromOzRelayer asks the relayer at ozRelayerUrl for its id.
LocateRelayer(q) ==
    /\ query[q].pc = "locate"
    /\ query' = [query EXCEPT ![q].pc = "fetch"]
    /\ UNCHANGED <<db, post, home, chain, events, receipt, redis>>

\* No answer, or no relayer there: 503.
LocateFails(q) ==
    /\ query[q].pc = "locate"
    /\ Reply(q, "error", None)
    /\ UNCHANGED <<db, post, home, chain, events, receipt, redis>>

\* Then for the transaction.  Both writes of Promise.all are then under way.
FetchFromOzRelayer(q) ==
    /\ query[q].pc = "fetch"
    /\ query' = [query EXCEPT ![q].pc = "store",
                              ![q].view = CurrentView(query[q].ozId),
                              ![q].todo = {"redis", "mysql"}]
    /\ UNCHANGED <<db, post, home, chain, events, receipt, redis>>

\* 404 from the relayer is "not found", everything else 503.
FetchFails(q) ==
    /\ query[q].pc = "fetch"
    /\ \E outcome \in {"notFound", "error"} : Reply(q, outcome, None)
    /\ UNCHANGED <<db, post, home, chain, events, receipt, redis>>

\* One write of Promise.all is over.  The last one ends the request; if either
\* rejected the client has its 500 by then, while the other write still lands.
WriteOver(q, what, ok) ==
    LET rest == query[q].todo \ {what}
        pc   == IF ok THEN query[q].pc ELSE "spoiled" IN
    IF rest # {} THEN query' = [query EXCEPT ![q].todo = rest, ![q].pc = pc]
    ELSE IF pc = "store" THEN Reply(q, "found", query[q].view)
    ELSE Reply(q, "error", None)

Writing(q, what) == /\ query[q].pc \in {"store", "spoiled"}
                    /\ what \in query[q].todo

WriteRedis(q, ok) ==
    /\ Writing(q, "redis")
    /\ CacheSet(query[q].tx, query[q].view)
    /\ WriteOver(q, "redis", ok)
    /\ UNCHANGED <<db, post, home, chain, events, receipt>>

\* (Mutations of UpsertMysql: only the status is written; columns are swapped;
\* the relayer transaction is rewritten as well, and its relayer with it.)
UpsertStatusOnly(q, ok) ==
    /\ Writing(q, "mysql")
    /\ SetStatus(query[q].tx, query[q].view.status)
    /\ WriteOver(q, "mysql", ok)
    /\ UNCHANGED <<post, home, chain, events, receipt, redis>>

UpsertSwapped(q, ok) ==
    LET t == query[q].tx
        v == query[q].view IN
    /\ Writing(q, "mysql")
    /\ SetStatus(t, v.status)
    /\ receipt' = [receipt EXCEPT ![t] = [hash |-> v.confirmed, confirmed |-> v.hash]]
    /\ WriteOver(q, "mysql", ok)
    /\ UNCHANGED <<post, home, chain, events, redis>>

UpsertWholeRow(q, ok) ==
    LET t == query[q].tx
        v == query[q].view IN
    /\ Writing(q, "mysql")
    /\ db' = [db EXCEPT ![t] = [status |-> v.status, ozId |-> query[q].ozId, ozUrl |-> None]]
    /\ receipt' = [receipt EXCEPT ![t] = [hash |-> v.hash, confirmed |-> v.confirmed]]
    /\ WriteOver(q, "mysql", ok)
    /\ UNCHANGED <<post, home, chain, events, redis>>

\* The upsert: by internal id, whatever the row holds by now; confirmedAt and
\* hash are cleared when the relayer gave none.  (Its create branch would need
\* the row this request has read to be gone; rows are never deleted.)
UpsertMysql(q, ok) ==
    LET t == query[q].tx
        v == query[q].view IN
    /\ Writing(q, "mysql")
    /\ SetStatus(t, v.status)
    /\ receipt' = [receipt EXCEPT ![t] = [hash |-> v.hash, confirmed |-> v.confirmed]]
    /\ WriteOver(q, "mysql", ok)
    /\ UNCHANGED <<post, home, chain, events, redis>>

\* A write rejects without having happened.
WriteFails(q, what) ==
    /\ Writing(q, what)
    /\ WriteOver(q, what, FALSE)
    /\ UNCHANGED <<db, post, home, chain, events, receipt, redis>>

\* The steps of a request that meets no failure.
AnswerStep(q) ==
    \/ ReadRedis(q) \/ ReadMysql(q) \/ Backfill(q)
    \/ LocateRelayer(q) \/ FetchFromOzRelayer(q)
    \/ WriteRedis(q, TRUE) \/ UpsertMysql(q, TRUE)

\* An await of it rejects, whether or not a write it asked for took place.
FailureStep(q) ==
    \/ ReadMysqlFails(q) \/ BackfillFails(q) \/ LocateFails(q) \/ FetchFails(q)
    \/ WriteRedis(q, FALSE) \/ UpsertMysql(q, FALSE)
    \/ \E what \in {"redis", "mysql"} : WriteFails(q, what)

LookupStep(q) ==
    \/ \E t \in Tx : Ask(q, t)
    \/ AnswerStep(q)
    \/ FailureStep(q)

=============================================================================
