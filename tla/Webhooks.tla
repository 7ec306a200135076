------------------------------- MODULE Webhooks -------------------------------
(***************************************************************************)
(* WebhooksService: an event updates the row found by ozRelayerTxId, then  *)
(* the Redis entry of that row.  Two awaits, so a handler that has updated *)
(* the row still holds the row as it was then when others move on.         *)
(***************************************************************************)
EXTENDS StatusStore

CONSTANT Hook          \* webhook requests that can be under way at a time

VARIABLE hook          \* the row each of them has yet to write to Redis

HookTypeOK ==
    hook \in [Hook -> [tx : Tx, row : Snapshot] \cup {None}]

HookInit == hook = [h \in Hook |-> None]

\* The row that names relayer transaction d, if any: ozRelayerTxId is unique.
RowsOf(d) == {t \in Tx : db[t].ozId = d}

\* updateMysql.  An absent hash or confirmed_at leaves its column alone; the
\* status is overwritten whatever it was.  An event for an id that no row
\* holds (yet, or any more) is answered 404 and changes nothing.
UpdateMysql(h, d, s) ==
    /\ hook[h] = None
    /\ <<d, s>> \in events
    /\ \E t \in RowsOf(d) :
          LET v == View(d, s) IN
          /\ SetStatus(t, s)
          /\ receipt' = [receipt EXCEPT ![t] =
                            [hash |-> IF v.hash = None THEN @.hash ELSE v.hash,
                             confirmed |-> @.confirmed \/ v.confirmed]]
          /\ hook' = [hook EXCEPT ![h] = [tx |-> t, row |-> RowSnapshot(t)']]
    /\ UNCHANGED <<post, home, chain, events, redis>>

\* updateRedisCache with the row that the UPDATE returned.
UpdateRedisCache(h) ==
    /\ hook[h] # None
    /\ CacheSet(hook[h].tx, hook[h].row)
    /\ hook' = [hook EXCEPT ![h] = None]
    /\ UNCHANGED <<db, post, home, chain, events, receipt>>

\* The handler ends without that: Redis is down (logged, ignored), the answer
\* of the UPDATE was lost (500), or the process died.
HookEndsEarly(h) ==
    /\ hook[h] # None
    /\ hook' = [hook EXCEPT ![h] = None]
    /\ UNCHANGED <<db, post, home, chain, events, receipt, redis>>

WebhookStep(h) ==
    \/ \E e \in events : UpdateMysql(h, e[1], e[2])
    \/ UpdateRedisCache(h)
    \/ HookEndsEarly(h)

=============================================================================
