----------------------------- MODULE StatusStore -----------------------------
(***************************************************************************)
(* Where relay-api keeps what it knows of a transaction's outcome: the     *)
(* columns hash and confirmedAt of the row (with status, in TransactionStore)*)
(* and the Redis entry tx:status:{id}, a snapshot with a time to live.     *)
(***************************************************************************)
EXTENDS OzLifecycle

VARIABLES
    receipt,   \* the columns hash and confirmedAt of each row
    redis      \* the cached snapshot of each transaction, or None

Hash == Delivery \cup {None}

\* A snapshot holds what a client would be told.
Snapshot == [status : RowStatus, hash : Hash, confirmed : BOOLEAN]

StoreTypeOK ==
    /\ receipt \in [Tx -> [hash : Hash, confirmed : BOOLEAN]]
    /\ redis \in [Tx -> Snapshot \cup {None}]

StoreInit ==
    /\ receipt = [t \in Tx |-> [hash |-> None, confirmed |-> FALSE]]
    /\ redis = [t \in Tx |-> None]

\* transformPrismaToDto, and the cacheData of a webhook: the row as a snapshot.
RowSnapshot(t) == [status    |-> db[t].status,
                   hash      |-> receipt[t].hash,
                   confirmed |-> receipt[t].confirmed]

\* RedisService.set with its TTL.
CacheSet(t, snapshot) == redis' = [redis EXCEPT ![t] = snapshot]

\* The 600 s of an entry are over, or Redis drops it.
CacheExpires(t) ==
    /\ redis[t] # None
    /\ CacheSet(t, None)
    /\ UNCHANGED <<db, post, home, chain, events, receipt>>

=============================================================================
