------------------------------ MODULE StatusSync ------------------------------
(***************************************************************************)
(* How the outcome of a relayed transaction reaches the client: relayer    *)
(* transactions that proceed (OzLifecycle), webhooks (Webhooks), status    *)
(* requests (StatusLookup) and, in between, what QueueService and the      *)
(* consumer do to the row (SharedRow), over MySQL and Redis.               *)
(***************************************************************************)
EXTENDS SharedRow, Webhooks, StatusLookup, FiniteSets

VARIABLE late    \* auxiliary: requests that were asked when the outcome was final

vars == <<db, post, home, chain, events, receipt, redis, hook, query,
          working, refused, late>>

TypeOK == /\ RowTypeOK /\ LifecycleTypeOK /\ StoreTypeOK
          /\ HookTypeOK /\ QueryTypeOK
          /\ late \subseteq Query

Init == /\ RowInit /\ LifecycleInit /\ StoreInit /\ HookInit /\ QueryInit
        /\ late = {}

\* The relayer transaction of t is final, and the row says which one it is.
FinalAndRecorded(t) ==
    /\ db[t].ozId # None
    /\ chain[db[t].ozId] \in Final
    /\ \A d \in working : TxOf(d) # t

Submit ==
    /\ SubmissionStep
    /\ UNCHANGED <<chain, events, receipt, redis, hook, query, late>>

Proceed(d) ==
    /\ RelayerProgress(d)
    /\ UNCHANGED <<db, working, refused, receipt, redis, hook, query, late>>

HandleWebhook(h) == WebhookStep(h) /\ UNCHANGED <<query, working, refused, late>>

Lookup(q) ==
    /\ LookupStep(q)
    /\ late' = IF \E t \in Tx : Ask(q, t) /\ FinalAndRecorded(t)
               THEN late \cup {q}
               ELSE IF Open(q) THEN late ELSE late \ {q}
    /\ UNCHANGED <<hook, working, refused>>

Expire(t) == CacheExpires(t) /\ UNCHANGED <<hook, query, working, refused, late>>

Next ==
    \/ Submit
    \/ \E d \in Delivery : Proceed(d)
    \/ \E h \in Hook : HandleWebhook(h)
    \/ \E q \in Query : Lookup(q)
    \/ \E t \in Tx : Expire(t)

Spec == Init /\ [][Next]_vars

-----------------------------------------------------------------------------
(* Fairness: the awaits of a status request settle, and clients keep asking. *)
(* Nothing is assumed of the relayers' progress, of the delivery of their    *)
(* webhooks, of webhook handlers, of the consumer or of the producer.        *)

Fairness ==
    \A q \in Query : /\ WF_vars(AnswerStep(q) /\ Lookup(q))
                     /\ \A t \in Tx : SF_vars(Ask(q, t) /\ Lookup(q))

FairSpec == Spec /\ Fairness

-----------------------------------------------------------------------------
(* Properties.                                                               *)

\* Everything that is, or is about to be, told of t: the row, the Redis entry,
\* what webhook handlers have yet to cache, what requests will answer.
Snapshots(t) ==
    ({RowSnapshot(t), redis[t]}
       \cup {hook[h].row : h \in {g \in Hook : hook[g] # None /\ hook[g].tx = t}}
       \cup {query[q].view : q \in {p \in Query : query[p].tx = t}}) \ {None}

\* Whatever the order of webhooks, fetches and cache writes, mined, confirmed
\* and failed are told of a transaction only after one of its relayer
\* transactions got there; only of a transaction whose request was refused can
\* failed be told on the word of the rollback.
OutcomesAreReal ==
    \A t \in Tx : \A v \in Snapshots(t) :
        v.status \in TerminalStatus =>
            \/ \E d \in RelayerTxs(t) : <<d, v.status>> \in events
            \/ v.status = "failed" /\ t \in refused

\* Status, hash and confirmedAt are written by two services and copied to the
\* cache separately, yet a snapshot that says confirmed always has the hash of
\* a transaction that was confirmed, and the time.
ConfirmedHasItsReceipt ==
    \A t \in Tx : \A v \in Snapshots(t) :
        v.status = "confirmed" =>
            /\ v.hash \in RelayerTxs(t)
            /\ chain[v.hash] = "confirmed"
            /\ v.confirmed

\* A request asked after the outcome was final never finds a status that says
\* otherwise, whatever stale entry or row it meets on its way: the terminal
\* checks of both tiers send it on to the relayer.  (It may say mined.)
LateAnswersAreTerminal ==
    \A q \in late : query[q].pc = "found" => query[q].view.status \in TerminalStatus

\* Webhooks and lookups, which look for rows by other keys than they write them,
\* keep to the contract on the row that the consumer relies on.
KeepsToTheRow == RowSpec

\* What a step may not do if the outcome is to be read in the end: fail, deliver
\* an old webhook, or expire the cache.
Disturbance ==
    \/ \E q \in Query : FailureStep(q)
    \/ \E h \in Hook : HookEndsEarly(h) \/ \E e \in events : UpdateMysql(h, e[1], e[2])
    \/ \E t \in Tx : CacheExpires(t)

\* All webhooks of a transaction may be lost: once failures cease, a client that
\* keeps asking still learns that it is mined or final, since every request that
\* meets an unfinished row asks the relayer.  (FIRE_AND_FORGET_PATTERN.md:592-611
\* says otherwise of this very case: the row is "submitted" and "stuck forever",
\* until somebody updates it by hand.)
OutcomeIsReadInTheEnd ==
    <>[][~Disturbance]_vars =>
        \A t \in Tx, q \in Query :
            FinalAndRecorded(t) ~>
                /\ query[q].pc = "found"
                /\ query[q].tx = t
                /\ query[q].view.status \in TerminalStatus

-----------------------------------------------------------------------------
(* Claims of the repository that the code does not keep.                     *)

\* QUEUE_INTEGRATION.md:884, webhooks may be repeated: "Status updates are
\* idempotent (same final state)".
ConfirmedStaysConfirmed ==
    [][\A t \in Tx : /\ db[t].status = "confirmed"
                     /\ \E h \in Hook : HandleWebhook(h)
          => db'[t].status = "confirmed"]_vars

\* FIRE_AND_FORGET_PATTERN.md:503, "Status eventually consistent with
\* blockchain".
ConfirmationIsReadInTheEnd ==
    <>[][~Disturbance]_vars =>
        \A t \in Tx : FinalAndRecorded(t) ~>
            \/ t \in refused
            \/ \E d \in RelayerTxs(t) : db[t].ozId = d /\ db[t].status = chain[d]

=============================================================================
