----------------------------- MODULE RelayService -----------------------------
(***************************************************************************)
(* The whole service: the submission path (RelaySubmission), the relayers  *)
(* (OzLifecycle), webhooks (Webhooks) and status requests (StatusLookup)   *)
(* over one table and one cache.                                           *)
(*                                                                         *)
(* RelaySubmission knows the writers of an outcome as its action           *)
(* StatusWritten, StatusSync knows the submission path as the contract     *)
(* SharedRow; here both are the real thing, and RelayService_proofs shows  *)
(* that the whole implements either half's specification.                  *)
(***************************************************************************)
EXTENDS RelaySubmission, Webhooks, StatusLookup

VARIABLE late    \* auxiliary, as in StatusSync

\* What StatusSync sees of the submission path.  (The module of its theorems,
\* so that RelayService_proofs can cite them.)
Status == INSTANCE StatusSync_proofs WITH
    post    <- postSeen,
    home    <- homeSeen,
    working <- {d \in Delivery : Submitter(d)},
    refused <- {t \in Tx : req[t] = "rejected"}

\* Beside db, post and home, which the modules of both halves speak of.
pathVars   == <<sqs, req, proc, handler, exposed>>
statusVars == <<chain, events, receipt, redis, hook, query, late>>

serviceVars == <<vars, statusVars>>

ServiceInit == /\ Init
               /\ LifecycleInit /\ StoreInit /\ HookInit /\ QueryInit
               /\ late = {}

Submit == PathStep /\ UNCHANGED statusVars

Proceed(d) == /\ RelayerProgress(d)
              /\ UNCHANGED <<db, pathVars, receipt, redis, hook, query, late>>

HandleWebhook(h) == WebhookStep(h) /\ UNCHANGED <<pathVars, query, late>>

Lookup(q) ==
    /\ LookupStep(q)
    /\ late' = IF \E t \in Tx : Ask(q, t) /\ Status!FinalAndRecorded(t)
               THEN late \cup {q}
               ELSE IF Open(q) THEN late ELSE late \ {q}
    /\ UNCHANGED <<pathVars, hook>>

Expire(t) == CacheExpires(t) /\ UNCHANGED <<pathVars, hook, query, late>>

ServiceNext ==
    \/ Submit
    \/ \E d \in Delivery : Proceed(d)
    \/ \E h \in Hook : HandleWebhook(h)
    \/ \E q \in Query : Lookup(q)
    \/ \E t \in Tx : Expire(t)

ServiceSpec == ServiceInit /\ [][ServiceNext]_serviceVars

-----------------------------------------------------------------------------
(* Properties that take both halves.                                         *)

\* What a client may be told of t, now or soon, is an outcome.
Told(t) == \E v \in Status!Snapshots(t) : v.status \in TerminalStatus

\* The transactions about which the properties speak: not those hit by one of
\* the events named in RelaySubmission, nor those whose send failed, of which
\* the rollback says failed without having asked anyone.
Unexcepted == {t \in Tx \ exposed : req[t] # "rejected"}

\* One request, one transaction, one outcome: when anything a client may be told
\* calls t mined, confirmed or failed, then t has one relayer transaction, the
\* one the row names; the outcome is the outcome of that transaction, and the
\* hash that comes with confirmed is its hash; and nothing is under way that
\* could add another.  (So a client that was told failed can send its request
\* again: nothing of the first one can still be confirmed.)
OutcomeIsOfTheOneTransaction ==
    \A t \in Unexcepted : \A v \in Status!Snapshots(t) :
        v.status \in TerminalStatus =>
            /\ RelayerTxs(t) = {db[t].ozId}
            /\ <<db[t].ozId, v.status>> \in events
            /\ v.status \in Final => chain[db[t].ozId] = v.status
            /\ v.status = "confirmed" => v.hash = db[t].ozId
            /\ Quiet(t)

\* Once an outcome is told of it, no redelivery, restart or late POST has a
\* transaction relayed again.
NothingRelayedAfterAnOutcome ==
    [][\A t \in Unexcepted : Told(t) => RelayerTxs(t)' = RelayerTxs(t)]_serviceVars

=============================================================================
