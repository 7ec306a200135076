----------------------------- MODULE OzLifecycle -----------------------------
(***************************************************************************)
(* What becomes of an accepted relayer transaction: its status at the      *)
(* relayer, and the webhook event the relayer emits at every change.       *)
(*                                                                         *)
(* Emitted events stay in a set: each may reach relay-api late, in any     *)
(* order, several times (the relayer retries a webhook whose answer it did *)
(* not get) or never.                                                      *)
(***************************************************************************)
EXTENDS OzIntake

CONSTANT Reported      \* the statuses relayers report in this instance

ASSUME ReportedAssumption == {"pending"} \subseteq Reported /\ Reported \subseteq OzStatus

VARIABLES
    chain,     \* the status of each relayer transaction at its relayer
    events     \* the webhook events emitted so far

LifecycleTypeOK ==
    /\ chain \in [Delivery -> Reported \cup {"none"}]
    /\ events \subseteq Delivery \X Reported

LifecycleInit == /\ chain = [d \in Delivery |-> "none"]
                 /\ events = {}

\* The order in which the statuses come.
Stage == [none |-> 0, pending |-> 1, sent |-> 2, submitted |-> 3,
          inmempool |-> 4, mined |-> 5, confirmed |-> 6, failed |-> 6]

Final == {"confirmed", "failed"}

\* The relayer moves the transaction on, to any later status, and emits the
\* event.
RelayerProgress(d) ==
    /\ post[d] = "accepted"
    /\ \E s \in Reported : /\ Stage[chain[d]] < Stage[s]
                           /\ chain[d] = "none" => s = "pending"
                           /\ chain' = [chain EXCEPT ![d] = s]
                           /\ events' = events \cup {<<d, s>>}
    /\ UNCHANGED <<post, home>>

\* The status object of transaction d in status s, as webhooks and the status
\* endpoint give it: the hash is null while pending, confirmed_at is set once
\* confirmed.  The hash of a relayer transaction is named by the transaction.
View(d, s) == [status    |-> s,
               hash      |-> IF s = "pending" THEN None ELSE d,
               confirmed |-> s = "confirmed"]

\* GET .../transactions/{id}.
CurrentView(d) == View(d, IF chain[d] = "none" THEN "pending" ELSE chain[d])

=============================================================================
