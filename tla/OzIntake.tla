------------------------------ MODULE OzIntake ------------------------------
(***************************************************************************)
(* POST /api/v1/relayers/{id}/transactions of the OZ Relayer instances, as *)
(* queue-consumer uses it.  A request on the wire is accepted (a relayer   *)
(* transaction now exists and will be sent to the chain) or lost (refused, *)
(* timed out before it was read, unknown relayer id); the client learns    *)
(* which only if the answer reaches it.                                    *)
(***************************************************************************)
EXTENDS TransactionStore

VARIABLES
    post,   \* what became of the POST of each delivery's handler
    home    \* the relayer each POST went to

PostState == {"none", "wire", "accepted", "lost"}

IntakeTypeOK == /\ post \in [Delivery -> PostState]
                /\ home \in [Delivery -> Relayer \cup {None}]

IntakeInit == /\ post = [d \in Delivery |-> "none"]
              /\ home = [d \in Delivery |-> None]

\* The relayer transactions that exist for t.
RelayerTxs(t) == {d \in Delivery : TxOf(d) = t /\ post[d] = "accepted"}

\* Those that exist or may still come into existence.
Submissions(t) ==
    {d \in Delivery : TxOf(d) = t /\ post[d] \in {"wire", "accepted"}}

\* The client writes the request to relayer r.
PutOnWire(d, r) ==
    /\ post' = [post EXCEPT ![d] = "wire"]
    /\ home' = [home EXCEPT ![d] = r]

\* The relayer stores the transaction and queues it for the chain.
RelayerAccepts(d) ==
    /\ post[d] = "wire"
    /\ post' = [post EXCEPT ![d] = "accepted"]
    /\ UNCHANGED home

\* The request never becomes a relayer transaction.
RelayerLoses(d) ==
    /\ post[d] = "wire"
    /\ post' = [post EXCEPT ![d] = "lost"]
    /\ UNCHANGED home

=============================================================================
