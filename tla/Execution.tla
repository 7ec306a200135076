------------------------------ MODULE Execution ------------------------------
(***************************************************************************)
(* What a queued request does on the chain: GaslessService's checks of a   *)
(* signed request against the Forwarder contract, OzRelayerClient's        *)
(* translation of the request into a relayer transaction, and the contract *)
(* that executes it.                                                       *)
(*                                                                         *)
(* Everything between the queue and the relayers is reduced to its effect: *)
(* a queued request is submitted at any time, in any order with others,    *)
(* and up to MaxSubmit times (RelaySubmission shows when more than once).  *)
(***************************************************************************)
EXTENDS Naturals

CONSTANTS
    Tx,          \* relay requests
    Signer,      \* the accounts that sign gasless requests
    MaxSubmit,   \* how often one request can be submitted
    MaxNonce, MaxTime, MaxValue,     \* bounds of the instance
    Precision    \* bits of the significand of a JavaScript number

ASSUME ExecutionAssumption ==
    /\ MaxSubmit \in Nat /\ MaxNonce \in Nat /\ MaxTime \in Nat
    /\ MaxValue \in Nat /\ Precision \in Nat \ {0}

Submission == Tx \X (1..MaxSubmit)

TxOf(d) == d[1]

\* Of a direct request only the value matters here.  A gasless one carries the
\* signature of its signer over the rest of it.
DirectRequest == [type : {"direct"}, value : 0..MaxValue]

GaslessRequest == [type : {"gasless"}, from : Signer, nonce : 0..MaxNonce,
                   deadline : 0..MaxTime, value : 0..MaxValue]

Request == DirectRequest \cup GaslessRequest

VARIABLES
    now,      \* the time, for relay-api and for the chain
    nonces,   \* Forwarder.nonces: the next nonce of each signer
    ask,      \* the requests clients make
    step,     \* how far each got in relay-api
    chain     \* what became of each submission

vars == <<now, nonces, ask, step, chain>>

\* "unchecked": the deadline is in order; "checked": so are nonce and signature.
Step == {"new", "unchecked", "checked", "queued", "refused"}

\* "rejected": the Forwarder itself finds fault with the request; "untrusted": the
\* target does not trust the Forwarder; "reverted": the forwarded call fails.
Fate == {"none", "pending", "executed", "rejected", "untrusted", "reverted"}

TypeOK ==
    /\ now \in 0..MaxTime
    /\ nonces \in [Signer -> 0..MaxNonce]
    /\ ask \in [Tx -> Request]
    /\ step \in [Tx -> Step]
    /\ chain \in [Submission -> Fate]

Init ==
    /\ now = 0
    /\ nonces = [s \in Signer |-> 0]
    /\ ask \in [Tx -> Request]
    /\ step = [t \in Tx |-> "new"]
    /\ chain = [d \in Submission |-> "none"]

Advance(t, to) == step' = [step EXCEPT ![t] = to]

-----------------------------------------------------------------------------
(* GaslessService.sendGaslessTransaction, DirectService.sendTransaction.     *)

\* A direct request goes straight to QueueService.
AskDirect(t) ==
    /\ step[t] = "new"
    /\ ask[t].type = "direct"
    /\ Advance(t, "checked")
    /\ UNCHANGED <<now, nonces, ask, chain>>

\* validateDeadline: it may be this very second.
ValidateDeadline(t) ==
    /\ step[t] = "new"
    /\ ask[t].type = "gasless"
    /\ Advance(t, IF now <= ask[t].deadline THEN "unchecked" ELSE "refused")
    /\ UNCHANGED <<now, nonces, ask, chain>>

\* (A mutation of NonceMatches: later nonces are let through as well.)
NonceNotUsed(t, expected) == ask[t].nonce >= expected

\* validateNonceMatch.
NonceMatches(t, expected) == ask[t].nonce = expected

\* getNonceFromForwarder, from a node that may lag behind the chain; then, in
\* one go, the comparison and the signature, which is in order.
ValidateNonce(t) ==
    /\ step[t] = "unchecked"
    /\ \E expected \in 0..nonces[ask[t].from] :
           Advance(t, IF NonceMatches(t, expected) THEN "checked" ELSE "refused")
    /\ UNCHANGED <<now, nonces, ask, chain>>

\* The node does not answer (503), or the signature is wrong (401).
ValidationFails(t) ==
    /\ step[t] = "unchecked"
    /\ Advance(t, "refused")
    /\ UNCHANGED <<now, nonces, ask, chain>>

\* QueueService stores the message; whatever it answers, it can be delivered.
Enqueue(t) ==
    /\ step[t] = "checked"
    /\ Advance(t, "queued")
    /\ UNCHANGED <<now, nonces, ask, chain>>

\* QueueService answers 503, without a message.
EnqueueFails(t) ==
    /\ step[t] = "checked"
    /\ Advance(t, "refused")
    /\ UNCHANGED <<now, nonces, ask, chain>>

-----------------------------------------------------------------------------
(* sendDirectTransactionAsync, sendGaslessTransactionAsync.                  *)

\* (A mutation of ParsedValue: by way of a signed integer of Precision bits.)
ParsedSigned(v) == v % 2^(Precision - 1)

\* parseInt(value): the number nearest to the value among those with a
\* significand of Precision bits, on a tie the one with the even significand.
ParsedValue(v) ==
    LET e == CHOOSE k \in 0..v : /\ v < 2^(Precision + k)
                                 /\ \A j \in 0..v : v < 2^(Precision + j) => k <= j
        q == v \div 2^e
        r == v % 2^e
        up == 2 * r > 2^e \/ (2 * r = 2^e /\ q % 2 = 1)
    IN (IF up THEN q + 1 ELSE q) * 2^e

\* The wei the relayer transaction carries.
Paid(t) == ParsedValue(ask[t].value)

\* buildForwarderExecuteCalldata: BigInt(value), exactly what was signed.
CalldataValue(t) == ask[t].value

\* The relayer accepts the transaction.
Submit(d) ==
    /\ step[TxOf(d)] = "queued"
    /\ chain[d] = "none"
    /\ chain' = [chain EXCEPT ![d] = "pending"]
    /\ UNCHANGED <<now, nonces, ask, step>>

-----------------------------------------------------------------------------
(* The chain.                                                                *)

\* The signature is over the signer's next nonce, and the deadline not over.
\* calldata carries no nonce: the contract takes its own.
StillValid(t) == /\ nonces[ask[t].from] = ask[t].nonce
                 /\ now <= ask[t].deadline

\* Forwarder.execute, in its order: the value of the call is that of the calldata;
\* the target trusts the Forwarder; the request is still valid; the forwarded call
\* succeeds.  The target may decide otherwise each time.
Verdicts(t) ==
    IF Paid(t) # CalldataValue(t) THEN {"rejected"}
    ELSE {"untrusted"} \cup
         IF StillValid(t) THEN {"executed", "reverted"} ELSE {"rejected"}

\* Nonces._useNonce, undone with everything else when the transaction reverts.
UseNonce(s) == /\ nonces[s] < MaxNonce
               /\ nonces' = [nonces EXCEPT ![s] = @ + 1]

ExecuteDirect(d) ==
    /\ chain[d] = "pending"
    /\ ask[TxOf(d)].type = "direct"
    /\ \E fate \in {"executed", "reverted"} : chain' = [chain EXCEPT ![d] = fate]
    /\ UNCHANGED <<now, nonces, ask, step>>

ExecuteGasless(d) ==
    LET t == TxOf(d) IN
    /\ chain[d] = "pending"
    /\ ask[t].type = "gasless"
    /\ \E fate \in Verdicts(t) :
           /\ chain' = [chain EXCEPT ![d] = fate]
           /\ IF fate = "executed" THEN UseNonce(ask[t].from) ELSE UNCHANGED nonces
    /\ UNCHANGED <<now, ask, step>>

\* The signer has a request executed that did not come through this service.
SignerActsElsewhere(s) ==
    /\ UseNonce(s)
    /\ UNCHANGED <<now, ask, step, chain>>

Tick == /\ now < MaxTime
        /\ now' = now + 1
        /\ UNCHANGED <<nonces, ask, step, chain>>

-----------------------------------------------------------------------------

Next ==
    \/ \E t \in Tx : \/ AskDirect(t) \/ ValidateDeadline(t) \/ ValidateNonce(t)
                     \/ ValidationFails(t) \/ Enqueue(t) \/ EnqueueFails(t)
    \/ \E d \in Submission : Submit(d) \/ ExecuteDirect(d) \/ ExecuteGasless(d)
    \/ \E s \in Signer : SignerActsElsewhere(s)
    \/ Tick

Spec == Init /\ [][Next]_vars

-----------------------------------------------------------------------------
(* Properties.                                                               *)

Gasless(t) == ask[t].type = "gasless"

Executed(t) == {d \in Submission : TxOf(d) = t /\ chain[d] = "executed"}

\* However late and in whatever order a standard queue delivers them, gasless
\* requests never reach the chain ahead of their signer's nonce: the pre-check
\* lets through no request that would have to wait for another one.
NeverAheadOfSigner ==
    \A t \in Tx : Gasless(t) /\ step[t] \in {"checked", "queued"}
                    => ask[t].nonce <= nonces[ask[t].from]

\* So what the Forwarder itself rejects is rejected for good, and a second
\* submission of the request cannot execute it after all: it was late or of a
\* used nonce, never early.  (Not so where the decision is the target's: a
\* request that was reverted, or whose target did not trust the Forwarder, may
\* execute on a second submission.)
RejectionIsFinal ==
    [][\A d \in Submission : Gasless(TxOf(d)) /\ chain[d] = "rejected"
          => Executed(TxOf(d))' = Executed(TxOf(d))]_vars

\* What was asked, and signed, is what is paid: a direct request pays it, and the
\* Forwarder finds no fault with the amount of a gasless one: it rejects one only
\* if its nonce was used or its deadline is over.
ValueArrives(d) ==
    LET a == ask[TxOf(d)] IN
    /\ a.type = "direct" /\ chain[d] = "executed" => Paid(TxOf(d)) = a.value
    /\ a.type = "gasless" /\ chain[d] = "rejected" =>
          nonces[a.from] > a.nonce \/ now > a.deadline

\* Below 2^53 wei parseInt does no harm, rounding and retries included.
SmallValuesArrive ==
    \A d \in Submission : ask[TxOf(d)].value < 2^Precision => ValueArrives(d)

-----------------------------------------------------------------------------
(* The inductive invariant behind them.                                      *)

\* Only what passed the checks is on the chain.
OnlyQueuedSubmitted ==
    \A d \in Submission : chain[d] # "none" => step[TxOf(d)] = "queued"

\* What the Forwarder holds against a rejected request does not go away.
RejectedForGood ==
    \A d \in Submission :
        LET a == ask[TxOf(d)] IN
        a.type = "gasless" /\ chain[d] = "rejected" =>
            \/ nonces[a.from] > a.nonce
            \/ now > a.deadline
            \/ Paid(TxOf(d)) # a.value

IInv == /\ NeverAheadOfSigner
        /\ OnlyQueuedSubmitted
        /\ RejectedForGood

-----------------------------------------------------------------------------
(* Claims of the repository that the code does not keep.                     *)

\* direct-tx-request.dto.ts:41 and forward-request.dto.ts:42: value is the amount
\* "to send in wei", a decimal string as long as a uint256.
ValuesArrive == \A d \in Submission : ValueArrives(d)

=============================================================================
