--------------------------- MODULE Execution_proofs ---------------------------
(***************************************************************************)
(* Theorems about Execution, for any requests, signers and bounds, and for *)
(* any width of numbers.  All but the last use nothing of ParsedValue but  *)
(* that it is a function of the value.                                     *)
(***************************************************************************)
EXTENDS Execution, TLAPS

LEMMA SubmissionTx == \A d \in Submission : TxOf(d) \in Tx
  BY DEF Submission, TxOf

\* A gasless request has all of its fields.
LEMMA GaslessFields ==
  ASSUME TypeOK, NEW t \in Tx, Gasless(t)
  PROVE  /\ ask[t].from \in Signer
         /\ ask[t].nonce \in 0..MaxNonce
         /\ ask[t].deadline \in 0..MaxTime
<1>1. ask[t] \in GaslessRequest
  BY DEF TypeOK, Request, DirectRequest, GaslessRequest, Gasless
<1>2. QED BY <1>1 DEF GaslessRequest

\* Every variable keeps the type that the handlers and the contract rely on.
LEMMA TypeStep ==
  ASSUME TypeOK, [Next]_vars
  PROVE  TypeOK'
<1> USE ExecutionAssumption DEF TypeOK
<1>1. CASE UNCHANGED vars BY <1>1 DEF vars
<1>2. ASSUME NEW t \in Tx, NEW p \in Step, Advance(t, p),
             UNCHANGED <<now, nonces, ask, chain>>
      PROVE  TypeOK'
  BY <1>2 DEF Advance
<1>3. ASSUME NEW t \in Tx,
             \/ AskDirect(t) \/ ValidateDeadline(t) \/ ValidateNonce(t)
             \/ ValidationFails(t) \/ Enqueue(t) \/ EnqueueFails(t)
      PROVE  TypeOK'
  <2>1. CASE AskDirect(t) BY <1>2, <2>1 DEF AskDirect, Step
  <2>2. CASE ValidateDeadline(t) BY <1>2, <2>2 DEF ValidateDeadline, Step
  <2>3. CASE ValidateNonce(t) BY <1>2, <2>3 DEF ValidateNonce, Step
  <2>4. CASE ValidationFails(t) BY <1>2, <2>4 DEF ValidationFails, Step
  <2>5. CASE Enqueue(t) BY <1>2, <2>5 DEF Enqueue, Step
  <2>6. CASE EnqueueFails(t) BY <1>2, <2>6 DEF EnqueueFails, Step
  <2>7. QED BY <1>3, <2>1, <2>2, <2>3, <2>4, <2>5, <2>6
<1>4. ASSUME NEW s \in Signer, UseNonce(s) PROVE nonces' \in [Signer -> 0..MaxNonce]
  BY <1>4 DEF UseNonce
<1>5. ASSUME NEW d \in Submission, Submit(d) \/ ExecuteDirect(d) PROVE TypeOK'
  BY <1>5 DEF Submit, ExecuteDirect, Fate
<1>6. ASSUME NEW d \in Submission, ExecuteGasless(d) PROVE TypeOK'
  <2>1. ask[TxOf(d)].from \in Signer
    BY <1>6, SubmissionTx, GaslessFields DEF ExecuteGasless, Gasless
  <2>2. nonces' \in [Signer -> 0..MaxNonce]
    BY <1>4, <1>6, <2>1 DEF ExecuteGasless
  <2>3. chain' \in [Submission -> Fate]
    <3>1. Verdicts(TxOf(d)) \subseteq Fate BY DEF Verdicts, Fate
    <3>2. QED BY <1>6, <3>1 DEF ExecuteGasless
  <2>4. QED BY <1>6, <2>2, <2>3 DEF ExecuteGasless
<1>7. ASSUME NEW s \in Signer, SignerActsElsewhere(s) PROVE TypeOK'
  BY <1>4, <1>7 DEF SignerActsElsewhere
<1>8. CASE Tick BY <1>8 DEF Tick
<1>9. QED BY <1>1, <1>3, <1>5, <1>6, <1>7, <1>8 DEF Next

THEOREM TypeCorrect == Spec => []TypeOK
<1>1. Init => TypeOK BY ExecutionAssumption DEF Init, TypeOK, Step, Fate
<1>2. TypeOK /\ [Next]_vars => TypeOK' BY TypeStep
<1>3. QED BY <1>1, <1>2, PTL DEF Spec

-----------------------------------------------------------------------------
(* The two clocks of the model, time and nonces, never go back.              *)

LEMMA Monotone ==
  ASSUME TypeOK, [Next]_vars
  PROVE  /\ ask' = ask
         /\ now' >= now
         /\ \A s \in Signer : nonces'[s] >= nonces[s]
<1> USE ExecutionAssumption DEF TypeOK
<1>1. ask' = ask
  BY DEF Next, vars, AskDirect, ValidateDeadline, ValidateNonce, ValidationFails,
         Enqueue, EnqueueFails, Submit, ExecuteDirect, ExecuteGasless,
         SignerActsElsewhere, Tick
<1>2. now' = now \/ now' = now + 1
  BY DEF Next, vars, AskDirect, ValidateDeadline, ValidateNonce, ValidationFails,
         Enqueue, EnqueueFails, Submit, ExecuteDirect, ExecuteGasless,
         SignerActsElsewhere, Tick
<1>3. nonces' = nonces \/ \E s \in Signer : UseNonce(s)
  <2>1. ASSUME NEW d \in Submission, ExecuteGasless(d)
        PROVE  nonces' = nonces \/ \E s \in Signer : UseNonce(s)
    BY <2>1, SubmissionTx, GaslessFields DEF ExecuteGasless, Gasless
  <2>2. QED
    BY <2>1 DEF Next, vars, AskDirect, ValidateDeadline, ValidateNonce, ValidationFails,
           Enqueue, EnqueueFails, Submit, ExecuteDirect, SignerActsElsewhere, Tick
<1>4. QED BY <1>1, <1>2, <1>3 DEF UseNonce

-----------------------------------------------------------------------------
(* The inductive invariant, one conjunct at a time.                          *)

LEMMA AheadStep ==
  ASSUME TypeOK, NeverAheadOfSigner, [Next]_vars
  PROVE  NeverAheadOfSigner'
<1> SUFFICES ASSUME NEW t \in Tx, Gasless(t)', step'[t] \in {"checked", "queued"}
             PROVE  ask'[t].nonce <= nonces'[ask'[t].from]
  BY DEF NeverAheadOfSigner
<1>1. /\ ask' = ask /\ Gasless(t) /\ ask[t].from \in Signer
      /\ nonces'[ask[t].from] >= nonces[ask[t].from]
  BY Monotone, GaslessFields DEF Gasless
<1>2. ask[t].nonce \in Nat /\ nonces[ask[t].from] \in Nat /\ nonces'[ask[t].from] \in Nat
  BY <1>1, TypeStep, GaslessFields, ExecutionAssumption DEF TypeOK
<1>3. CASE step[t] \in {"checked", "queued"}
  BY <1>1, <1>2, <1>3 DEF NeverAheadOfSigner
<1>4. CASE step[t] \notin {"checked", "queued"}
  <2>1. ValidateNonce(t)
    <3>1. ASSUME NEW u \in Tx, NEW p \in {"unchecked", "refused", "queued"},
                 p = "queued" => step[u] = "checked", Advance(u, p)
          PROVE  FALSE
      BY <1>4, <3>1 DEF Advance, TypeOK
    <3>2. ~AskDirect(t)
      BY <1>1 DEF AskDirect, Gasless
    <3>3. QED
      BY <1>4, <3>1, <3>2 DEF Next, vars, AskDirect, ValidateDeadline, ValidateNonce,
             ValidationFails, Enqueue, EnqueueFails, Submit, ExecuteDirect,
             ExecuteGasless, SignerActsElsewhere, Tick, Advance, TypeOK
  <2>2. PICK expected \in 0..nonces[ask[t].from] :
            Advance(t, IF NonceMatches(t, expected) THEN "checked" ELSE "refused")
    BY <2>1 DEF ValidateNonce
  <2>3. NonceMatches(t, expected)
    BY <2>2 DEF Advance, TypeOK
  <2>4. QED BY <1>1, <1>2, <2>3 DEF NonceMatches
<1>5. QED BY <1>3, <1>4

\* How a submission changes: it appears when its request is queued, or the chain
\* decides on it.
LEMMA ChainStep ==
  ASSUME TypeOK, [Next]_vars, NEW d \in Submission, chain'[d] # chain[d]
  PROVE  \/ Submit(d) /\ chain'[d] = "pending" /\ step[TxOf(d)] = "queued"
         \/ chain[d] = "pending" /\ (ExecuteDirect(d) \/ ExecuteGasless(d))
BY DEF TypeOK, Next, vars, AskDirect, ValidateDeadline, ValidateNonce,
       ValidationFails, Enqueue, EnqueueFails, Submit, ExecuteDirect,
       ExecuteGasless, SignerActsElsewhere, Tick

LEMMA QueuedStays ==
  ASSUME TypeOK, [Next]_vars, NEW t \in Tx, step[t] = "queued"
  PROVE  step'[t] = "queued"
BY DEF TypeOK, Next, vars, AskDirect, ValidateDeadline, ValidateNonce,
       ValidationFails, Enqueue, EnqueueFails, Submit, ExecuteDirect,
       ExecuteGasless, SignerActsElsewhere, Tick, Advance

LEMMA QueuedStep ==
  ASSUME TypeOK, OnlyQueuedSubmitted, [Next]_vars
  PROVE  OnlyQueuedSubmitted'
<1> SUFFICES ASSUME NEW d \in Submission, chain'[d] # "none"
             PROVE  step'[TxOf(d)] = "queued"
  BY DEF OnlyQueuedSubmitted
<1>1. step[TxOf(d)] = "queued"
  BY ChainStep DEF OnlyQueuedSubmitted
<1>2. QED BY <1>1, QueuedStays, SubmissionTx

LEMMA RejectedStep ==
  ASSUME TypeOK, NeverAheadOfSigner, OnlyQueuedSubmitted, RejectedForGood,
         [Next]_vars
  PROVE  RejectedForGood'
<1> SUFFICES ASSUME NEW d \in Submission,
                    ask'[TxOf(d)].type = "gasless", chain'[d] = "rejected"
             PROVE  \/ nonces'[ask'[TxOf(d)].from] > ask'[TxOf(d)].nonce
                    \/ now' > ask'[TxOf(d)].deadline
                    \/ ParsedValue(ask'[TxOf(d)].value) # ask'[TxOf(d)].value
  BY DEF RejectedForGood, Paid
<1> DEFINE t == TxOf(d)
           a == ask[t]
<1>1. /\ ask' = ask /\ a.type = "gasless" /\ t \in Tx /\ a.from \in Signer
      /\ nonces'[a.from] >= nonces[a.from] /\ now' >= now
  BY Monotone, SubmissionTx, GaslessFields DEF Gasless
<1>2. /\ a.nonce \in Nat /\ a.deadline \in Nat
      /\ nonces[a.from] \in Nat /\ nonces'[a.from] \in Nat
      /\ now \in Nat /\ now' \in Nat
  BY <1>1, TypeStep, GaslessFields, ExecutionAssumption DEF TypeOK, Gasless
<1>3. CASE chain[d] = "rejected"
  BY <1>1, <1>2, <1>3 DEF RejectedForGood, Paid
<1>4. CASE chain[d] # "rejected"
  <2>1. ExecuteGasless(d) /\ chain[d] # "none"
    BY <1>1, <1>4, ChainStep DEF ExecuteDirect
  <2>2. "rejected" \in Verdicts(t)
    BY <2>1 DEF ExecuteGasless, TypeOK
  <2>3. a.nonce <= nonces[a.from]
    BY <1>1, <2>1 DEF NeverAheadOfSigner, OnlyQueuedSubmitted, Gasless
  <2>4. nonces[a.from] > a.nonce \/ now > a.deadline \/ ParsedValue(a.value) # a.value
    BY <1>2, <2>2, <2>3 DEF Verdicts, CalldataValue, StillValid, Paid
  <2>5. QED BY <1>1, <1>2, <2>4
<1>5. QED BY <1>3, <1>4

\* TypeOK and IInv hold of every reachable state.
LEMMA Invariant == Spec => [](TypeOK /\ IInv)
<1>1. Init => TypeOK /\ IInv
  <2>1. Init => TypeOK
    BY ExecutionAssumption DEF Init, TypeOK, Step, Fate
  <2>2. ASSUME Init PROVE IInv
    BY <2>2, SubmissionTx DEF Init, IInv, NeverAheadOfSigner, OnlyQueuedSubmitted,
           RejectedForGood
  <2>3. QED BY <2>1, <2>2
<1>2. TypeOK /\ IInv /\ [Next]_vars => TypeOK' /\ IInv'
  BY TypeStep, AheadStep, QueuedStep, RejectedStep DEF IInv
<1>3. QED BY <1>1, <1>2, PTL DEF Spec

-----------------------------------------------------------------------------

\* Delivery order does not matter to gasless requests: none of them is ever
\* queued ahead of its signer's nonce.
THEOREM NeverAhead == Spec => []NeverAheadOfSigner
<1>1. IInv => NeverAheadOfSigner BY DEF IInv
<1>2. QED BY <1>1, Invariant, PTL

\* What the Forwarder itself finds fault with once it never executes, however often
\* it is submitted.
THEOREM RejectedIsFinal == Spec => RejectionIsFinal
<1>1. ASSUME TypeOK, IInv, [Next]_vars,
             NEW d \in Submission, Gasless(TxOf(d)), chain[d] = "rejected"
      PROVE  Executed(TxOf(d))' = Executed(TxOf(d))
  <2> DEFINE t == TxOf(d)
             a == ask[t]
  <2>1. /\ t \in Tx /\ a.nonce \in Nat /\ a.deadline \in Nat /\ now \in Nat
        /\ nonces[a.from] \in Nat
    <3>1. t \in Tx BY SubmissionTx
    <3>2. a.from \in Signer /\ a.nonce \in 0..MaxNonce /\ a.deadline \in 0..MaxTime
      BY <1>1, <3>1, GaslessFields
    <3>3. QED BY <1>1, <3>1, <3>2, ExecutionAssumption DEF TypeOK
  <2>2. "executed" \notin Verdicts(t)
    BY <1>1, <2>1 DEF IInv, RejectedForGood, Verdicts, CalldataValue, StillValid, Gasless
  <2>3. ASSUME NEW e \in Submission, TxOf(e) = t
        PROVE  chain'[e] = "executed" <=> chain[e] = "executed"
    <3>1. CASE chain'[e] = chain[e] BY <3>1
    <3>2. CASE chain'[e] # chain[e]
      <4>1. CASE chain'[e] = "pending" /\ Submit(e)
        BY <4>1 DEF Submit
      <4>2. CASE ExecuteGasless(e) /\ chain[e] = "pending"
        <5>1. PICK fate \in Verdicts(TxOf(e)) : chain' = [chain EXCEPT ![e] = fate]
          BY <4>2 DEF ExecuteGasless
        <5>2. fate # "executed" BY <2>2, <2>3, <5>1
        <5>3. QED BY <1>1, <4>2, <5>1, <5>2 DEF TypeOK
      <4>3. QED BY <1>1, <2>3, <3>2, <4>1, <4>2, ChainStep DEF ExecuteDirect, Gasless
    <3>3. QED BY <3>1, <3>2
  <2>4. QED BY <2>3 DEF Executed
<1>2. TypeOK /\ IInv /\ [Next]_vars =>
        [\A d \in Submission : Gasless(TxOf(d)) /\ chain[d] = "rejected"
            => Executed(TxOf(d))' = Executed(TxOf(d))]_vars
  BY <1>1
<1>3. QED BY <1>2, Invariant, PTL DEF Spec, RejectionIsFinal

\* parseInt leaves a number alone that fits the significand.
LEMMA SmallIsExact ==
  ASSUME NEW v \in Nat, v < 2^Precision
  PROVE  ParsedValue(v) = v
<1> DEFINE Fits(k) == /\ v < 2^(Precision + k)
                      /\ \A j \in 0..v : v < 2^(Precision + j) => k <= j
           e == CHOOSE k \in 0..v : Fits(k)
<1>1. 0 \in 0..v /\ Fits(0)
  <2>1. Precision + 0 = Precision BY ExecutionAssumption
  <2>2. QED BY <2>1
<1>2. \A k \in 0..v : Fits(k) => k = 0 BY <1>1
<1>3. e = 0
  <2>1. e \in 0..v /\ Fits(e) BY <1>1
  <2>2. QED BY <1>2, <2>1
<1>4. 2^e = 1
  <2> HIDE DEF e
  <2>1. 2^0 = 1 OBVIOUS
  <2>2. QED BY <1>3, <2>1
<1> DEFINE q == v \div 2^e
           r == v % 2^e
<1>5. q = v /\ r = 0 BY <1>4
<1>6. ~(2 * r > 2^e \/ (2 * r = 2^e /\ q % 2 = 1)) BY <1>4, <1>5
<1>7. ParsedValue(v) = q * 2^e BY <1>6 DEF ParsedValue
<1>8. QED BY <1>4, <1>5, <1>7

\* Amounts that a JavaScript number holds exactly are paid as asked, and no
\* gasless request is rejected for them.
THEOREM SmallValuesAreKept == Spec => []SmallValuesArrive
<1>1. ASSUME TypeOK, IInv, NEW d \in Submission, ask[TxOf(d)].value < 2^Precision
      PROVE  ValueArrives(d)
  <2>1. ask[TxOf(d)].value \in Nat
    <3>1. ask[TxOf(d)] \in Request BY <1>1, SubmissionTx DEF TypeOK
    <3>2. QED
      BY <3>1, ExecutionAssumption DEF Request, DirectRequest, GaslessRequest
  <2>2. Paid(TxOf(d)) = ask[TxOf(d)].value
    BY <1>1, <2>1, SmallIsExact DEF Paid
  <2>3. QED BY <1>1, <2>2 DEF ValueArrives, IInv, RejectedForGood
<1>2. TypeOK /\ IInv => SmallValuesArrive BY <1>1 DEF SmallValuesArrive
<1>3. QED BY <1>2, Invariant, PTL

=============================================================================
