------------------------- MODULE RequestCustody_proofs -------------------------
(***************************************************************************)
(* The custody contract gives a client what the 202 is taken for.          *)
(***************************************************************************)
EXTENDS RequestCustody, TLAPS

TypeOK == /\ custody \in [Tx -> Custody]
          /\ answer \in [Tx -> {"none", "yes", "no"}]

LEMMA PassType ==
  ASSUME TypeOK, NEW t \in Tx, NEW from, NEW to \in Custody, Pass(t, from, to)
  PROVE  /\ custody' \in [Tx -> Custody]
         /\ custody[t] \in from /\ custody'[t] = to
         /\ \A u \in Tx \ {t} : custody'[u] = custody[u]
  BY DEF TypeOK, Pass

\* What a step does to one request, and that it leaves the others alone.
LEMMA StepOfOne ==
  ASSUME TypeOK, YesIsKept, NEW t \in Tx,
         \/ Register(t) \/ Deny(t) \/ Promise(t) \/ HandToQueue(t)
         \/ HandToRelayer(t) \/ DeadLetter(t) \/ Drop(t)
  PROVE  /\ TypeOK'
         /\ \A u \in Tx \ {t} : custody'[u] = custody[u] /\ answer'[u] = answer[u]
         /\ answer'[t] = "yes" => custody'[t] \in {"queue", "relayer", "dlq"}
         /\ answer[t] # "none" => answer'[t] = answer[t]
         /\ custody[t] = "relayer" => custody'[t] = "relayer"
<1> USE DEF TypeOK, YesIsKept, Custody
<1>1. CASE Deny(t) BY <1>1 DEF Deny
<1>2. CASE Promise(t) BY <1>2 DEF Promise
<1>3. CASE Register(t) BY <1>3, PassType DEF Register
<1>4. CASE HandToQueue(t) BY <1>4, PassType DEF HandToQueue
<1>5. CASE HandToRelayer(t) BY <1>5, PassType DEF HandToRelayer
<1>6. CASE DeadLetter(t) BY <1>6, PassType DEF DeadLetter
<1>7. CASE Drop(t) BY <1>7, PassType DEF Drop
<1>8. QED BY <1>1, <1>2, <1>3, <1>4, <1>5, <1>6, <1>7

LEMMA Kept == Spec => [](TypeOK /\ YesIsKept)
<1>1. Init => TypeOK /\ YesIsKept BY DEF Init, TypeOK, YesIsKept, Custody
<1>2. TypeOK /\ YesIsKept /\ [Next]_<<custody, answer>> => (TypeOK /\ YesIsKept)'
  <2> SUFFICES ASSUME TypeOK, YesIsKept, [Next]_<<custody, answer>>
               PROVE  TypeOK' /\ YesIsKept'
    OBVIOUS
  <2>1. CASE Next BY <2>1, StepOfOne DEF Next, YesIsKept
  <2>2. CASE UNCHANGED <<custody, answer>> BY <2>2 DEF TypeOK, YesIsKept
  <2>3. QED BY <2>1, <2>2
<1>3. QED BY <1>1, <1>2, PTL DEF Spec

\* Whoever was told yes has its request with the queue, a relayer, or in the
\* dead-letter queue.
THEOREM YesIsHonoured == Spec => []YesIsKept
  BY Kept, PTL

\* Answers are final, and so is the relayer's custody.
THEOREM TakesNothingBack == Spec => NothingIsTakenBack
<1> DEFINE KeptOf(t) == /\ answer[t] # "none" => answer'[t] = answer[t]
                        /\ custody[t] = "relayer" => custody'[t] = "relayer"
<1>1. TypeOK /\ YesIsKept /\ [Next]_<<custody, answer>> =>
        [\A t \in Tx : KeptOf(t)]_<<custody, answer>>
  <2> SUFFICES ASSUME TypeOK, YesIsKept, Next, NEW t \in Tx PROVE KeptOf(t)
    OBVIOUS
  <2>1. PICK u \in Tx : \/ Register(u) \/ Deny(u) \/ Promise(u) \/ HandToQueue(u)
                        \/ HandToRelayer(u) \/ DeadLetter(u) \/ Drop(u)
    BY DEF Next
  <2>2. QED BY <2>1, StepOfOne
<1>2. QED BY <1>1, Kept, PTL DEF Spec, NothingIsTakenBack

=============================================================================
