---------------------------- MODULE RequestCustody ----------------------------
(***************************************************************************)
(* What relay-api promises with a 202, without queue, rows or handlers:    *)
(* somebody has custody of every request it said yes to.  The queue has it *)
(* until a relayer does, or an operator who reads the dead-letter queue; a *)
(* request may be dropped only when its client was told no.  Custody that  *)
(* a relayer has taken, and that the row records, is never given back.     *)
(***************************************************************************)
CONSTANT Tx

VARIABLES custody,   \* who has to act next on each request
          answer     \* what its client was told

Custody == {"client", "api", "queue", "relayer", "dlq", "nobody"}

Init == /\ custody = [t \in Tx |-> "client"]
        /\ answer = [t \in Tx |-> "none"]

Pass(t, from, to) ==
    /\ custody[t] \in from
    /\ custody' = [custody EXCEPT ![t] = to]

\* The row is created; the client may be told no all the same.
Register(t) == /\ Pass(t, {"client"}, "api")
               /\ answer[t] = "none"
               /\ answer' \in {answer, [answer EXCEPT ![t] = "no"]}

Deny(t) == /\ answer[t] = "none"
           /\ answer' = [answer EXCEPT ![t] = "no"]
           /\ UNCHANGED custody

Promise(t) == /\ answer[t] = "none"
              /\ custody[t] \in {"queue", "relayer", "dlq"}
              /\ answer' = [answer EXCEPT ![t] = "yes"]
              /\ UNCHANGED custody

\* A denied request may still reach the queue: its send had been stored.
HandToQueue(t) == /\ Pass(t, {"api"}, "queue")
                  /\ answer[t] # "yes"
                  /\ UNCHANGED answer

HandToRelayer(t) == /\ Pass(t, {"queue", "dlq", "nobody"}, "relayer")
                    /\ UNCHANGED answer

DeadLetter(t) == Pass(t, {"queue"}, "dlq") /\ UNCHANGED answer

Drop(t) == /\ Pass(t, {"queue"}, "nobody")
           /\ answer[t] = "no"
           /\ UNCHANGED answer

Next == \E t \in Tx : \/ Register(t) \/ Deny(t) \/ Promise(t)
                      \/ HandToQueue(t) \/ HandToRelayer(t)
                      \/ DeadLetter(t) \/ Drop(t)

Spec == Init /\ [][Next]_<<custody, answer>>

-----------------------------------------------------------------------------
(* What a client gains by it.                                                *)

\* A yes means that queue, relayer or operator have the request.
YesIsKept ==
    \A t \in Tx : answer[t] = "yes" => custody[t] \in {"queue", "relayer", "dlq"}

\* An answer is not taken back, nor is a request from the relayer that has it.
NothingIsTakenBack ==
    [][\A t \in Tx : /\ answer[t] # "none" => answer'[t] = answer[t]
                     /\ custody[t] = "relayer" => custody'[t] = "relayer"
      ]_<<custody, answer>>

=============================================================================
