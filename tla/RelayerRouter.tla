---------------------------- MODULE RelayerRouter ----------------------------
(***************************************************************************)
(* RelayerRouterService: which relayer a handler sends its transaction to. *)
(*                                                                         *)
(* Every handler of queue-consumer calls getAvailableRelayer on one shared *)
(* cache, and calls overlap as handlers do.  Time is counted in ticks; a   *)
(* health check is over within one (its 500 ms timeout) and a cache entry  *)
(* serves for TTL of them (10 s).                                          *)
(***************************************************************************)
EXTENDS Naturals, Sequences

CONSTANTS
    Urls,         \* the configured relayers, in their order
    Call,         \* calls of getAvailableRelayer that can overlap
    TTL,          \* CACHE_TTL_MS, in ticks
    Reports,      \* what each relayer can have a health check find
    None          \* no entry, not yet known

ASSUME RouterAssumption ==
    /\ Len(Urls) \in Nat \ {0} /\ DOMAIN Urls = 1..Len(Urls)
    /\ \A i, j \in DOMAIN Urls : Urls[i] = Urls[j] => i = j
    /\ TTL \in Nat \ {0}

Relayer == {Urls[i] : i \in DOMAIN Urls}

\* What the router keeps of a health check: a relayer that answers in time and
\* is not paused is healthy; another one has no count.
Info == [healthy : {TRUE}, pending : Nat] \cup [healthy : {FALSE}]

ASSUME ReportsAssumption ==
    /\ DOMAIN Reports = Relayer
    /\ \A r \in Relayer : Reports[r] \subseteq Info

VARIABLES
    relayer,   \* what a health check of each relayer would find
    since,     \* auxiliary: ticks since that last changed (capped)
    turned,    \* auxiliary: ticks since its health did, whatever its load (capped)
    cache,     \* relayerCache
    rr,        \* roundRobinIndex, from 1
    call       \* the calls under way

vars == <<relayer, since, turned, cache, rr, call>>

Horizon == TTL + 1         \* where since and turned stop counting

TypeOK ==
    /\ relayer \in [Relayer -> Info]
    /\ since \in [Relayer -> 0..Horizon] /\ turned \in [Relayer -> 0..Horizon]
    /\ cache \in [Relayer -> [info : Info, age : 0..TTL] \cup {None}]
    /\ rr \in 1..Len(Urls)
    /\ call \in [Call ->
           [pc : {"idle", "gathering", "fallback"},
            age : 0..1,           \* ticks since its checks began
            got : [Relayer -> [info : Info, settled : BOOLEAN] \cup {None}]]]

NoCall == [pc |-> "idle", age |-> 0, got |-> [r \in Relayer |-> None]]

Init ==
    /\ relayer \in {f \in [Relayer -> UNION {Reports[r] : r \in Relayer}] :
                      \A r \in Relayer : f[r] \in Reports[r]}
    /\ since = [r \in Relayer |-> 0] /\ turned = [r \in Relayer |-> 0]
    /\ cache = [r \in Relayer |-> None]
    /\ rr = 1
    /\ call = [h \in Call |-> NoCall]

-----------------------------------------------------------------------------
(* The relayers and the clock.                                               *)

\* A check of r would find it healthy: it answers in time and is not paused.
Well(r) == relayer[r].healthy

\* A relayer goes down, is paused, comes back, or has another number of pending
\* transactions.
RelayerChanges(r) ==
    \E c \in Reports[r] \ {relayer[r]} :
        /\ relayer' = [relayer EXCEPT ![r] = c]
        /\ since' = [since EXCEPT ![r] = 0]
        /\ turned' = [turned EXCEPT ![r] = IF c.healthy = Well(r) THEN @ ELSE 0]
        /\ UNCHANGED <<cache, rr, call>>

Checking(h) == call[h].pc \in {"gathering", "fallback"}

Later(n) == IF n = Horizon THEN Horizon ELSE n + 1

\* A health check does not last longer than a tick.
Tick ==
    /\ \A h \in Call : Checking(h) => call[h].age = 0
    /\ since' = [r \in Relayer |-> Later(since[r])]
    /\ turned' = [r \in Relayer |-> Later(turned[r])]
    /\ cache' = [r \in Relayer |->
                    IF cache[r] = None \/ cache[r].age = TTL THEN cache[r]
                    ELSE [cache[r] EXCEPT !.age = @ + 1]]
    /\ call' = [h \in Call |-> IF Checking(h) THEN [call[h] EXCEPT !.age = 1]
                               ELSE call[h]]
    /\ UNCHANGED <<relayer, rr>>

-----------------------------------------------------------------------------
(* getAvailableRelayer.                                                      *)

\* (A mutation of Valid: a relayer found ill is not asked again.)
ValidOrIll(r) == cache[r] # None /\ (cache[r].age < TTL \/ ~cache[r].info.healthy)

\* getRelayerInfo: the entry is younger than CACHE_TTL_MS.
Valid(r) == cache[r] # None /\ cache[r].age < TTL

\* Promise.all: cached entries answer at once, the other relayers are asked.
GetAvailableRelayer(h) ==
    /\ call[h].pc = "idle"
    /\ call' = [call EXCEPT ![h] =
           [NoCall EXCEPT !.pc = "gathering",
                          !.got = [r \in Relayer |->
                              IF Valid(r)
                              THEN [info |-> cache[r].info, settled |-> TRUE]
                              ELSE None]]]
    /\ UNCHANGED <<relayer, since, turned, cache, rr>>

\* fetchRelayerInfo: r answers the check, or it is clear that it will not in time.
RelayerAnswers(h, r) ==
    /\ call[h].pc = "gathering"
    /\ call[h].got[r] = None
    /\ call' = [call EXCEPT ![h].got[r] = [info |-> relayer[r], settled |-> FALSE]]
    /\ UNCHANGED <<relayer, since, turned, cache, rr>>

\* (A mutation of CheckedFor: the entry is dated when it is stored.)
JustStored(h) == 0

\* lastChecked is read before the request leaves, and again never.
CheckedFor(h) == call[h].age

\* The check settles, perhaps after a later one: the entry is overwritten.
CheckSettles(h, r) ==
    /\ call[h].pc = "gathering"
    /\ call[h].got[r] # None /\ ~call[h].got[r].settled
    /\ call' = [call EXCEPT ![h].got[r].settled = TRUE]
    /\ cache' = [cache EXCEPT ![r] = [info |-> call[h].got[r].info,
                                      age |-> CheckedFor(h)]]
    /\ UNCHANGED <<relayer, since, turned, rr>>

Gathered(h) == /\ call[h].pc = "gathering"
               /\ \A r \in Relayer : call[h].got[r] # None /\ call[h].got[r].settled

Told(h, i) == call[h].got[Urls[i]].info

Healthy(h) == {i \in DOMAIN Urls : Told(h, i).healthy}

\* (A mutation of LeastBusy: the comparison of the reduce is turned round.)
MostBusy(h) ==
    CHOOSE i \in Healthy(h) : \A j \in Healthy(h) :
        \/ Told(h, i).pending > Told(h, j).pending
        \/ Told(h, i).pending = Told(h, j).pending /\ i <= j

\* The reduce over healthyRelayers: the first of the least busy.
LeastBusy(h) ==
    CHOOSE i \in Healthy(h) : \A j \in Healthy(h) :
        \/ Told(h, i).pending < Told(h, j).pending
        \/ Told(h, i).pending = Told(h, j).pending /\ i <= j

\* The call returns the selected relayer.
SelectLeastBusy(h) ==
    /\ Gathered(h) /\ Healthy(h) # {}
    /\ call' = [call EXCEPT ![h] = NoCall]
    /\ UNCHANGED <<relayer, since, turned, cache, rr>>

Selected(h) == Urls[LeastBusy(h)]

\* (A mutation of FallBack: the index is not wrapped.)
FallBackUnwrapped(h) ==
    /\ Gathered(h) /\ Healthy(h) = {}
    /\ rr' = rr + 1
    /\ call' = [call EXCEPT ![h] = [NoCall EXCEPT !.pc = "fallback"]]
    /\ UNCHANGED <<relayer, since, turned, cache>>

\* roundRobinFallback takes the next URL, whatever is known of it.
FallBack(h) ==
    /\ Gathered(h) /\ Healthy(h) = {}
    /\ rr' = (rr % Len(Urls)) + 1
    /\ call' = [call EXCEPT ![h] = [NoCall EXCEPT !.pc = "fallback"]]
    /\ UNCHANGED <<relayer, since, turned, cache>>

\* Its own check of that relayer brings the relayer's id, or leaves the guess
\* 'default-relayer'; it is not cached, and the call returns the URL either way.
FallbackChecked(h) ==
    /\ call[h].pc = "fallback"
    /\ call' = [call EXCEPT ![h] = NoCall]
    /\ UNCHANGED <<relayer, since, turned, cache, rr>>

-----------------------------------------------------------------------------

Next ==
    \/ Tick
    \/ \E r \in Relayer : RelayerChanges(r)
    \/ \E h \in Call : \/ GetAvailableRelayer(h)
                       \/ \E r \in Relayer : RelayerAnswers(h, r) \/ CheckSettles(h, r)
                       \/ SelectLeastBusy(h) \/ FallBack(h) \/ FallbackChecked(h)

Spec == Init /\ [][Next]_vars

-----------------------------------------------------------------------------
(* Properties.                                                               *)

\* Smart routing stops selecting a relayer that stays paused or down: however
\* calls overlap and whichever of their checks fills the cache last, the last
\* good check is forgotten TTL after it began, plus the tick a call may spend
\* waiting for the checks of other relayers.
LongIllNotSelected ==
    [][\A h \in Call : SelectLeastBusy(h) /\ ~Well(Selected(h)) =>
          turned[Selected(h)] <= TTL]_vars

\* And it comes back to smart routing as soon after a recovery, however its load
\* changes meanwhile: the router falls back to round robin only if no relayer has
\* been well for longer than that.
LongWellNotIgnored ==
    [][\A h \in Call : FallBack(h) =>
          \A r \in Relayer : Well(r) => turned[r] <= TTL]_vars

\* A difference in load that has lasted as long is respected: the relayer
\* selected is not busier than another, both unchanged for more than TTL.
LastingLoadIsRespected ==
    [][\A h \in Call : SelectLeastBusy(h) =>
          LET r == Selected(h) IN
          \A s \in Relayer :
              since[r] > TTL /\ since[s] > TTL /\ Well(s) =>
                  relayer[r].pending <= relayer[s].pending]_vars

=============================================================================
