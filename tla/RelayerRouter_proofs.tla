------------------------ MODULE RelayerRouter_proofs ------------------------
(***************************************************************************)
(* Theorems about RelayerRouter, for any list of relayers, any number of   *)
(* overlapping calls, any TTL and any reports.  All three bounds on stale  *)
(* entries come from one invariant, Fresh: what is held of a relayer is    *)
(* right, or the relayer has changed since the check that found it, and so *)
(* for its health alone.                                                   *)
(***************************************************************************)
EXTENDS RelayerRouter, WellFoundedInduction, TLAPS

\* What a call holds: what its own check found, or what it took from the cache
\* when it began, at most TTL - 1 old then.
HeldAge(h, r) == call[h].age + (IF call[h].got[r].settled THEN TTL - 1 ELSE 0)

\* What was found of r is at most n ticks out of date: all of it, and its health.
AsOf(info, r, n) ==
    /\ info # relayer[r] => since[r] <= n
    /\ info.healthy # Well(r) => turned[r] <= n

CacheIsFresh ==
    \A r \in Relayer :
        cache[r] # None /\ cache[r].age < TTL =>
            AsOf(cache[r].info, r, cache[r].age)

CallsAreFresh ==
    \A h \in Call, r \in Relayer :
        call[h].pc = "gathering" /\ call[h].got[r] # None =>
            AsOf(call[h].got[r].info, r, HeldAge(h, r))

Fresh == CacheIsFresh /\ CallsAreFresh

-----------------------------------------------------------------------------
(* Types.                                                                    *)

Entry == [info : Info, age : 0..TTL]
Answer == [info : Info, settled : BOOLEAN]
CallState == [pc : {"idle", "gathering", "fallback"}, age : 0..1,
              got : [Relayer -> Answer \cup {None}]]

LEMMA NoCallTyped == NoCall \in CallState
  BY DEF NoCall, CallState

\* TypeOK says of the calls that each is a CallState.
LEMMA CallTyped ==
  ASSUME TypeOK
  PROVE  call \in [Call -> CallState]
  BY DEF TypeOK, CallState, Answer

LEMMA ReportsAreInfo ==
  ASSUME NEW r \in Relayer, NEW c \in Reports[r]
  PROVE  c \in Info
  BY ReportsAssumption

LEMMA TypeInit == Init => TypeOK
<1> SUFFICES ASSUME Init PROVE TypeOK OBVIOUS
<1>1. relayer \in [Relayer -> Info]
  BY ReportsAssumption DEF Init
<1>2. since \in [Relayer -> 0..Horizon] /\ turned \in [Relayer -> 0..Horizon]
  BY RouterAssumption DEF Init, Horizon
<1>3. cache \in [Relayer -> Entry \cup {None}] /\ rr \in 1..Len(Urls)
  BY RouterAssumption DEF Init
<1>4. call \in [Call -> CallState]
  BY NoCallTyped DEF Init
<1>5. QED BY <1>1, <1>2, <1>3, <1>4 DEF TypeOK, Entry, CallState, Answer

LEMMA TypeStep ==
  ASSUME TypeOK, [Next]_vars
  PROVE  TypeOK'
<1> SUFFICES ASSUME Next PROVE TypeOK'
  BY DEF vars, TypeOK
<1> DEFINE Types == /\ relayer \in [Relayer -> Info]
                    /\ since \in [Relayer -> 0..Horizon]
                    /\ turned \in [Relayer -> 0..Horizon]
                    /\ cache \in [Relayer -> Entry \cup {None}]
                    /\ rr \in 1..Len(Urls)
                    /\ call \in [Call -> CallState]
<1>a. Types BY DEF TypeOK, Entry, CallState, Answer
<1>b. SUFFICES Types'
  BY <1>b DEF TypeOK, Entry, CallState, Answer
<1>c. TTL \in Nat \ {0} /\ Horizon = TTL + 1
  BY RouterAssumption DEF Horizon
<1>1. CASE Tick
  <2>1. since' \in [Relayer -> 0..Horizon] /\ turned' \in [Relayer -> 0..Horizon]
    BY <1>a, <1>c, <1>1 DEF Tick, Later
  <2>2. cache' \in [Relayer -> Entry \cup {None}]
    <3>1. ASSUME NEW r \in Relayer
          PROVE  cache'[r] \in Entry \cup {None}
      <4>1. cache[r] \in Entry \cup {None} BY <1>a
      <4>2. CASE cache[r] = None \/ cache[r].age = TTL
        BY <1>1, <4>1, <4>2 DEF Tick
      <4>3. CASE cache[r] # None /\ cache[r].age # TTL
        <5>1. cache'[r] = [cache[r] EXCEPT !.age = @ + 1]
          BY <1>1, <4>3 DEF Tick
        <5>2. cache[r] \in Entry /\ cache[r].age + 1 \in 0..TTL
          BY <1>c, <4>1, <4>3 DEF Entry
        <5>3. QED BY <5>1, <5>2 DEF Entry
      <4>4. QED BY <4>2, <4>3
    <3>2. QED BY <3>1, <1>1 DEF Tick
  <2>3. call' \in [Call -> CallState]
    <3>1. ASSUME NEW h \in Call
          PROVE  [call[h] EXCEPT !.age = 1] \in CallState
      <4>1. call[h] \in CallState BY <1>a
      <4>2. 1 \in 0..1 OBVIOUS
      <4>3. QED BY <4>1, <4>2, Zenon DEF CallState
    <3>2. QED BY <1>a, <1>1, <3>1 DEF Tick
  <2>4. QED BY <1>a, <1>1, <2>1, <2>2, <2>3 DEF Tick
<1>2. ASSUME NEW r \in Relayer, RelayerChanges(r) PROVE Types'
  <2>1. PICK c \in Reports[r] :
          /\ relayer' = [relayer EXCEPT ![r] = c]
          /\ since' = [since EXCEPT ![r] = 0]
          /\ turned' = [turned EXCEPT ![r] = IF c.healthy = Well(r) THEN @ ELSE 0]
          /\ UNCHANGED <<cache, rr, call>>
    BY <1>2 DEF RelayerChanges
  <2>2. c \in Info BY ReportsAreInfo
  <2>3. turned' \in [Relayer -> 0..Horizon]
    <3>1. 0 \in 0..Horizon /\ turned[r] \in 0..Horizon BY <1>a, <1>c
    <3>2. QED BY <1>a, <2>1, <3>1
  <2>4. QED BY <1>a, <1>c, <2>1, <2>2, <2>3
<1>3. ASSUME NEW h \in Call, GetAvailableRelayer(h) PROVE Types'
  <2> DEFINE taken == [r \in Relayer |->
                          IF Valid(r) THEN [info |-> cache[r].info, settled |-> TRUE]
                          ELSE None]
  <2>1. taken \in [Relayer -> Answer \cup {None}]
    BY <1>a DEF Valid, Entry, Answer
  <2>2. [NoCall EXCEPT !.pc = "gathering", !.got = taken] \in CallState
    BY <2>1, NoCallTyped DEF CallState
  <2>3. QED BY <1>a, <1>3, <2>2 DEF GetAvailableRelayer
<1>4. ASSUME NEW h \in Call, NEW r \in Relayer, RelayerAnswers(h, r) PROVE Types'
  <2>1. [info |-> relayer[r], settled |-> FALSE] \in Answer
    BY <1>a DEF Answer
  <2>2. QED BY <1>a, <1>4, <2>1 DEF RelayerAnswers, CallState
<1>5. ASSUME NEW h \in Call, NEW r \in Relayer, CheckSettles(h, r) PROVE Types'
  <2>1. call[h].got[r] \in Answer
    BY <1>a, <1>5 DEF CheckSettles, CallState
  <2>2. [call[h].got[r] EXCEPT !.settled = TRUE] \in Answer
    BY <2>1 DEF Answer
  <2>3. call' \in [Call -> CallState]
    BY <1>a, <1>5, <2>2 DEF CheckSettles, CallState
  <2>4. [info |-> call[h].got[r].info, age |-> CheckedFor(h)] \in Entry
    <3>1. call[h].age \in 0..1 BY <1>a DEF CallState
    <3>2. CheckedFor(h) \in 0..TTL BY <1>c, <3>1 DEF CheckedFor
    <3>3. QED BY <2>1, <3>2 DEF Entry, Answer
  <2>5. QED BY <1>a, <1>5, <2>3, <2>4 DEF CheckSettles
<1>6. ASSUME NEW h \in Call, SelectLeastBusy(h) \/ FallbackChecked(h) PROVE Types'
  BY <1>a, <1>6, NoCallTyped DEF SelectLeastBusy, FallbackChecked
<1>7. ASSUME NEW h \in Call, FallBack(h) PROVE Types'
  <2>1. [NoCall EXCEPT !.pc = "fallback"] \in CallState
    BY NoCallTyped DEF CallState
  <2>2. (rr % Len(Urls)) + 1 \in 1..Len(Urls)
    <3>1. Len(Urls) \in Nat /\ Len(Urls) > 0
      BY <1>a, RouterAssumption
    <3>2. rr % Len(Urls) \in 0..(Len(Urls) - 1)
      BY <1>a, <3>1
    <3>3. QED BY <3>1, <3>2
  <2>3. QED BY <1>a, <1>7, <2>1, <2>2 DEF FallBack
<1>8. QED BY <1>1, <1>2, <1>3, <1>4, <1>5, <1>6, <1>7 DEF Next

\* The cache, the round-robin index and every call keep their types, whatever
\* overlaps: the index always names a relayer, an entry is never older than TTL.
THEOREM TypeCorrect == Spec => []TypeOK
  BY TypeInit, TypeStep, PTL DEF Spec

-----------------------------------------------------------------------------
(* What is held of a relayer is right, or the relayer changed since.         *)

LEMMA FreshInit == Init => Fresh
  BY DEF Init, Fresh, CacheIsFresh, CallsAreFresh, NoCall

\* The two clocks are naturals.
LEMMA Clocks ==
  ASSUME TypeOK, NEW r \in Relayer
  PROVE  since[r] \in Nat /\ turned[r] \in Nat
  BY RouterAssumption DEF TypeOK, Horizon

\* What is at most n ticks out of date is at most m, for a larger m.
LEMMA AsOfMonotone ==
  ASSUME TypeOK, NEW r \in Relayer, NEW info, NEW n \in Nat, NEW m \in Nat, n <= m,
         AsOf(info, r, n)
  PROVE  AsOf(info, r, m)
  BY Clocks DEF AsOf

\* A tick makes it one tick older.
LEMMA AsOfTick ==
  ASSUME TypeOK, Tick, NEW r \in Relayer, NEW info, NEW n \in Nat, AsOf(info, r, n)
  PROVE  AsOf(info, r, n + 1)'
<1>1. /\ since'[r] \in Nat /\ since'[r] <= since[r] + 1
      /\ turned'[r] \in Nat /\ turned'[r] <= turned[r] + 1
  BY Clocks, RouterAssumption DEF Tick, Later, Horizon
<1>2. relayer' = relayer BY DEF Tick
<1>3. QED BY <1>1, <1>2, Clocks DEF AsOf, Well

\* A change of the relayer starts the clocks of what changed.
LEMMA AsOfChange ==
  ASSUME TypeOK, NEW r \in Relayer, RelayerChanges(r), NEW s \in Relayer,
         NEW info, NEW n \in Nat, AsOf(info, s, n)
  PROVE  AsOf(info, s, n)'
<1>1. PICK c \in Reports[r] :
        /\ relayer' = [relayer EXCEPT ![r] = c]
        /\ since' = [since EXCEPT ![r] = 0]
        /\ turned' = [turned EXCEPT ![r] = IF c.healthy = Well(r) THEN @ ELSE 0]
  BY DEF RelayerChanges
<1>2. CASE s # r
  BY <1>1, <1>2 DEF AsOf, Well, TypeOK
<1>3. CASE s = r
  <2>1. relayer'[r] = c /\ since'[r] = 0
    BY <1>1 DEF TypeOK
  <2>2. turned'[r] = IF c.healthy = Well(r) THEN turned[r] ELSE 0
    BY <1>1 DEF TypeOK
  <2>3. since'[s] <= n BY <1>3, <2>1
  <2>4. ASSUME info.healthy # c.healthy PROVE turned'[s] <= n
    <3>1. CASE c.healthy = Well(r)
      BY <1>3, <2>2, <2>4, <3>1 DEF AsOf
    <3>2. CASE c.healthy # Well(r)
      BY <1>3, <2>2, <3>2
    <3>3. QED BY <3>1, <3>2
  <2>5. QED BY <1>3, <2>1, <2>3, <2>4 DEF AsOf, Well
<1>4. QED BY <1>2, <1>3

LEMMA HeldAgeNat ==
  ASSUME TypeOK, NEW h \in Call, NEW r \in Relayer
  PROVE  HeldAge(h, r) \in Nat
<1>1. call[h].age \in 0..1 BY CallTyped DEF CallState
<1>2. QED BY <1>1, RouterAssumption DEF HeldAge

LEMMA FreshTick ==
  ASSUME TypeOK, Fresh, Tick
  PROVE  Fresh'
<1>1. TTL \in Nat \ {0} BY RouterAssumption
<1>2. CacheIsFresh'
  <2> SUFFICES ASSUME NEW r \in Relayer, cache'[r] # None, cache'[r].age < TTL
               PROVE  AsOf(cache[r].info, r, cache[r].age)
                         /\ cache[r].age \in Nat
                         /\ cache'[r].info = cache[r].info
                         /\ cache'[r].age = cache[r].age + 1
    BY AsOfTick DEF CacheIsFresh, AsOf
  <2>1. cache[r] # None /\ cache[r] \in Entry
    BY DEF Tick, TypeOK, Entry
  <2>2. cache[r].age # TTL
    BY <1>1, <2>1 DEF Tick
  <2>3. cache'[r] = [cache[r] EXCEPT !.age = @ + 1]
    BY <2>1, <2>2 DEF Tick
  <2>4. cache'[r].info = cache[r].info /\ cache'[r].age = cache[r].age + 1
    BY <2>1, <2>3 DEF Entry
  <2>5. cache[r].age \in Nat /\ cache[r].age < TTL
    BY <1>1, <2>1, <2>2 DEF Entry
  <2>6. QED BY <2>1, <2>4, <2>5 DEF Fresh, CacheIsFresh
<1>3. CallsAreFresh'
  <2> SUFFICES ASSUME NEW h \in Call, NEW r \in Relayer,
                      call'[h].pc = "gathering", call'[h].got[r] # None
               PROVE  AsOf(call[h].got[r].info, r, HeldAge(h, r))
                         /\ call'[h].got[r].info = call[h].got[r].info
                         /\ HeldAge(h, r)' = HeldAge(h, r) + 1
    BY AsOfTick, HeldAgeNat DEF CallsAreFresh, AsOf
  <2>1. call[h] \in CallState BY CallTyped
  <2>2. Checking(h)
    BY DEF Tick, Checking
  <2>3. call[h].age = 0 /\ call'[h] = [call[h] EXCEPT !.age = 1]
    BY <2>2, CallTyped DEF Tick
  <2>4. call'[h].got = call[h].got /\ call'[h].pc = call[h].pc /\ call'[h].age = 1
    BY <2>1, <2>3 DEF CallState
  <2>5. HeldAge(h, r)' = HeldAge(h, r) + 1
    BY <1>1, <2>3, <2>4 DEF HeldAge
  <2>6. QED BY <2>4, <2>5 DEF Fresh, CallsAreFresh
<1>4. QED BY <1>2, <1>3 DEF Fresh

LEMMA FreshChange ==
  ASSUME TypeOK, Fresh, NEW r \in Relayer, RelayerChanges(r)
  PROVE  Fresh'
<1>1. UNCHANGED <<cache, call>> BY DEF RelayerChanges
<1>2. ASSUME NEW s \in Relayer, cache[s] # None, cache[s].age < TTL
      PROVE  AsOf(cache[s].info, s, cache[s].age)'
  <2>1. cache[s].age \in Nat BY <1>2, RouterAssumption DEF TypeOK
  <2>2. AsOf(cache[s].info, s, cache[s].age) BY <1>2 DEF Fresh, CacheIsFresh
  <2>3. QED BY <1>1, <2>1, <2>2, AsOfChange DEF AsOf
<1>3. ASSUME NEW h \in Call, NEW s \in Relayer,
             call[h].pc = "gathering", call[h].got[s] # None
      PROVE  AsOf(call[h].got[s].info, s, HeldAge(h, s))'
  <2>1. AsOf(call[h].got[s].info, s, HeldAge(h, s))
    BY <1>3 DEF Fresh, CallsAreFresh
  <2>2. HeldAge(h, s)' = HeldAge(h, s) BY <1>1 DEF HeldAge
  <2>3. QED BY <1>1, <2>1, <2>2, HeldAgeNat, AsOfChange DEF AsOf
<1>4. QED BY <1>1, <1>2, <1>3 DEF Fresh, CacheIsFresh, CallsAreFresh

LEMMA FreshStart ==
  ASSUME TypeOK, Fresh, NEW h \in Call, GetAvailableRelayer(h)
  PROVE  Fresh'
<1>1. TTL \in Nat \ {0} BY RouterAssumption
<1>2. UNCHANGED <<relayer, since, turned, cache>> BY DEF GetAvailableRelayer
<1>3. CacheIsFresh' BY <1>2 DEF Fresh, CacheIsFresh, AsOf, Well
<1>4. ASSUME NEW r \in Relayer, call'[h].got[r] # None
      PROVE  AsOf(call'[h].got[r].info, r, HeldAge(h, r)')
  <2>1. /\ call'[h].age = 0
        /\ call'[h].got[r] = IF Valid(r)
                             THEN [info |-> cache[r].info, settled |-> TRUE]
                             ELSE None
    BY CallTyped DEF GetAvailableRelayer, NoCall
  <2>2. Valid(r) /\ call'[h].got[r] = [info |-> cache[r].info, settled |-> TRUE]
    BY <1>4, <2>1
  <2>3. AsOf(cache[r].info, r, cache[r].age) /\ cache[r].age < TTL
    BY <2>2 DEF Valid, Fresh, CacheIsFresh
  <2>4. cache[r].age \in Nat
    BY <1>1, <2>2 DEF TypeOK, Valid
  <2>5. HeldAge(h, r)' = TTL - 1 BY <1>1, <2>1, <2>2 DEF HeldAge
  <2>6. QED BY <1>1, <2>2, <2>3, <2>4, <2>5, AsOfMonotone
<1>5. \A g \in Call \ {h} : call'[g] = call[g]
  BY CallTyped DEF GetAvailableRelayer
<1>6. CallsAreFresh'
  BY <1>2, <1>4, <1>5 DEF Fresh, CallsAreFresh, HeldAge, AsOf, Well
<1>7. QED BY <1>3, <1>6 DEF Fresh

LEMMA FreshAnswer ==
  ASSUME TypeOK, Fresh, NEW h \in Call, NEW r \in Relayer, RelayerAnswers(h, r)
  PROVE  Fresh'
<1>1. UNCHANGED <<relayer, since, turned, cache>> BY DEF RelayerAnswers
<1>2. CacheIsFresh' BY <1>1 DEF Fresh, CacheIsFresh, AsOf, Well
<1>3. call' = [call EXCEPT ![h].got[r] = [info |-> relayer[r], settled |-> FALSE]]
  BY DEF RelayerAnswers
<1>4. call \in [Call -> CallState] BY CallTyped
<1>5. call'[h].got[r].info = relayer[r]
  BY <1>3, <1>4 DEF CallState
<1>6. ASSUME NEW g \in Call, NEW s \in Relayer, g # h \/ s # r
      PROVE  /\ call'[g].got[s] = call[g].got[s]
             /\ call'[g].pc = call[g].pc /\ call'[g].age = call[g].age
  BY <1>3, <1>4, <1>6 DEF CallState
<1>7. CallsAreFresh'
  BY <1>1, <1>5, <1>6 DEF Fresh, CallsAreFresh, HeldAge, AsOf, Well
<1>8. QED BY <1>2, <1>7 DEF Fresh

LEMMA FreshSettle ==
  ASSUME TypeOK, Fresh, NEW h \in Call, NEW r \in Relayer, CheckSettles(h, r)
  PROVE  Fresh'
<1>1. TTL \in Nat \ {0} /\ UNCHANGED <<relayer, since, turned>>
  BY RouterAssumption DEF CheckSettles
<1>2. call \in [Call -> CallState] BY CallTyped
<1>3. call[h].age \in 0..1 /\ call[h].got[r] \in Answer
  BY <1>2 DEF CheckSettles, CallState
<1>4. AsOf(call[h].got[r].info, r, call[h].age)
  <2>1. HeldAge(h, r) = call[h].age
    BY <1>3 DEF CheckSettles, HeldAge
  <2>2. QED BY <2>1 DEF CheckSettles, Fresh, CallsAreFresh
<1>5. CacheIsFresh'
  <2>1. cache'[r] = [info |-> call[h].got[r].info, age |-> call[h].age]
    BY DEF CheckSettles, CheckedFor, TypeOK
  <2>2. \A s \in Relayer \ {r} : cache'[s] = cache[s]
    BY DEF CheckSettles, TypeOK
  <2>3. QED BY <1>1, <1>4, <2>1, <2>2 DEF Fresh, CacheIsFresh, AsOf, Well
<1>6. CallsAreFresh'
  <2>1. call' = [call EXCEPT ![h].got[r].settled = TRUE] BY DEF CheckSettles
  <2>2. ASSUME NEW g \in Call, NEW s \in Relayer, g # h \/ s # r
        PROVE  /\ call'[g].got[s] = call[g].got[s]
               /\ call'[g].pc = call[g].pc /\ call'[g].age = call[g].age
    BY <1>2, <2>1, <2>2 DEF CallState
  <2>3. /\ call'[h].got[r].info = call[h].got[r].info
        /\ call'[h].got[r].settled
        /\ call'[h].age = call[h].age
    BY <1>2, <1>3, <2>1 DEF CallState, Answer
  <2>4. AsOf(call[h].got[r].info, r, HeldAge(h, r)')
    <3>1. HeldAge(h, r)' = call[h].age + (TTL - 1) BY <2>3 DEF HeldAge
    <3>2. QED BY <1>1, <1>3, <1>4, <3>1, AsOfMonotone
  <2>5. QED BY <1>1, <2>2, <2>3, <2>4 DEF Fresh, CallsAreFresh, HeldAge, AsOf, Well
<1>7. QED BY <1>5, <1>6 DEF Fresh

LEMMA FreshEnd ==
  ASSUME TypeOK, Fresh, NEW h \in Call,
         SelectLeastBusy(h) \/ FallBack(h) \/ FallbackChecked(h)
  PROVE  Fresh'
<1>1. UNCHANGED <<relayer, since, turned, cache>>
  BY DEF SelectLeastBusy, FallBack, FallbackChecked
<1>2. call'[h].pc # "gathering"
  BY CallTyped DEF SelectLeastBusy, FallBack, FallbackChecked, NoCall
<1>3. \A g \in Call \ {h} : call'[g] = call[g]
  BY CallTyped DEF SelectLeastBusy, FallBack, FallbackChecked
<1>4. QED BY <1>1, <1>2, <1>3
      DEF Fresh, CacheIsFresh, CallsAreFresh, HeldAge, AsOf, Well

LEMMA FreshStep ==
  ASSUME TypeOK, Fresh, [Next]_vars
  PROVE  Fresh'
<1>1. CASE UNCHANGED vars
  BY <1>1 DEF vars, Fresh, CacheIsFresh, CallsAreFresh, HeldAge, AsOf, Well
<1>2. CASE Next
  BY <1>2, FreshTick, FreshChange, FreshStart, FreshAnswer, FreshSettle, FreshEnd
  DEF Next
<1>3. QED BY <1>1, <1>2

LEMMA Invariant == Spec => [](TypeOK /\ Fresh)
  BY TypeInit, TypeStep, FreshInit, FreshStep, PTL DEF Spec

-----------------------------------------------------------------------------
(* The bounds on stale entries.                                              *)

\* A call that has gathered all answers is wrong only about a relayer that
\* changed within the last TTL ticks, and about the health only of one whose
\* health did.
LEMMA GatheredIsRecent ==
  ASSUME TypeOK, Fresh, NEW h \in Call, Gathered(h), NEW i \in DOMAIN Urls
  PROVE  AsOf(Told(h, i), Urls[i], TTL)
<1>1. Urls[i] \in Relayer BY DEF Relayer
<1>2. call[h].age \in 0..1 BY CallTyped DEF CallState
<1>3. AsOf(Told(h, i), Urls[i], HeldAge(h, Urls[i]))
  BY <1>1 DEF Fresh, CallsAreFresh, Gathered, Told
<1>4. HeldAge(h, Urls[i]) = call[h].age + (TTL - 1)
  BY <1>1 DEF Gathered, HeldAge
<1>5. HeldAge(h, Urls[i]) \in Nat /\ HeldAge(h, Urls[i]) <= TTL
  BY <1>2, <1>4, RouterAssumption
<1>6. QED BY <1>1, <1>3, <1>5, AsOfMonotone, RouterAssumption

LEMMA ToldTyped ==
  ASSUME TypeOK, NEW h \in Call, Gathered(h), NEW i \in DOMAIN Urls
  PROVE  Told(h, i) \in Info
<1>1. Urls[i] \in Relayer BY DEF Relayer
<1>2. call[h].got[Urls[i]] \in Answer
  BY <1>1, CallTyped DEF Gathered, CallState
<1>3. QED BY <1>2 DEF Told, Answer

\* Every nonempty set of naturals has a least element.
LEMMA Least ==
  ASSUME NEW T \in SUBSET Nat, T # {}
  PROVE  \E m \in T : \A n \in T : m <= n
<1>1. PICK m \in T : \A n \in T : <<n, m>> \notin OpToRel(<, Nat)
  BY NatLessThanWellFounded, WFMin
<1>2. \A n \in T : ~(n < m)
  BY <1>1 DEF OpToRel
<1>3. \A n \in T : m \in Nat /\ n \in Nat
  OBVIOUS
<1>4. QED BY <1>2, <1>3

\* The reduce has a result whenever there is a healthy relayer, and none is less
\* busy than it, by what the call was told.
LEMMA LeastBusyExists ==
  ASSUME TypeOK, NEW h \in Call, Gathered(h), Healthy(h) # {}
  PROVE  /\ LeastBusy(h) \in Healthy(h)
         /\ \A j \in Healthy(h) :
                Told(h, LeastBusy(h)).pending <= Told(h, j).pending
<1> DEFINE Loads == {Told(h, i).pending : i \in Healthy(h)}
<1>1. \A i \in Healthy(h) : i \in Nat /\ Told(h, i).pending \in Nat
  <2>1. DOMAIN Urls \subseteq Nat BY RouterAssumption
  <2>2. ASSUME NEW i \in Healthy(h)
        PROVE  Told(h, i).pending \in Nat
    <3>1. Told(h, i) \in Info /\ Told(h, i).healthy
      BY ToldTyped DEF Healthy
    <3>2. QED BY <3>1 DEF Info
  <2>3. QED BY <2>1, <2>2 DEF Healthy
<1>2. PICK m \in Loads : \A n \in Loads : m <= n
  <2>1. Loads \in SUBSET Nat /\ Loads # {} BY <1>1
  <2>2. QED BY <2>1, Least
<1> DEFINE Idlest == {i \in Healthy(h) : Told(h, i).pending = m}
<1>3. PICK i \in Idlest : \A j \in Idlest : i <= j
  <2>1. Idlest \in SUBSET Nat /\ Idlest # {} BY <1>1
  <2>2. QED BY <2>1, Least
<1> DEFINE First(k) == \A j \in Healthy(h) :
               \/ Told(h, k).pending < Told(h, j).pending
               \/ Told(h, k).pending = Told(h, j).pending /\ k <= j
<1>4. i \in Healthy(h) /\ First(i)
  <2>1. ASSUME NEW j \in Healthy(h)
        PROVE  \/ Told(h, i).pending < Told(h, j).pending
               \/ Told(h, i).pending = Told(h, j).pending /\ i <= j
    <3>1. Told(h, i).pending = m /\ m <= Told(h, j).pending
      BY <1>2
    <3>2. CASE Told(h, j).pending = m BY <1>3, <3>1, <3>2
    <3>3. CASE Told(h, j).pending # m BY <1>1, <3>1, <3>3
    <3>4. QED BY <3>2, <3>3
  <2>2. QED BY <2>1
<1>5. LeastBusy(h) = CHOOSE k \in Healthy(h) : First(k)
  BY DEF LeastBusy
<1>6. LeastBusy(h) \in Healthy(h) /\ First(LeastBusy(h))
  <2> HIDE DEF First
  <2>1. QED BY <1>4, <1>5
<1>7. QED BY <1>1, <1>6

LEMMA SelectedIsHealthy ==
  ASSUME TypeOK, NEW h \in Call, SelectLeastBusy(h)
  PROVE  /\ LeastBusy(h) \in DOMAIN Urls /\ Selected(h) \in Relayer
         /\ Told(h, LeastBusy(h)).healthy
  BY LeastBusyExists DEF SelectLeastBusy, Selected, Healthy, Relayer

\* LongIllNotSelected: a relayer that has been ill for
\* longer than TTL is never selected, however calls overlap.
THEOREM IllIsForgotten == Spec => LongIllNotSelected
<1>1. ASSUME TypeOK, Fresh, NEW h \in Call, SelectLeastBusy(h), ~Well(Selected(h))
      PROVE  turned[Selected(h)] <= TTL
  <2>1. Told(h, LeastBusy(h)).healthy /\ LeastBusy(h) \in DOMAIN Urls
    BY <1>1, SelectedIsHealthy
  <2>2. AsOf(Told(h, LeastBusy(h)), Selected(h), TTL)
    BY <1>1, <2>1, GatheredIsRecent DEF SelectLeastBusy, Selected
  <2>3. QED BY <1>1, <2>1, <2>2 DEF AsOf
<1>2. TypeOK /\ Fresh /\ [Next]_vars =>
        [\A h \in Call : SelectLeastBusy(h) /\ ~Well(Selected(h)) =>
            turned[Selected(h)] <= TTL]_vars
  BY <1>1
<1>3. QED BY <1>2, Invariant, PTL DEF Spec, LongIllNotSelected

\* LongWellNotIgnored: the router falls back to round robin only if no relayer
\* has been well for longer than TTL, whatever its load did meanwhile.
THEOREM RecoveryIsNoticed == Spec => LongWellNotIgnored
<1>1. ASSUME TypeOK, Fresh, NEW h \in Call, FallBack(h), NEW r \in Relayer, Well(r)
      PROVE  turned[r] <= TTL
  <2>1. PICK i \in DOMAIN Urls : r = Urls[i] BY DEF Relayer
  <2>2. Gathered(h) /\ ~Told(h, i).healthy BY <1>1 DEF FallBack, Healthy
  <2>3. AsOf(Told(h, i), r, TTL) BY <1>1, <2>1, <2>2, GatheredIsRecent
  <2>4. QED BY <1>1, <2>2, <2>3 DEF AsOf
<1>2. TypeOK /\ Fresh /\ [Next]_vars =>
        [\A h \in Call : FallBack(h) =>
            \A r \in Relayer : Well(r) => turned[r] <= TTL]_vars
  BY <1>1
<1>3. QED BY <1>2, Invariant, PTL DEF Spec, LongWellNotIgnored

\* LastingLoadIsRespected: the relayer selected is not busier than another one
\* when neither has changed for longer than TTL.
THEOREM LoadIsRespected == Spec => LastingLoadIsRespected
<1>1. ASSUME TypeOK, Fresh, NEW h \in Call, SelectLeastBusy(h), NEW s \in Relayer,
             since[Selected(h)] > TTL, since[s] > TTL, Well(s)
      PROVE  relayer[Selected(h)].pending <= relayer[s].pending
  <2>1. \A r \in Relayer : since[r] \in Nat
    BY <1>1, RouterAssumption DEF TypeOK, Horizon
  <2>2. TTL \in Nat BY RouterAssumption
  <2>3. ASSUME NEW i \in DOMAIN Urls, since[Urls[i]] > TTL
        PROVE  Told(h, i) = relayer[Urls[i]]
    <3>1. Urls[i] \in Relayer BY DEF Relayer
    <3>2. ~(since[Urls[i]] <= TTL) BY <2>1, <2>2, <2>3, <3>1
    <3>3. QED BY <1>1, <3>2, GatheredIsRecent DEF SelectLeastBusy, AsOf
  <2>4. PICK j \in DOMAIN Urls : s = Urls[j] BY DEF Relayer
  <2>5. j \in Healthy(h) /\ Told(h, j) = relayer[s]
    BY <1>1, <2>3, <2>4 DEF Healthy, Well
  <2>6. Told(h, LeastBusy(h)) = relayer[Selected(h)]
    BY <1>1, <2>3, SelectedIsHealthy DEF Selected
  <2>7. QED BY <1>1, <2>5, <2>6, LeastBusyExists DEF SelectLeastBusy
<1>2. TypeOK /\ Fresh /\ [Next]_vars =>
        [\A h \in Call : SelectLeastBusy(h) =>
           LET r == Selected(h) IN
           \A s \in Relayer :
               since[r] > TTL /\ since[s] > TTL /\ Well(s) =>
                   relayer[r].pending <= relayer[s].pending]_vars
  BY <1>1
<1>3. QED BY <1>2, Invariant, PTL DEF Spec, LastingLoadIsRespected

=============================================================================
