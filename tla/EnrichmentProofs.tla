-------------------------- MODULE EnrichmentProofs --------------------------
(***************************************************************************)
(* Proofs about Enrichment, for any number of tasks, enrichers and keys,   *)
(* and for any times that satisfy EnrichmentAssumption.                    *)
(***************************************************************************)
EXTENDS Enrichment, FiniteSetTheorems, TLAPS

-----------------------------------------------------------------------------
(* The inductive invariant.  The properties speak of single lookups; what  *)
(* makes them true is an account of time: what a cached answer has aged    *)
(* and what it has left add up to a constant (CacheAccounted), and so do   *)
(* the time left of the entries a batch has made and the time spent on the *)
(* batch (DoneLive).                                                       *)

Busy(t) == pc[t] \in {"calling", "storing"}

Current(t) == <<Here(t), Key(t)>>

\* What the task has asked for and been told.
Done(t) == IF Busy(t) THEN called[t] \ {Current(t)} ELSE called[t]

\* A task without a batch starts the next one from scratch.
IdleClear(t) ==
    pc[t] = "idle" =>
        /\ gained[t] = {} /\ called[t] = {} /\ spent[t] = 0
        /\ cursor[t] = [enricher |-> 1, resource |-> 1]

\* A call is for a key of the resource at the cursor.
AtWork(t) ==
    Busy(t) =>
        /\ cursor[t].resource \in DOMAIN batch[t]
        /\ Key(t) \in Keys /\ Current(t) \in called[t]

\* A call ends within ApiTimeout, so what it brings is no older, and has its whole time
\* to live ahead.
AnswerAccounted(t) ==
    /\ waited[t] <= ApiTimeout /\ (pc[t] # "calling" => waited[t] = 0)
    /\ pc[t] = "storing" => /\ fresh[t] \in Answer
                            /\ fresh[t].age <= ApiTimeout /\ fresh[t].left >= TTL

\* What the batch has been told can be looked up until the batch is done.
DoneLive(t) ==
    \A c \in Done(t) :
        /\ cache[c[1]][c[2]] # NoAnswer
        /\ cache[c[1]][c[2]].left + spent[t] >= TTL

\* The part of the time spent that belongs to a call not yet done.
OnThisCall(t) ==
    CASE pc[t] = "calling" -> waited[t] [] pc[t] = "storing" -> ApiTimeout [] OTHER -> 0

\* The time spent on a batch is the time spent in calls, ApiTimeout each at most.
SpentOnCalls(t) ==
    /\ IsFiniteSet(called[t])
    /\ spent[t] <= ApiTimeout * Cardinality(Done(t)) + OnThisCall(t)

TaskInv(t) ==
    IdleClear(t) /\ AtWork(t) /\ AnswerAccounted(t) /\ DoneLive(t) /\ SpentOnCalls(t)

CacheAccounted ==
    \A e \in Enrichers, k \in Keys : cache[e][k] # NoAnswer =>
        cache[e][k].age + cache[e][k].left <= TTL + (Jitter - 1) + ApiTimeout

EInv == TypeOK /\ CacheAccounted /\ \A t \in Tasks : TaskInv(t)

-----------------------------------------------------------------------------
(* Lemmas about the operators.                                             *)

\* A batch is a sequence of at most MaxBatch resources.
LEMMA BatchFacts ==
    ASSUME NEW b \in Batches
    PROVE  /\ DOMAIN b \subseteq 1 .. MaxBatch
           /\ \A i \in DOMAIN b : b[i] \in Resources
  BY EnrichmentAssumption DEF Batches

\* A batch may be empty.
LEMMA EmptyBatch == <<>> \in Batches
  <1>1. <<>> \in [1 .. 0 -> Resources]
    OBVIOUS
  <1>2. 0 \in 0 .. MaxBatch
    BY EnrichmentAssumption
  <1> QED
    BY <1>1, <1>2 DEF Batches

\* A busy task is at one of its enrichers; at a resource, it has a key or none.
LEMMA AtEnricher ==
    ASSUME TypeOK, NEW t \in Tasks, pc[t] # "idle"
    PROVE  /\ Here(t) \in Enrichers
           /\ cursor[t].resource \in DOMAIN batch[t] => Key(t) \in Keys \cup {NoKey}
  <1>1. /\ cursor[t].enricher \in DOMAIN Uses[t] /\ Uses[t] \in Seq(Enrichers)
        /\ batch[t] \in Batches
    BY EnrichmentAssumption DEF TypeOK
  <1>2. Here(t) \in Enrichers
    BY <1>1 DEF Here
  <1>3. ASSUME cursor[t].resource \in DOMAIN batch[t]
        PROVE  Key(t) \in Keys \cup {NoKey}
    <2>1. batch[t][cursor[t].resource] \in [Enrichers -> Keys \cup {NoKey}]
      BY <1>1, <1>3, BatchFacts, EnrichmentAssumption
    <2> QED
      BY <1>2, <2>1 DEF Key
  <1> QED
    BY <1>2, <1>3

\* A cursor at a resource is within the bound on batches.
LEMMA ResourceInRange ==
    ASSUME TypeOK, NEW t \in Tasks, cursor[t].resource \in DOMAIN batch[t]
    PROVE  cursor[t].resource \in 1 .. MaxBatch
  <1>1. batch[t] \in Batches
    BY DEF TypeOK
  <1> QED
    BY <1>1, BatchFacts

\* Going on to the next resource keeps the enricher.
LEMMA NextResourceMoves ==
    ASSUME TypeOK, NEW t \in Tasks, cursor[t].resource \in DOMAIN batch[t], NextResource(t)
    PROVE  /\ cursor' \in [Tasks -> [enricher : Nat, resource : 1 .. MaxBatch + 1]]
           /\ cursor'[t].enricher = cursor[t].enricher
           /\ \A q \in Tasks : q # t => cursor'[q] = cursor[q]
  <1> DEFINE c == [cursor[t] EXCEPT !.resource = @ + 1]
  <1>1. cursor[t].resource \in 1 .. MaxBatch
    BY ResourceInRange
  <1>2. /\ cursor \in [Tasks -> [enricher : Nat, resource : 1 .. MaxBatch + 1]]
        /\ cursor[t] \in [enricher : Nat, resource : 1 .. MaxBatch + 1]
    BY DEF TypeOK
  <1>3. c \in [enricher : Nat, resource : 1 .. MaxBatch + 1] /\ c.enricher = cursor[t].enricher
    <2>1. PICK e \in Nat, n \in 1 .. MaxBatch + 1 : cursor[t] = [enricher |-> e, resource |-> n]
      BY <1>2
    <2>2. n + 1 \in 1 .. MaxBatch + 1
      BY <1>1, <2>1, EnrichmentAssumption
    <2> QED
      BY <2>1, <2>2
  <1>4. cursor' = [cursor EXCEPT ![t] = c]
    BY DEF NextResource
  <1> HIDE DEF c
  <1> QED
    BY <1>2, <1>3, <1>4

\* What is done was asked of the caches' enrichers.
LEMMA DoneFacts ==
    ASSUME TypeOK, NEW t \in Tasks
    PROVE  /\ Done(t) \subseteq called[t] /\ called[t] \subseteq Enrichers \X Keys
           /\ \A c \in called[t] : c[1] \in Enrichers /\ c[2] \in Keys /\ c = <<c[1], c[2]>>
  BY DEF TypeOK, Done

\* One call more.
LEMMA TimesNext == \A a, n \in Nat : a * n \in Nat /\ a * (n + 1) = a * n + a
  OBVIOUS

\* What a quotient of integers promises.
LEMMA DivBounds == \A x \in Nat, a \in Nat \ {0} : x \div a \in Nat /\ a * (x \div a) <= x
  OBVIOUS

\* n + 1 calls of at most a leave no room for more than n whole ones before x.
LEMMA FewerCalls ==
    ASSUME NEW x \in Nat, NEW a \in Nat \ {0}, NEW n \in Nat, x < a * n + a
    PROVE  n >= x \div a
  <1> DEFINE q == x \div a
  <1>1. q \in Nat /\ a * q <= x
    BY DivBounds
  <1> HIDE DEF q
  <1> SUFFICES ASSUME n < q PROVE FALSE
    BY <1>1 DEF q
  <1>2. q - n - 1 \in Nat /\ q = n + 1 + (q - n - 1)
    BY <1>1
  <1>3. PICK d \in Nat : q = n + 1 + d
    BY <1>2
  <1>4. a * q = a * n + a + a * d /\ a * d \in Nat /\ a * n \in Nat
    BY <1>3
  <1> QED
    BY <1>1, <1>4

\* What an answer loses of its time to live, it gains in age.
LEMMA OlderFacts ==
    ASSUME NEW a \in Answer
    PROVE  /\ Older(a) \in Answer /\ Older(a) # NoAnswer
           /\ Older(a).left \in Nat /\ Older(a).age \in Nat /\ a.left \in Nat /\ a.age \in Nat
           /\ Older(a).left >= a.left - 1 /\ Older(a).age <= a.age + 1
           /\ Older(a).age + Older(a).left = a.age + a.left
  <1> USE EnrichmentAssumption
  <1>1. CASE a.left = 0
    BY <1>1 DEF Older, Answer
  <1>2. CASE a.left # 0
    <2>1. PICK ok \in BOOLEAN, age \in Nat, left \in 0 .. TTL + Jitter - 1 :
             a = [ok |-> ok, age |-> age, left |-> left]
      BY DEF Answer
    <2>2. a # NoAnswer
      OBVIOUS
    <2>3. Older(a) = [ok |-> ok, age |-> age + 1, left |-> left - 1]
      BY <1>2, <2>1, <2>2 DEF Older
    <2>4. Older(a) \in Answer
      BY <1>2, <2>1, <2>3 DEF Answer
    <2> QED
      BY <1>2, <2>1, <2>3, <2>4
  <1> QED
    BY <1>1, <1>2

\* A task is not disturbed by what another one puts into the cache.
LEMMA OtherTask ==
    ASSUME EInv, NEW q \in Tasks,
           /\ pc'[q] = pc[q] /\ batch'[q] = batch[q] /\ gained'[q] = gained[q]
           /\ cursor'[q] = cursor[q] /\ spent'[q] = spent[q] /\ waited'[q] = waited[q]
           /\ fresh'[q] = fresh[q] /\ called'[q] = called[q],
           \A e \in Enrichers, k \in Keys :
              \/ cache'[e][k] = cache[e][k]
              \/ cache'[e][k] \in Answer /\ cache'[e][k].left >= TTL
    PROVE  TaskInv(q)'
  <1>1. TypeOK /\ TaskInv(q)
    BY DEF EInv
  <1>2. Here(q)' = Here(q) /\ Key(q)' = Key(q)
    BY DEF Here, Key
  <1>3. Busy(q)' <=> Busy(q)
    BY DEF Busy
  <1>4. Done(q)' = Done(q)
    BY <1>2, <1>3 DEF Done, Current
  <1>5. IdleClear(q)' /\ AnswerAccounted(q)'
    BY <1>1 DEF TaskInv, IdleClear, AnswerAccounted
  <1>6. AtWork(q)'
    BY <1>1, <1>2, <1>3 DEF TaskInv, AtWork, Current
  <1>7. DoneLive(q)'
    <2> SUFFICES ASSUME NEW c \in Done(q)
                 PROVE  cache'[c[1]][c[2]] # NoAnswer
                        /\ cache'[c[1]][c[2]].left + spent[q] >= TTL
      BY <1>4 DEF DoneLive
    <2>1. c[1] \in Enrichers /\ c[2] \in Keys /\ spent[q] \in Nat
      BY <1>1, DoneFacts, EnrichmentAssumption DEF TypeOK
    <2>2. CASE cache'[c[1]][c[2]] = cache[c[1]][c[2]]
      BY <1>1, <2>2 DEF TaskInv, DoneLive
    <2>3. CASE cache'[c[1]][c[2]] \in Answer /\ cache'[c[1]][c[2]].left >= TTL
      <3>1. cache'[c[1]][c[2]].left \in Int
        BY <2>3, EnrichmentAssumption DEF Answer
      <3> QED
        BY <2>1, <2>3, <3>1, EnrichmentAssumption
    <2> QED
      BY <2>1, <2>2, <2>3
  <1>8. SpentOnCalls(q)'
    BY <1>1, <1>4 DEF TaskInv, SpentOnCalls, OnThisCall
  <1> QED
    BY <1>5, <1>6, <1>7, <1>8 DEF TaskInv
-----------------------------------------------------------------------------
(* Init and the steps.                                                     *)

\* No task has a batch and nothing is cached.
LEMMA EnrichmentInit == Init => EInv
  <1> USE EnrichmentAssumption
  <1> SUFFICES ASSUME Init PROVE EInv
    OBVIOUS
  <1>1. TypeOK
    <2>1. cache \in [Enrichers -> [Keys -> Answer \cup {NoAnswer}]]
      BY DEF Init
    <2>2. batch \in [Tasks -> Batches]
      BY EmptyBatch DEF Init
    <2>3. [enricher |-> 1, resource |-> 1] \in [enricher : Nat, resource : 1 .. MaxBatch + 1]
      OBVIOUS
    <2>4. cursor \in [Tasks -> [enricher : Nat, resource : 1 .. MaxBatch + 1]]
      BY <2>3 DEF Init
    <2>5. /\ gained \in [Tasks -> SUBSET (1 .. MaxBatch)]
          /\ called \in [Tasks -> SUBSET (Enrichers \X Keys)]
          /\ fresh \in [Tasks -> Answer \cup {NoAnswer}]
          /\ spent \in [Tasks -> 0 .. EnrichTimeout] /\ waited \in [Tasks -> Nat]
      BY DEF Init
    <2> QED
      BY <2>1, <2>2, <2>4, <2>5 DEF Init, TypeOK
  <1>2. CacheAccounted
    BY DEF Init, CacheAccounted
  <1>3. ASSUME NEW t \in Tasks PROVE TaskInv(t)
    <2>1. pc[t] = "idle" /\ called[t] = {} /\ spent[t] = 0 /\ waited[t] = 0
      BY DEF Init
    <2>2. Done(t) = {} /\ Cardinality(Done(t)) = 0 /\ IsFiniteSet(called[t])
      BY <2>1, FS_EmptySet DEF Done, Busy
    <2>3. IdleClear(t) /\ AtWork(t) /\ AnswerAccounted(t) /\ DoneLive(t)
      BY <2>1, <2>2 DEF Init, IdleClear, AtWork, Busy, AnswerAccounted, DoneLive
    <2>4. SpentOnCalls(t)
      <3>1. OnThisCall(t) = 0
        BY <2>1 DEF OnThisCall
      <3> QED
        BY <2>1, <2>2, <3>1 DEF SpentOnCalls
    <2> QED
      BY <2>3, <2>4 DEF TaskInv
  <1> QED
    BY <1>1, <1>2, <1>3 DEF EInv

\* A step of one task that leaves the cache alone has only its own part to keep.
LEMMA OwnPartOnly ==
    ASSUME EInv, NEW t \in Tasks, cache' = cache, TypeOK', TaskInv(t)',
           \A q \in Tasks : q # t =>
              /\ pc'[q] = pc[q] /\ batch'[q] = batch[q] /\ gained'[q] = gained[q]
              /\ cursor'[q] = cursor[q] /\ spent'[q] = spent[q] /\ waited'[q] = waited[q]
              /\ fresh'[q] = fresh[q] /\ called'[q] = called[q]
    PROVE  EInv'
  <1>1. CacheAccounted'
    BY DEF EInv, CacheAccounted
  <1>2. ASSUME NEW q \in Tasks, q # t PROVE TaskInv(q)'
    BY <1>2, OtherTask
  <1> QED
    BY <1>1, <1>2 DEF EInv

\* A new batch starts with nothing done.
LEMMA PollInv == ASSUME EInv, NEW t \in Tasks, Poll(t) PROVE EInv'
  <1> USE EnrichmentAssumption DEF times
  <1>1. /\ pc[t] = "idle" /\ Uses[t] # <<>> /\ pc' = [pc EXCEPT ![t] = "looking"]
        /\ UNCHANGED <<cache, gained, cursor, fresh, called, spent, waited>>
    BY DEF Poll, Goto
  <1>2. PICK b \in Batches : batch' = [batch EXCEPT ![t] = b]
    BY DEF Poll
  <1>3. TypeOK /\ TaskInv(t)
    BY DEF EInv
  <1>4. /\ gained[t] = {} /\ called[t] = {} /\ spent[t] = 0 /\ waited[t] = 0
        /\ cursor[t].enricher = 1
    BY <1>1, <1>3 DEF TaskInv, IdleClear, AnswerAccounted
  <1>5. pc'[t] = "looking" /\ \A q \in Tasks : q # t => pc'[q] = pc[q] /\ batch'[q] = batch[q]
    BY <1>1, <1>2, <1>3 DEF TypeOK
  <1>6. TypeOK'
    <2>1. 1 \in DOMAIN Uses[t]
      BY <1>1
    <2>2. /\ batch' \in [Tasks -> Batches]
          /\ pc' \in [Tasks -> {"idle", "looking", "calling", "storing"}]
      BY <1>1, <1>2, <1>3 DEF TypeOK
    <2>3. ASSUME NEW q \in Tasks
          PROVE  /\ gained'[q] \subseteq DOMAIN batch'[q]
                 /\ pc'[q] # "idle" => cursor'[q].enricher \in DOMAIN Uses[q]
      BY <1>1, <1>3, <1>4, <1>5, <2>1 DEF TypeOK
    <2> QED
      BY <1>1, <1>3, <2>2, <2>3 DEF TypeOK
  <1>7. TaskInv(t)'
    <2>1. Done(t)' = {} /\ Cardinality({}) = 0 /\ IsFiniteSet({})
      BY <1>1, <1>4, <1>5, FS_EmptySet DEF Done, Busy
    <2>2. IdleClear(t)' /\ AtWork(t)' /\ DoneLive(t)' /\ AnswerAccounted(t)'
      BY <1>1, <1>4, <1>5, <2>1 DEF IdleClear, AtWork, Busy, DoneLive, AnswerAccounted
    <2>3. SpentOnCalls(t)'
      <3>1. OnThisCall(t)' = 0
        BY <1>5 DEF OnThisCall
      <3> QED
        BY <1>1, <1>4, <2>1, <3>1 DEF SpentOnCalls
    <2> QED
      BY <2>2, <2>3 DEF TaskInv
  <1> QED
    BY <1>1, <1>5, <1>6, <1>7, OwnPartOnly

\* Moving on without a call: what is done stays done.
LEMMA LookInv ==
    ASSUME EInv, NEW t \in Tasks, Skip(t) \/ Hit(t) \/ NextEnricher(t)
    PROVE  EInv'
  <1> USE EnrichmentAssumption DEF times
  <1>1. /\ pc[t] = "looking"
        /\ UNCHANGED <<cache, pc, batch, fresh, called, spent, waited>>
    BY DEF Skip, Hit, NextEnricher, AtResource
  <1>2. TypeOK /\ TaskInv(t)
    BY DEF EInv
  <1>3. gained' = gained \/ ( /\ gained' = [gained EXCEPT ![t] = @ \cup {cursor[t].resource}]
                             /\ cursor[t].resource \in DOMAIN batch[t])
    BY DEF Skip, Hit, NextEnricher, Give, AtResource
  <1>4. /\ cursor' \in [Tasks -> [enricher : Nat, resource : 1 .. MaxBatch + 1]]
        /\ cursor'[t].enricher \in DOMAIN Uses[t]
        /\ \A q \in Tasks : q # t => cursor'[q] = cursor[q]
    <2>1. cursor[t] \in [enricher : Nat, resource : 1 .. MaxBatch + 1]
          /\ cursor \in [Tasks -> [enricher : Nat, resource : 1 .. MaxBatch + 1]]
          /\ cursor[t].enricher \in DOMAIN Uses[t] /\ DOMAIN Uses[t] = 1 .. Len(Uses[t])
          /\ Len(Uses[t]) \in Nat
      BY <1>1, <1>2 DEF TypeOK
    <2>2. CASE Skip(t) \/ Hit(t)
      <3>1. cursor[t].resource \in DOMAIN batch[t] /\ NextResource(t)
        BY <2>2 DEF Skip, Hit, AtResource
      <3> QED
        BY <1>2, <2>1, <3>1, NextResourceMoves
    <2>3. CASE NextEnricher(t)
      <3>1. /\ cursor[t].enricher < Len(Uses[t])
            /\ cursor' = [cursor EXCEPT
                             ![t] = [enricher |-> cursor[t].enricher + 1, resource |-> 1]]
        BY <2>3 DEF NextEnricher
      <3> QED
        BY <2>1, <3>1
    <2> QED
      BY <2>2, <2>3
  <1>5. TypeOK'
    <2>1. gained' \in [Tasks -> SUBSET (1 .. MaxBatch)]
          /\ \A q \in Tasks : gained'[q] \subseteq DOMAIN batch[q]
      <3>1. CASE gained' = gained
        BY <1>2, <3>1 DEF TypeOK
      <3>2. CASE /\ gained' = [gained EXCEPT ![t] = @ \cup {cursor[t].resource}]
                 /\ cursor[t].resource \in DOMAIN batch[t]
        <4>1. cursor[t].resource \in 1 .. MaxBatch
          BY <1>2, <3>2, ResourceInRange
        <4> QED
          BY <1>2, <3>2, <4>1 DEF TypeOK
      <3> QED
        BY <1>3, <3>1, <3>2
    <2> QED
      BY <1>1, <1>2, <1>4, <2>1 DEF TypeOK
  <1>6. TaskInv(t)'
    <2>1. Done(t)' = Done(t)
      BY <1>1 DEF Done, Busy
    <2> QED
      BY <1>1, <1>2, <2>1 DEF TaskInv, IdleClear, AtWork, Busy, AnswerAccounted, DoneLive,
                              SpentOnCalls, OnThisCall
  <1>7. \A q \in Tasks : q # t => gained'[q] = gained[q]
    BY <1>2, <1>3 DEF TypeOK
  <1> QED
    BY <1>1, <1>4, <1>5, <1>6, <1>7, OwnPartOnly
\* Whoever asks has not asked before: what is done is still live.
LEMMA AsksOnce ==
    ASSUME EInv, NEW t \in Tasks, Ask(t)
    PROVE  Current(t) \notin called[t]
  <1> SUFFICES ASSUME Current(t) \in called[t] PROVE FALSE
    OBVIOUS
  <1>1. TypeOK /\ DoneLive(t)
    BY DEF EInv, TaskInv
  <1>2. pc[t] = "looking" /\ ~Live(Cached(t))
    BY DEF Ask, AtResource
  <1>3. Current(t) \in Done(t)
    BY <1>2 DEF Done, Busy
  <1>4. /\ Cached(t) # NoAnswer /\ Cached(t).left + spent[t] >= TTL
    BY <1>1, <1>3 DEF DoneLive, Current, Cached
  <1>5. Cached(t) \in Answer
    <2>1. Here(t) \in Enrichers /\ Key(t) \in Keys
      BY <1>1, <1>3, DoneFacts DEF Current
    <2> QED
      BY <1>1, <1>4, <2>1 DEF TypeOK, Cached
  <1>6. Cached(t).left \in Int /\ spent[t] \in 0 .. EnrichTimeout
    BY <1>1, <1>5, EnrichmentAssumption DEF Answer, TypeOK
  <1> QED
    BY <1>2, <1>4, <1>6, EnrichmentAssumption DEF Live

\* A call starts: nothing is done by it yet.
LEMMA AskInv == ASSUME EInv, NEW t \in Tasks, Ask(t) PROVE EInv'
  <1> USE EnrichmentAssumption DEF times
  <1>1. /\ pc[t] = "looking" /\ pc' = [pc EXCEPT ![t] = "calling"]
        /\ cursor[t].resource \in DOMAIN batch[t] /\ Key(t) # NoKey
        /\ called' = [called EXCEPT ![t] = @ \cup {Current(t)}]
        /\ waited' = [waited EXCEPT ![t] = 0]
        /\ UNCHANGED <<cache, batch, gained, cursor, spent, fresh>>
    BY DEF Ask, AtResource, Goto, Current, Api!Begin
  <1>2. TypeOK /\ TaskInv(t)
    BY DEF EInv
  <1>3. Here(t) \in Enrichers /\ Key(t) \in Keys /\ Current(t) \in Enrichers \X Keys
    BY <1>1, <1>2, AtEnricher DEF Current
  <1>4. /\ pc'[t] = "calling" /\ waited'[t] = 0 /\ called'[t] = called[t] \cup {Current(t)}
        /\ \A q \in Tasks : q # t =>
              pc'[q] = pc[q] /\ waited'[q] = waited[q] /\ called'[q] = called[q]
    BY <1>1, <1>2 DEF TypeOK
  <1>5. TypeOK'
    BY <1>1, <1>2, <1>3 DEF TypeOK
  <1>6. Current(t)' = Current(t) /\ Key(t)' = Key(t)
    BY <1>1 DEF Current, Here, Key
  <1>7. Done(t)' = Done(t) /\ Done(t) = called[t]
    <2>1. Done(t) = called[t]
      BY <1>1 DEF Done, Busy
    <2>2. Done(t)' = (called[t] \cup {Current(t)}) \ {Current(t)}
      BY <1>4, <1>6 DEF Done, Busy
    <2> QED
      BY <2>1, <2>2, AsksOnce
  <1>8. TaskInv(t)'
    <2>1. IdleClear(t)' /\ AnswerAccounted(t)'
      BY <1>1, <1>2, <1>4 DEF IdleClear, AnswerAccounted, TaskInv
    <2>2. AtWork(t)'
      BY <1>1, <1>3, <1>4, <1>6 DEF AtWork
    <2>3. DoneLive(t)'
      BY <1>1, <1>2, <1>7 DEF DoneLive, TaskInv
    <2>4. SpentOnCalls(t)'
      <3>1. SpentOnCalls(t) /\ OnThisCall(t) = 0 /\ OnThisCall(t)' = 0
        <4>1. SpentOnCalls(t)
          BY <1>2 DEF TaskInv
        <4>2. OnThisCall(t) = 0
          BY <1>1 DEF OnThisCall
        <4>3. OnThisCall(t)' = 0
          BY <1>4 DEF OnThisCall
        <4> QED
          BY <4>1, <4>2, <4>3
      <3>2. IsFiniteSet(called'[t])
        <4>1. IsFiniteSet(called[t]) /\ called'[t] = called[t] \cup {Current(t)}
          BY <1>4, <3>1 DEF SpentOnCalls
        <4>2. IsFiniteSet(called[t] \cup {Current(t)})
          BY <4>1, FS_AddElement
        <4> QED
          BY <4>1, <4>2
      <3> QED
        BY <1>1, <1>7, <3>1, <3>2 DEF SpentOnCalls
    <2> QED
      BY <2>1, <2>2, <2>3, <2>4 DEF TaskInv
  <1> QED
    BY <1>1, <1>4, <1>5, <1>8, OwnPartOnly

\* The answer is no older than the call and has TTL or more ahead.
LEMMA AnsweredInv == ASSUME EInv, NEW t \in Tasks, Answered(t) PROVE EInv'
  <1> USE EnrichmentAssumption DEF times
  <1>1. /\ pc[t] = "calling" /\ pc' = [pc EXCEPT ![t] = "storing"]
        /\ waited' = [waited EXCEPT ![t] = 0]
        /\ UNCHANGED <<cache, batch, gained, cursor, spent, called>>
    BY DEF Answered, Goto, Api!End
  <1>2. TypeOK /\ TaskInv(t)
    BY DEF EInv
  <1>3. waited[t] \in Nat /\ waited[t] <= ApiTimeout
    BY <1>2 DEF TypeOK, TaskInv, AnswerAccounted
  <1>4. PICK ok \in BOOLEAN, age \in 0 .. waited[t], jitter \in 0 .. Jitter - 1 :
           fresh' = [fresh EXCEPT ![t] = [ok |-> ok, age |-> age, left |-> TTL + jitter]]
    BY DEF Answered
  <1> DEFINE a == [ok |-> ok, age |-> age, left |-> TTL + jitter]
  <1>5. a \in Answer /\ a.age <= ApiTimeout /\ a.left >= TTL
    BY <1>3 DEF Answer
  <1> HIDE DEF a
  <1>6. fresh' = [fresh EXCEPT ![t] = a]
    BY <1>4 DEF a
  <1>7. /\ pc'[t] = "storing" /\ waited'[t] = 0 /\ fresh'[t] = a
        /\ \A q \in Tasks : q # t =>
              pc'[q] = pc[q] /\ waited'[q] = waited[q] /\ fresh'[q] = fresh[q]
    BY <1>1, <1>2, <1>6 DEF TypeOK
  <1>8. TypeOK'
    BY <1>1, <1>2, <1>5, <1>6 DEF TypeOK
  <1>9. Current(t)' = Current(t) /\ Key(t)' = Key(t) /\ Done(t)' = Done(t)
    BY <1>1, <1>7 DEF Current, Here, Key, Done, Busy
  <1>10. TaskInv(t)'
    <2>1. IdleClear(t)' /\ AnswerAccounted(t)'
      BY <1>5, <1>7 DEF IdleClear, AnswerAccounted
    <2>2. AtWork(t)' /\ DoneLive(t)'
      BY <1>1, <1>2, <1>9 DEF AtWork, Busy, DoneLive, TaskInv
    <2>3. SpentOnCalls(t)'
      <3>1. IsFiniteSet(called[t]) /\ spent[t] <= ApiTimeout * Cardinality(Done(t)) + waited[t]
        BY <1>1, <1>2 DEF TaskInv, SpentOnCalls, OnThisCall
      <3>2. Cardinality(Done(t)) \in Nat /\ ApiTimeout * Cardinality(Done(t)) \in Nat
        BY <1>2, <3>1, DoneFacts, FS_Subset, FS_CardinalityType, TimesNext
      <3>3. spent[t] <= ApiTimeout * Cardinality(Done(t)) + ApiTimeout
        BY <1>2, <1>3, <3>1, <3>2 DEF TypeOK
      <3>4. OnThisCall(t)' = ApiTimeout
        BY <1>7 DEF OnThisCall
      <3> QED
        BY <1>1, <1>9, <3>1, <3>3, <3>4 DEF SpentOnCalls
    <2> QED
      BY <2>1, <2>2, <2>3 DEF TaskInv
  <1> QED
    BY <1>1, <1>7, <1>8, <1>10, OwnPartOnly
\* The new entry has its time to live ahead, and one call more is done.
LEMMA StoreInv == ASSUME EInv, NEW t \in Tasks, Store(t) PROVE EInv'
  <1> USE EnrichmentAssumption DEF times
  <1> DEFINE a == fresh[t]
             h == Here(t)
             y == Key(t)
  <1>1. /\ pc[t] = "storing" /\ pc' = [pc EXCEPT ![t] = "looking"]
        /\ cache' = [cache EXCEPT ![h][y] = a]
        /\ fresh' = [fresh EXCEPT ![t] = NoAnswer]
        /\ NextResource(t)
        /\ UNCHANGED <<batch, called, spent, waited>>
    BY DEF Store, Goto
  <1>2. TypeOK /\ TaskInv(t)
    BY DEF EInv
  <1>3. /\ cursor[t].resource \in DOMAIN batch[t] /\ h \in Enrichers /\ y \in Keys
        /\ Current(t) = <<h, y>> /\ Current(t) \in called[t]
    BY <1>1, <1>2, AtEnricher DEF TaskInv, AtWork, Busy, Current
  <1>4. a \in Answer /\ a # NoAnswer /\ a.age <= ApiTimeout /\ a.left >= TTL
        /\ a.age \in Nat /\ a.left \in 0 .. TTL + Jitter - 1
    BY <1>1, <1>2 DEF TaskInv, AnswerAccounted, Answer
  <1>5. /\ cursor' \in [Tasks -> [enricher : Nat, resource : 1 .. MaxBatch + 1]]
        /\ cursor'[t].enricher = cursor[t].enricher
        /\ \A q \in Tasks : q # t => cursor'[q] = cursor[q]
    BY <1>1, <1>2, <1>3, NextResourceMoves
  <1>6. gained' = gained \/ gained' = [gained EXCEPT ![t] = @ \cup {cursor[t].resource}]
    BY DEF Store, Give
  <1>7. /\ pc'[t] = "looking"
        /\ \A q \in Tasks : q # t =>
              pc'[q] = pc[q] /\ gained'[q] = gained[q] /\ fresh'[q] = fresh[q]
    BY <1>1, <1>2, <1>6 DEF TypeOK
  <1> HIDE DEF a, h, y
  <1>8. /\ cache' \in [Enrichers -> [Keys -> Answer \cup {NoAnswer}]]
        /\ cache'[h][y] = a
        /\ \A e \in Enrichers, k \in Keys : ~(e = h /\ k = y) => cache'[e][k] = cache[e][k]
    BY <1>1, <1>2, <1>3, <1>4 DEF TypeOK
  <1>9. TypeOK'
    <2>1. gained' \in [Tasks -> SUBSET (1 .. MaxBatch)]
          /\ \A q \in Tasks : gained'[q] \subseteq DOMAIN batch[q]
      <3>1. cursor[t].resource \in 1 .. MaxBatch
        BY <1>2, <1>3, ResourceInRange
      <3>2. CASE gained' = gained
        BY <1>2, <3>2 DEF TypeOK
      <3>3. CASE gained' = [gained EXCEPT ![t] = @ \cup {cursor[t].resource}]
        BY <1>2, <1>3, <3>1, <3>3 DEF TypeOK
      <3> QED
        BY <1>6, <3>2, <3>3
    <2>2. /\ pc' \in [Tasks -> {"idle", "looking", "calling", "storing"}]
          /\ fresh' \in [Tasks -> Answer \cup {NoAnswer}]
      BY <1>1, <1>2 DEF TypeOK
    <2>3. ASSUME NEW q \in Tasks, pc'[q] # "idle"
          PROVE  cursor'[q].enricher \in DOMAIN Uses[q]
      BY <1>1, <1>2, <1>5, <1>7, <2>3 DEF TypeOK
    <2> QED
      BY <1>1, <1>2, <1>5, <1>8, <2>1, <2>2, <2>3 DEF TypeOK
  <1>10. CacheAccounted'
    <2> SUFFICES ASSUME NEW e \in Enrichers, NEW k \in Keys, cache'[e][k] # NoAnswer
                 PROVE  cache'[e][k].age + cache'[e][k].left <= TTL + (Jitter - 1) + ApiTimeout
      BY DEF CacheAccounted
    <2>1. CASE e = h /\ k = y
      BY <1>4, <1>8, <2>1
    <2>2. CASE ~(e = h /\ k = y)
      BY <1>8, <2>2 DEF EInv, CacheAccounted
    <2> QED
      BY <2>1, <2>2
  <1>11. ASSUME NEW q \in Tasks, q # t PROVE TaskInv(q)'
    BY <1>1, <1>4, <1>5, <1>7, <1>8, <1>11, OtherTask
  <1>12. TaskInv(t)'
    <2>1. Done(t)' = called[t] /\ Done(t) = called[t] \ {Current(t)}
      BY <1>1, <1>7 DEF Done, Busy
    <2>2. IdleClear(t)' /\ AnswerAccounted(t)' /\ AtWork(t)'
      BY <1>1, <1>2, <1>7 DEF IdleClear, AnswerAccounted, AtWork, Busy, TaskInv
    <2>3. DoneLive(t)'
      <3> SUFFICES ASSUME NEW c \in called[t]
                   PROVE  cache'[c[1]][c[2]] # NoAnswer
                          /\ cache'[c[1]][c[2]].left + spent[t] >= TTL
        BY <1>1, <2>1 DEF DoneLive
      <3>1. c[1] \in Enrichers /\ c[2] \in Keys /\ c = <<c[1], c[2]>> /\ spent[t] \in Nat
        BY <1>2, DoneFacts DEF TypeOK
      <3>2. CASE c = Current(t)
        BY <1>3, <1>4, <1>8, <3>1, <3>2
      <3>3. CASE c # Current(t)
        <4>1. ~(c[1] = h /\ c[2] = y) /\ c \in Done(t)
          BY <1>3, <2>1, <3>1, <3>3
        <4> QED
          BY <1>2, <1>8, <3>1, <4>1 DEF TaskInv, DoneLive
      <3> QED
        BY <3>2, <3>3
    <2>4. SpentOnCalls(t)'
      <3>1. IsFiniteSet(called[t]) /\ spent[t] <= ApiTimeout * Cardinality(Done(t)) + ApiTimeout
        BY <1>1, <1>2 DEF TaskInv, SpentOnCalls, OnThisCall
      <3>2. /\ Cardinality(called[t]) \in Nat /\ Cardinality(Done(t)) \in Nat
            /\ Cardinality(called[t]) = Cardinality(Done(t)) + 1
        <4>1. IsFiniteSet(called[t]) /\ Current(t) \in called[t]
          BY <1>3, <3>1
        <4>2. /\ IsFiniteSet(called[t] \ {Current(t)})
              /\ Cardinality(called[t] \ {Current(t)}) = Cardinality(called[t]) - 1
          BY <4>1, FS_RemoveElement
        <4>3. Cardinality(called[t]) \in Nat /\ Cardinality(called[t] \ {Current(t)}) \in Nat
          BY <4>1, <4>2, FS_CardinalityType
        <4> QED
          BY <2>1, <4>2, <4>3
      <3>3. spent[t] <= ApiTimeout * Cardinality(called[t])
        BY <3>1, <3>2, TimesNext
      <3>4. OnThisCall(t)' = 0 /\ ApiTimeout * Cardinality(called[t]) \in Nat
        BY <1>7, <3>2, TimesNext DEF OnThisCall
      <3> QED
        BY <1>1, <2>1, <3>1, <3>3, <3>4 DEF SpentOnCalls
    <2> QED
      BY <2>2, <2>3, <2>4 DEF TaskInv
  <1> QED
    BY <1>9, <1>10, <1>11, <1>12 DEF EInv

\* A batch that goes out takes everything with it but the cache.
LEMMA FinishInv == ASSUME EInv, NEW t \in Tasks, Enriched(t) \/ Timeout(t) PROVE EInv'
  <1> USE EnrichmentAssumption
  <1> DEFINE start == [enricher |-> 1, resource |-> 1]
  <1>1. /\ pc' = [pc EXCEPT ![t] = "idle"] /\ batch' = [batch EXCEPT ![t] = <<>>]
        /\ gained' = [gained EXCEPT ![t] = {}] /\ cursor' = [cursor EXCEPT ![t] = start]
        /\ spent' = [spent EXCEPT ![t] = 0] /\ waited' = [waited EXCEPT ![t] = 0]
        /\ fresh' = [fresh EXCEPT ![t] = NoAnswer] /\ called' = [called EXCEPT ![t] = {}]
        /\ cache' = cache
    BY DEF Enriched, Timeout, Finish, Goto
  <1>2. TypeOK
    BY DEF EInv
  <1>3. start \in [enricher : Nat, resource : 1 .. MaxBatch + 1]
    OBVIOUS
  <1> HIDE DEF start
  <1>4. /\ pc'[t] = "idle" /\ gained'[t] = {} /\ cursor'[t] = start
        /\ spent'[t] = 0 /\ waited'[t] = 0 /\ called'[t] = {}
    BY <1>1, <1>2 DEF TypeOK
  <1>5. \A q \in Tasks : q # t =>
              /\ pc'[q] = pc[q] /\ batch'[q] = batch[q] /\ gained'[q] = gained[q]
              /\ cursor'[q] = cursor[q] /\ spent'[q] = spent[q] /\ waited'[q] = waited[q]
              /\ fresh'[q] = fresh[q] /\ called'[q] = called[q]
    BY <1>1, <1>2 DEF TypeOK
  <1>6. TypeOK'
    <2>1. /\ pc' \in [Tasks -> {"idle", "looking", "calling", "storing"}]
          /\ batch' \in [Tasks -> Batches]
          /\ gained' \in [Tasks -> SUBSET (1 .. MaxBatch)]
          /\ cursor' \in [Tasks -> [enricher : Nat, resource : 1 .. MaxBatch + 1]]
      BY <1>1, <1>2, <1>3, EmptyBatch DEF TypeOK
    <2>2. /\ spent' \in [Tasks -> 0 .. EnrichTimeout] /\ waited' \in [Tasks -> Nat]
          /\ fresh' \in [Tasks -> Answer \cup {NoAnswer}]
          /\ called' \in [Tasks -> SUBSET (Enrichers \X Keys)]
      BY <1>1, <1>2 DEF TypeOK
    <2>3. ASSUME NEW q \in Tasks
          PROVE  /\ gained'[q] \subseteq DOMAIN batch'[q]
                 /\ pc'[q] # "idle" => cursor'[q].enricher \in DOMAIN Uses[q]
      BY <1>2, <1>4, <1>5 DEF TypeOK
    <2> QED
      BY <1>1, <1>2, <2>1, <2>2, <2>3 DEF TypeOK
  <1>7. TaskInv(t)'
    <2>1. Done(t)' = {} /\ Cardinality({}) = 0 /\ IsFiniteSet({})
      BY <1>4, FS_EmptySet DEF Done, Busy
    <2>2. IdleClear(t)' /\ AtWork(t)' /\ DoneLive(t)' /\ AnswerAccounted(t)'
      BY <1>4, <2>1 DEF IdleClear, AtWork, Busy, DoneLive, AnswerAccounted, start
    <2>3. SpentOnCalls(t)'
      <3>1. OnThisCall(t)' = 0
        BY <1>4 DEF OnThisCall
      <3> QED
        BY <1>4, <2>1, <3>1 DEF SpentOnCalls
    <2> QED
      BY <2>2, <2>3 DEF TaskInv
  <1> QED
    BY <1>1, <1>5, <1>6, <1>7, OwnPartOnly
\* Time passes: what a cached answer loses of its time to live, it gains in age, and a
\* batch that is waiting in time spent.
LEMMA TickInv == EInv /\ Tick => EInv'
  <1> USE EnrichmentAssumption DEF taskVars
  <1> SUFFICES ASSUME EInv, Tick PROVE EInv'
    OBVIOUS
  <1>1. /\ \A t \in Tasks : pc[t] = "idle" \/ (pc[t] = "calling" /\ spent[t] < EnrichTimeout)
        /\ \A t \in Tasks : pc[t] = "calling" => waited[t] < ApiTimeout
        /\ cache' = [e \in Enrichers |-> [k \in Keys |-> Older(cache[e][k])]]
        /\ spent' = [t \in Tasks |-> IF pc[t] = "calling" THEN spent[t] + 1 ELSE 0]
        /\ waited' = [t \in Tasks |-> IF pc[t] = "calling" THEN waited[t] + 1 ELSE 0]
        /\ UNCHANGED <<pc, batch, gained, cursor, fresh, called>>
    BY DEF Tick, Age, Api!Elapse
  <1>2. TypeOK /\ CacheAccounted
    BY DEF EInv
  <1>3. ASSUME NEW a \in Answer \cup {NoAnswer}
        PROVE  /\ Older(a) \in Answer \cup {NoAnswer}
               /\ a = NoAnswer => Older(a) = NoAnswer
    BY OlderFacts DEF Older
  <1>4. ASSUME NEW e \in Enrichers, NEW k \in Keys
        PROVE  cache[e][k] \in Answer \cup {NoAnswer} /\ cache'[e][k] = Older(cache[e][k])
    BY <1>1, <1>2 DEF TypeOK
  <1>5. TypeOK'
    <2>1. cache' \in [Enrichers -> [Keys -> Answer \cup {NoAnswer}]]
      <3>1. \A e \in Enrichers, k \in Keys : Older(cache[e][k]) \in Answer \cup {NoAnswer}
        BY <1>3, <1>4
      <3> QED
        BY <1>1, <3>1
    <2>2. ASSUME NEW t \in Tasks
          PROVE  /\ (IF pc[t] = "calling" THEN spent[t] + 1 ELSE 0) \in 0 .. EnrichTimeout
                 /\ (IF pc[t] = "calling" THEN waited[t] + 1 ELSE 0) \in Nat
      <3>1. spent[t] \in 0 .. EnrichTimeout /\ waited[t] \in Nat
        BY <1>2 DEF TypeOK
      <3>2. pc[t] = "calling" => spent[t] < EnrichTimeout
        BY <1>1
      <3> QED
        BY <3>1, <3>2
    <2>3. spent' \in [Tasks -> 0 .. EnrichTimeout] /\ waited' \in [Tasks -> Nat]
      BY <1>1, <2>2
    <2> QED
      BY <1>1, <1>2, <2>1, <2>3 DEF TypeOK
  <1>6. CacheAccounted'
    <2> SUFFICES ASSUME NEW e \in Enrichers, NEW k \in Keys, cache'[e][k] # NoAnswer
                 PROVE  cache'[e][k].age + cache'[e][k].left <= TTL + (Jitter - 1) + ApiTimeout
      BY DEF CacheAccounted
    <2>1. cache[e][k] \in Answer /\ cache'[e][k] = Older(cache[e][k])
      BY <1>3, <1>4
    <2> QED
      BY <1>2, <2>1, OlderFacts DEF CacheAccounted
  <1>7. ASSUME NEW t \in Tasks PROVE TaskInv(t)'
    <2>1. TaskInv(t)
      BY DEF EInv
    <2>2. Done(t)' = Done(t) /\ Current(t)' = Current(t) /\ Key(t)' = Key(t)
      BY <1>1 DEF Done, Busy, Current, Here, Key
    <2>3. spent[t] \in Nat /\ waited[t] \in Nat
      BY <1>2 DEF TypeOK
    <2>4. /\ pc[t] = "calling" => spent'[t] = spent[t] + 1 /\ waited'[t] = waited[t] + 1
          /\ pc[t] # "calling" => pc[t] = "idle" /\ spent'[t] = 0 /\ waited'[t] = 0
      BY <1>1
    <2>5. IdleClear(t)' /\ AtWork(t)' /\ AnswerAccounted(t)'
      BY <1>1, <2>1, <2>2, <2>3, <2>4
         DEF TaskInv, IdleClear, AtWork, Busy, AnswerAccounted
    <2>6. DoneLive(t)'
      <3> SUFFICES ASSUME NEW c \in Done(t)
                   PROVE  cache'[c[1]][c[2]] # NoAnswer
                          /\ cache'[c[1]][c[2]].left + spent'[t] >= TTL
        BY <2>2 DEF DoneLive
      <3>1. c[1] \in Enrichers /\ c[2] \in Keys /\ c \in called[t]
        BY <1>2, DoneFacts
      <3>2. pc[t] = "calling"
        BY <2>1, <2>4, <3>1 DEF TaskInv, IdleClear
      <3>3. cache[c[1]][c[2]] # NoAnswer /\ cache[c[1]][c[2]].left + spent[t] >= TTL
        BY <2>1 DEF TaskInv, DoneLive
      <3> DEFINE a == cache[c[1]][c[2]]
      <3>4. a \in Answer \cup {NoAnswer} /\ cache'[c[1]][c[2]] = Older(a) /\ a # NoAnswer
        BY <1>4, <3>1, <3>3
      <3> HIDE DEF a
      <3>5. Older(a) # NoAnswer /\ Older(a).left \in Nat /\ a.left \in Nat
            /\ Older(a).left >= a.left - 1
        BY <3>4, OlderFacts
      <3>6. a.left + spent[t] >= TTL /\ spent'[t] = spent[t] + 1
        BY <2>4, <3>2, <3>3 DEF a
      <3> QED
        BY <2>3, <3>4, <3>5, <3>6
    <2>7. SpentOnCalls(t)'
      <3>1. IsFiniteSet(called[t]) /\ spent[t] <= ApiTimeout * Cardinality(Done(t)) + OnThisCall(t)
        BY <2>1 DEF TaskInv, SpentOnCalls
      <3>2. Cardinality(Done(t)) \in Nat /\ ApiTimeout * Cardinality(Done(t)) \in Nat
        BY <1>2, <3>1, DoneFacts, FS_Subset, FS_CardinalityType, TimesNext
      <3>3. CASE pc[t] = "calling"
        <4>1. OnThisCall(t) = waited[t] /\ OnThisCall(t)' = waited[t] + 1
          BY <1>1, <2>4, <3>3 DEF OnThisCall
        <4>2. spent'[t] <= ApiTimeout * Cardinality(Done(t)) + (waited[t] + 1)
          BY <2>3, <2>4, <3>1, <3>2, <3>3, <4>1
        <4> QED
          BY <1>1, <2>2, <3>1, <4>1, <4>2 DEF SpentOnCalls
      <3>4. CASE pc[t] # "calling"
        <4>1. OnThisCall(t)' = 0 /\ spent'[t] = 0
          BY <1>1, <2>4, <3>4 DEF OnThisCall
        <4> QED
          BY <1>1, <2>2, <3>1, <3>2, <4>1 DEF SpentOnCalls
      <3> QED
        BY <3>3, <3>4
    <2> QED
      BY <2>5, <2>6, <2>7 DEF TaskInv
  <1> QED
    BY <1>5, <1>6, <1>7 DEF EInv

\* A step that changes nothing keeps the invariant.
LEMMA EnrichmentStutter == EInv /\ UNCHANGED vars => EInv'
  <1> SUFFICES ASSUME EInv, UNCHANGED vars PROVE EInv'
    OBVIOUS
  <1>1. UNCHANGED <<cache, pc, batch, gained, cursor, fresh, called, spent, waited>>
    BY DEF vars, taskVars, times
  <1>2. TypeOK' /\ CacheAccounted'
    BY <1>1 DEF EInv, TypeOK, CacheAccounted
  <1>3. ASSUME NEW q \in Tasks PROVE TaskInv(q)'
    BY <1>1, OtherTask
  <1> QED
    BY <1>2, <1>3 DEF EInv

\* The invariant is inductive.
LEMMA EnrichmentNext == EInv /\ [Next]_vars => EInv'
  <1> SUFFICES ASSUME EInv, [Next]_vars PROVE EInv'
    OBVIOUS
  <1>1. ASSUME NEW t \in Tasks, TaskStep(t) PROVE EInv'
    BY <1>1, PollInv, LookInv, AskInv, AnsweredInv, StoreInv, FinishInv DEF TaskStep
  <1> QED
    BY <1>1, TickInv, EnrichmentStutter DEF Next
-----------------------------------------------------------------------------
(* The theorems.                                                           *)

\* The inductive invariant holds in every reachable state.
THEOREM EnrichmentInvariance == Spec => []EInv
  <1>1. Init => EInv
    BY EnrichmentInit
  <1>2. EInv /\ [Next]_vars => EInv'
    BY EnrichmentNext
  <1> QED
    BY <1>1, <1>2, PTL DEF Spec

\* Every variable stays in its range: no lookup goes past the end of a batch or of a
\* task's enrichers, and no batch is held longer than EnrichTimeout.
THEOREM EnrichmentTypeCorrect == Spec => []TypeOK
  <1>1. EInv => TypeOK
    BY DEF EInv
  <1> QED
    BY <1>1, EnrichmentInvariance, PTL

\* However many tasks race on an entry, what is served from the cache was true less than
\* TTL + Jitter - 1 + ApiTimeout ago (attribute_enricher.rs 115-140).
THEOREM AlwaysServedFresh == Spec => ServedFresh
  <1>1. ASSUME EInv, NEW t \in Tasks, Hit(t)
        PROVE  Cached(t).age < TTL + (Jitter - 1) + ApiTimeout
    <2>1. TypeOK /\ pc[t] = "looking" /\ Key(t) # NoKey
          /\ cursor[t].resource \in DOMAIN batch[t] /\ Cached(t) # NoAnswer /\ Cached(t).left > 0
      BY <1>1 DEF EInv, Hit, AtResource, Live
    <2>2. Here(t) \in Enrichers /\ Key(t) \in Keys
      BY <2>1, AtEnricher
    <2>3. Cached(t) \in Answer
      BY <2>1, <2>2 DEF TypeOK, Cached
    <2>4. Cached(t).age \in Int /\ Cached(t).left \in Int
      BY <2>3, EnrichmentAssumption DEF Answer
    <2>5. Cached(t).age + Cached(t).left <= TTL + (Jitter - 1) + ApiTimeout
      BY <1>1, <2>1, <2>2 DEF EInv, CacheAccounted, Cached
    <2> QED
      BY <2>1, <2>4, <2>5, EnrichmentAssumption
  <1>2. EInv /\ [Next]_vars =>
          [\A t \in Tasks : Hit(t) => Cached(t).age < TTL + (Jitter - 1) + ApiTimeout]_vars
    BY <1>1
  <1> QED
    BY <1>2, EnrichmentInvariance, PTL DEF Spec, ServedFresh

\* No batch makes the same API call twice (attribute_enricher.rs 115-140): the entry an
\* answer made, or the one that replaced it, outlives the batch.
THEOREM AskedOncePerBatch == Spec => OneCallPerBatch
  <1>1. EInv /\ [Next]_vars =>
          [\A t \in Tasks : Ask(t) => <<Here(t), Key(t)>> \notin called[t]]_vars
    BY AsksOnce DEF Current
  <1> QED
    BY <1>1, EnrichmentInvariance, PTL DEF Spec, OneCallPerBatch
\* A slow lookup that overtakes a faster one sets an entry back by ApiTimeout at most
\* (attribute_enricher.rs 126-137).
THEOREM NeverSetBackFurther == Spec => SetBackBounded
  <1> USE EnrichmentAssumption
  <1>1. ASSUME EInv, Next \/ UNCHANGED vars, NEW e \in Enrichers, NEW k \in Keys,
               cache[e][k] # NoAnswer, cache'[e][k] # NoAnswer
        PROVE  cache'[e][k].age <= cache[e][k].age + ApiTimeout
    <2>1. TypeOK
      BY <1>1 DEF EInv
    <2>2. cache[e][k] \in Answer
      BY <1>1, <2>1 DEF TypeOK
    <2>3. cache[e][k].age \in Nat /\ cache[e][k].left \in Nat
      BY <2>2 DEF Answer
    <2>4. CASE cache'[e][k] = cache[e][k]
      BY <2>3, <2>4
    <2>5. ASSUME NEW t \in Tasks, Store(t) PROVE cache'[e][k].age <= cache[e][k].age + ApiTimeout
      <3>1. fresh[t] \in Answer /\ fresh[t].age <= ApiTimeout
        BY <1>1, <2>5 DEF EInv, TaskInv, AnswerAccounted, Store
      <3>2. cache'[e][k] = cache[e][k] \/ cache'[e][k] = fresh[t]
        BY <2>1, <2>5 DEF Store, TypeOK
      <3>3. fresh[t].age \in Nat
        BY <3>1 DEF Answer
      <3> QED
        BY <2>3, <2>4, <3>1, <3>2, <3>3
    <2>6. CASE Tick
      <3>1. cache'[e][k] = Older(cache[e][k])
        BY <2>6 DEF Tick, Age
      <3> QED
        BY <2>2, <2>3, <3>1, OlderFacts
    <2>7. CASE cache' = cache
      BY <2>4, <2>7
    <2>8. ASSUME NEW t \in Tasks, TaskStep(t), ~Store(t) PROVE cache' = cache
      BY <2>8 DEF TaskStep, Poll, Skip, Hit, Ask, Answered, NextEnricher, Enriched, Timeout,
                  Finish
    <2> QED
      BY <1>1, <2>5, <2>6, <2>7, <2>8 DEF Next, vars
  <1>2. EInv /\ [Next]_vars =>
          [\A e \in Enrichers, k \in Keys :
              cache[e][k] # NoAnswer /\ cache'[e][k] # NoAnswer =>
                  cache'[e][k].age <= cache[e][k].age + ApiTimeout]_vars
    BY <1>1
  <1> QED
    BY <1>2, EnrichmentInvariance, PTL DEF Spec, SetBackBounded

\* A batch that runs out of time leaves (EnrichTimeout - 1) \div ApiTimeout answers or
\* more in the cache: all its time went into calls, each but the last was answered within
\* ApiTimeout, and no answer has expired since (intersight_poller.rs 103-111, 164-172).
THEOREM TimeNotWasted == Spec => TimeoutMadeProgress
  <1> USE EnrichmentAssumption
  <1>1. ASSUME EInv, NEW t \in Tasks, Timeout(t)
        PROVE  Cardinality({c \in called[t] : Live(cache[c[1]][c[2]])})
                  >= (EnrichTimeout - 1) \div ApiTimeout
    <2> DEFINE S == {c \in called[t] : Live(cache[c[1]][c[2]])}
               n == Cardinality(Done(t))
    <2>1. TypeOK /\ TaskInv(t) /\ spent[t] \in 0 .. EnrichTimeout /\ spent[t] >= EnrichTimeout
      BY <1>1 DEF EInv, TypeOK, Timeout
    <2>2. Done(t) \subseteq S
      <3> SUFFICES ASSUME NEW c \in Done(t) PROVE Live(cache[c[1]][c[2]])
        BY <2>1, DoneFacts
      <3>1. /\ cache[c[1]][c[2]] # NoAnswer /\ cache[c[1]][c[2]].left + spent[t] >= TTL
        BY <2>1 DEF TaskInv, DoneLive
      <3>2. c[1] \in Enrichers /\ c[2] \in Keys
        BY <2>1, DoneFacts
      <3>3. cache[c[1]][c[2]] \in Answer
        BY <2>1, <3>1, <3>2 DEF TypeOK
      <3>4. cache[c[1]][c[2]].left \in Int
        BY <3>3 DEF Answer
      <3> QED
        BY <2>1, <3>1, <3>4 DEF Live
    <2>3. /\ IsFiniteSet(called[t]) /\ spent[t] <= ApiTimeout * n + OnThisCall(t)
      BY <2>1 DEF TaskInv, SpentOnCalls
    <2>4. IsFiniteSet(S) /\ n \in Nat /\ Cardinality(S) \in Nat /\ n <= Cardinality(S)
      <3>1. IsFiniteSet(S)
        BY <2>3, FS_Subset
      <3>2. IsFiniteSet(Done(t)) /\ n <= Cardinality(S)
        BY <2>2, <3>1, FS_Subset
      <3> QED
        BY <3>1, <3>2, FS_CardinalityType
    <2>5. OnThisCall(t) \in Nat /\ OnThisCall(t) <= ApiTimeout
      <3>1. waited[t] \in Nat /\ waited[t] <= ApiTimeout
        BY <2>1 DEF TypeOK, TaskInv, AnswerAccounted
      <3> QED
        BY <3>1 DEF OnThisCall
    <2> HIDE DEF S, n
    <2>6. ApiTimeout * n \in Nat
      BY <2>4
    <2>7. EnrichTimeout - 1 \in Nat /\ EnrichTimeout - 1 < ApiTimeout * n + ApiTimeout
      BY <2>1, <2>3, <2>5, <2>6
    <2>8. n >= (EnrichTimeout - 1) \div ApiTimeout
      BY <2>4, <2>7, FewerCalls
    <2>9. (EnrichTimeout - 1) \div ApiTimeout \in Nat
      BY <2>7, DivBounds
    <2> QED
      BY <2>4, <2>8, <2>9 DEF S
  <1>2. EInv /\ [Next]_vars =>
          [\A t \in Tasks :
              Timeout(t) =>
                  Cardinality({c \in called[t] : Live(cache[c[1]][c[2]])})
                      >= (EnrichTimeout - 1) \div ApiTimeout]_vars
    BY <1>1
  <1> QED
    BY <1>2, EnrichmentInvariance, PTL DEF Spec, TimeoutMadeProgress
=============================================================================
