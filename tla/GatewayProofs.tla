--------------------------- MODULE GatewayProofs ---------------------------
(***************************************************************************)
(* The tables of the API's rate limits: the proofs, for all sets of        *)
(* callers, all limits, and all capacities.                                *)
(***************************************************************************)
EXTENDS Gateway, ClientProofs, FiniteSetTheorems

-----------------------------------------------------------------------------
(* One limiter. *)

LEMMA Limits ==
  /\ WindowMs \in Nat /\ WindowMs > 0
  /\ {GlobalMax, IpMax, SenderMax, MethodMax, MaxBuckets, MaxIps} \subseteq Nat \ {0}
  /\ IsFiniteSet(Ips) /\ IsFiniteSet(Accounts)
  BY RateLimitAssumption

LEMMA SweptKept ==
  ASSUME NEW K, NEW limit \in Nat, NEW buckets \in Limiter(K, limit)
  PROVE  /\ Swept(buckets) \in Limiter(K, limit)
         /\ Held(buckets) \subseteq K
         /\ Held(Swept(buckets)) = {k \in Held(buckets) : ~WindowEnded(buckets, k)}
         /\ \A k \in Held(Swept(buckets)) : Swept(buckets)[k] = buckets[k]
  BY Limits DEF Limiter, Swept, Held, NoBucket, WindowEnded

LEMMA EvictedKept ==
  ASSUME NEW K, IsFiniteSet(K), NEW limit \in Nat, NEW buckets \in Limiter(K, limit),
         NEW b \in Evicted(buckets)
  PROVE  /\ b \in Limiter(K, limit)
         /\ \E k \in Oldest(buckets) : Held(b) = Held(buckets) \ {k}
         /\ Cardinality(Held(b)) = Cardinality(Held(buckets)) - 1
  <1>1. PICK k \in Oldest(buckets) : b = [buckets EXCEPT ![k] = NoBucket]
    BY DEF Evicted
  <1>2. k \in Held(buckets) /\ k \in K /\ Held(buckets) \subseteq K
    BY DEF Oldest, Held, Limiter
  <1>3. b \in Limiter(K, limit)
    <2>1. NoBucket \in [age: 0..WindowMs, count: 0..limit]
      BY Limits DEF NoBucket
    <2> QED
      BY <1>1, <2>1 DEF Limiter
  <1>4. Held(b) = Held(buckets) \ {k}
    BY <1>1, <1>2 DEF Held, Limiter
  <1> QED
    BY <1>2, <1>3, <1>4, FS_Subset, FS_RemoveElement

\* After enforceCapacity there is room for the key.
LEMMA RoomBounds ==
  ASSUME NEW K, IsFiniteSet(K), NEW limit \in Nat, NEW buckets \in Limiter(K, limit),
         NEW max \in Nat \ {0}, NEW key \in K, Cardinality(Held(buckets)) <= max,
         NEW b \in WithRoom(buckets, max, key)
  PROVE  /\ b \in Limiter(K, limit)
         /\ IsFiniteSet(Held(b) \cup {key})
         /\ Cardinality(Held(b) \cup {key}) <= max
  <1> DEFINE kept == Held(Swept(buckets))
  <1>1. /\ Swept(buckets) \in Limiter(K, limit)
        /\ kept \subseteq Held(buckets) /\ Held(buckets) \subseteq K
    BY SweptKept
  <1>2. /\ IsFiniteSet(Held(buckets)) /\ IsFiniteSet(kept)
        /\ Cardinality(kept) <= Cardinality(Held(buckets))
    BY <1>1, FS_Subset
  <1>3. Cardinality(kept) \in Nat /\ Cardinality(Held(buckets)) \in Nat
    BY <1>2, FS_CardinalityType
  <1>4. ASSUME NEW S, IsFiniteSet(S), Cardinality(S) < max \/ (key \in S /\ Cardinality(S) <= max)
        PROVE  IsFiniteSet(S \cup {key}) /\ Cardinality(S \cup {key}) <= max
    <2>1. Cardinality(S) \in Nat
      BY <1>4, FS_CardinalityType
    <2>2. CASE key \in S
      <3>1. S \cup {key} = S
        BY <2>2
      <3> QED
        BY <1>4, <2>1, <3>1
    <2>3. CASE key \notin S
      <3>1. IsFiniteSet(S \cup {key}) /\ Cardinality(S \cup {key}) = Cardinality(S) + 1
        BY <1>4, <2>3, FS_AddElement
      <3>2. Cardinality(S) < max
        BY <1>4, <2>3
      <3> QED
        BY <2>1, <3>1, <3>2
    <2> QED
      BY <2>2, <2>3
  <1>5. CASE Cardinality(kept) >= max /\ key \notin kept
    <2>1. b \in Evicted(Swept(buckets))
      BY <1>5 DEF WithRoom
    <2>2. /\ b \in Limiter(K, limit) /\ Held(b) \subseteq kept
          /\ Cardinality(Held(b)) = Cardinality(kept) - 1
      BY <1>1, <2>1, EvictedKept
    <2>3. IsFiniteSet(Held(b))
      BY <1>2, <2>2, FS_Subset
    <2> QED
      BY <1>2, <1>3, <1>4, <2>2, <2>3
  <1>6. CASE ~(Cardinality(kept) >= max /\ key \notin kept)
    <2>1. \/ b = Swept(buckets)
          \/ b = buckets /\ ~(Cardinality(Held(buckets)) >= max)
      BY <1>6 DEF WithRoom
    <2> QED
      BY <1>1, <1>2, <1>3, <1>4, <1>6, <2>1
  <1> QED
    BY <1>5, <1>6

LEMMA CountedKept ==
  ASSUME NEW K, NEW limit \in Nat \ {0}, NEW b \in Limiter(K, limit), NEW key \in K
  PROVE  /\ Counted(b, limit, key) \in Limiter(K, limit)
         /\ Held(Counted(b, limit, key)) \subseteq Held(b) \cup {key}
         /\ Counted(b, limit, key)[key] # NoBucket
         /\ \A k \in K \ {key} : Counted(b, limit, key)[k] = b[k]
  BY Limits DEF Counted, Limiter, Held, NoBucket, WindowEnded

\* consume keeps the counts within the limit and the map within its capacity.
LEMMA ConsumedBounds ==
  ASSUME NEW K, IsFiniteSet(K), NEW limit \in Nat \ {0}, NEW buckets \in Limiter(K, limit),
         NEW max \in Nat \ {0}, NEW key \in K, Cardinality(Held(buckets)) <= max,
         NEW c \in Consumed(buckets, limit, max, key)
  PROVE  c \in Limiter(K, limit) /\ Cardinality(Held(c)) <= max
  <1>1. PICK b \in WithRoom(buckets, max, key) : c = Counted(b, limit, key)
    BY DEF Consumed
  <1>2. /\ b \in Limiter(K, limit) /\ IsFiniteSet(Held(b) \cup {key})
        /\ Cardinality(Held(b) \cup {key}) <= max
    BY RoomBounds
  <1>3. c \in Limiter(K, limit) /\ Held(c) \subseteq Held(b) \cup {key}
    BY <1>1, <1>2, CountedKept
  <1>4. /\ Cardinality(Held(c)) <= Cardinality(Held(b) \cup {key})
        /\ IsFiniteSet(Held(c))
    BY <1>2, <1>3, FS_Subset
  <1> QED
    BY <1>2, <1>3, <1>4, FS_CardinalityType

LEMMA AgedBounds ==
  ASSUME NEW K, IsFiniteSet(K), NEW limit \in Nat, NEW buckets \in Limiter(K, limit)
  PROVE  /\ AgedBuckets(buckets) \in Limiter(K, limit)
         /\ Held(AgedBuckets(buckets)) = Held(buckets)
  BY Limits DEF AgedBuckets, Limiter, Held, NoBucket, OneOlder

-----------------------------------------------------------------------------
(* The churn tracker. *)

ChurnWindows == [Ips -> [age: 0..WindowMs, senders: SUBSET Accounts]]

LEMMA RecordedBounds ==
  ASSUME NEW windows \in ChurnWindows, Cardinality(Tracked(windows)) <= MaxIps,
         NEW ip \in Ips, NEW sender \in Accounts, NEW w \in Recorded(windows, ip, sender)
  PROVE  w \in ChurnWindows /\ Cardinality(Tracked(w)) <= MaxIps
  <1>0. /\ IsFiniteSet(Tracked(windows)) /\ Cardinality(Tracked(windows)) \in Nat
        /\ MaxIps \in Nat \ {0}
    BY Limits, FS_Subset, FS_CardinalityType DEF Tracked
  <1>1. CASE ip \in Tracked(windows) /\ windows[ip].age < WindowMs
    <2>1. w = [windows EXCEPT ![ip].senders = @ \cup {sender}]
      BY <1>1 DEF Recorded
    <2>2. w \in ChurnWindows
      BY <2>1 DEF ChurnWindows
    <2>3. Tracked(w) \subseteq Tracked(windows)
      BY <1>1, <2>1 DEF Tracked, ChurnWindows
    <2> QED
      BY <1>0, <2>2, <2>3, FS_Subset, FS_CardinalityType
  <1>2. CASE ~(ip \in Tracked(windows) /\ windows[ip].age < WindowMs)
    <2> DEFINE new == [age |-> 0, senders |-> {sender}]
    <2>1. new \in [age: 0..WindowMs, senders: SUBSET Accounts]
          /\ NoWindow \in [age: 0..WindowMs, senders: SUBSET Accounts]
      BY Limits DEF NoWindow
    <2>2. CASE ip \notin Tracked(windows) /\ Cardinality(Tracked(windows)) >= MaxIps
      <3>1. PICK old \in OldestTracked(windows) :
              w = [[windows EXCEPT ![old] = NoWindow] EXCEPT ![ip] = new]
        BY <1>2, <2>2 DEF Recorded
      <3>2. w \in ChurnWindows
        BY <2>1, <3>1 DEF ChurnWindows
      <3>3. /\ old \in Tracked(windows)
            /\ Tracked(w) \subseteq (Tracked(windows) \ {old}) \cup {ip}
        BY <3>1 DEF OldestTracked, Tracked, ChurnWindows
      <3> DEFINE T == Tracked(windows) \ {old}
      <3>4. IsFiniteSet(T) /\ Cardinality(T) = Cardinality(Tracked(windows)) - 1
        BY <1>0, <3>3, FS_RemoveElement
      <3>5. ip \notin T
        BY <2>2
      <3>6. IsFiniteSet(T \cup {ip}) /\ Cardinality(T \cup {ip}) = Cardinality(T) + 1
        BY <3>4, <3>5, FS_AddElement
      <3>7. IsFiniteSet(Tracked(w)) /\ Cardinality(Tracked(w)) <= Cardinality(T \cup {ip})
        BY <3>3, <3>6, FS_Subset
      <3>8. Cardinality(Tracked(w)) \in Nat
        BY <3>7, FS_CardinalityType
      <3> QED
        BY <1>0, <3>2, <3>4, <3>6, <3>7, <3>8
    <2>3. CASE ~(ip \notin Tracked(windows) /\ Cardinality(Tracked(windows)) >= MaxIps)
      <3>1. w = [windows EXCEPT ![ip] = new]
        BY <1>2, <2>3 DEF Recorded
      <3>2. w \in ChurnWindows
        BY <2>1, <3>1 DEF ChurnWindows
      <3>3. Tracked(w) \subseteq Tracked(windows) \cup {ip}
        BY <3>1 DEF Tracked, ChurnWindows
      <3> DEFINE T == Tracked(windows) \cup {ip}
      <3>4. /\ IsFiniteSet(T)
            /\ Cardinality(T) = IF ip \in Tracked(windows) THEN Cardinality(Tracked(windows))
                                ELSE Cardinality(Tracked(windows)) + 1
        BY <1>0, FS_AddElement
      <3>5. Cardinality(T) <= MaxIps
        BY <1>0, <2>3, <3>4
      <3>6. IsFiniteSet(Tracked(w)) /\ Cardinality(Tracked(w)) <= Cardinality(T)
        BY <3>3, <3>4, FS_Subset
      <3>7. Cardinality(Tracked(w)) \in Nat /\ Cardinality(T) \in Nat
        BY <3>4, <3>6, FS_CardinalityType
      <3> QED
        BY <1>0, <3>2, <3>5, <3>6, <3>7
    <2> QED
      BY <2>2, <2>3
  <1> QED
    BY <1>1, <1>2

-----------------------------------------------------------------------------
(* The specification. *)

LimiterInv == RateLimitTypeOK /\ TablesBounded

LEMMA InitLimiter == GatewayInit => LimiterInv
  <1> SUFFICES ASSUME GatewayInit
               PROVE  LimiterInv
    OBVIOUS
  <1>1. RateLimitTypeOK
    <2>1. \A limit \in Nat : NoBucket \in [age: 0..WindowMs, count: 0..limit]
      BY Limits DEF NoBucket
    <2>2. NoWindow \in [age: 0..WindowMs, senders: SUBSET Accounts]
      BY Limits DEF NoWindow
    <2> QED
      BY <2>1, <2>2, Limits
      DEF GatewayInit, RateLimitInit, EmptyLimiter, RateLimitTypeOK, Limiter
  <1>2. /\ Held(ipLimiter) = {} /\ Held(senderLimiter) = {} /\ Held(methodLimiter) = {}
        /\ Tracked(churn) = {}
    BY DEF GatewayInit, RateLimitInit, EmptyLimiter, Held, Tracked
  <1> QED
    BY <1>1, <1>2, Limits, FS_EmptySet DEF LimiterInv, TablesBounded

LEMMA ConsumeLimiter ==
  ASSUME LimiterInv, NEW ip \in Ips, NEW sender \in Accounts \cup {NoSender}, NEW method,
         Consume(ip, sender, method), RecordChurn(ip, sender)
  PROVE  LimiterInv'
  <1> USE DEF LimiterInv, RateLimitTypeOK, TablesBounded
  <1>1. globalLimiter' \in Limiter({AnyCaller}, GlobalMax)
    <2>1. globalLimiter' \in Consumed(globalLimiter, GlobalMax, 1, AnyCaller)
      BY DEF Consume
    <2>2. Held(globalLimiter) \subseteq {AnyCaller}
      BY Limits, SweptKept
    <2>3. IsFiniteSet({AnyCaller}) /\ Cardinality({AnyCaller}) = 1
      BY FS_Singleton
    <2>4. Cardinality(Held(globalLimiter)) <= 1
      BY <2>2, <2>3, FS_Subset
    <2>5. GlobalMax \in Nat \ {0} /\ 1 \in Nat \ {0} /\ AnyCaller \in {AnyCaller}
      BY Limits
    <2> QED
      BY <2>1, <2>3, <2>4, <2>5, ConsumedBounds
  <1>2. ipLimiter' \in Limiter(Ips, IpMax) /\ Cardinality(Held(ipLimiter')) <= MaxBuckets
    <2>1. \/ ipLimiter' \in Consumed(ipLimiter, IpMax, MaxBuckets, ip)
          \/ ipLimiter' = ipLimiter
      BY DEF Consume
    <2> QED
      BY <2>1, Limits, ConsumedBounds
  <1>3. /\ senderLimiter' \in Limiter(Accounts, SenderMax)
        /\ Cardinality(Held(senderLimiter')) <= MaxBuckets
    <2>1. \/ sender \in Accounts
             /\ senderLimiter' \in Consumed(senderLimiter, SenderMax, MaxBuckets, sender)
          \/ senderLimiter' = senderLimiter
      BY DEF Consume
    <2> QED
      BY <2>1, Limits, ConsumedBounds
  <1>4. /\ methodLimiter' \in Limiter(Ips, MethodMax)
        /\ Cardinality(Held(methodLimiter')) <= MaxBuckets
    <2>1. \/ methodLimiter' \in Consumed(methodLimiter, MethodMax, MaxBuckets, ip)
          \/ methodLimiter' = methodLimiter
      BY DEF Consume
    <2> QED
      BY <2>1, Limits, ConsumedBounds
  <1>5. churn' \in ChurnWindows /\ Cardinality(Tracked(churn')) <= MaxIps
    <2>1. \/ sender \in Accounts /\ churn' \in Recorded(churn, ip, sender)
          \/ churn' = churn
      BY DEF RecordChurn
    <2> QED
      BY <2>1, RecordedBounds DEF ChurnWindows
  <1> QED
    BY <1>1, <1>2, <1>3, <1>4, <1>5 DEF Held, Tracked, ChurnWindows

LEMMA AgeLimiter ==
  ASSUME LimiterInv, LimitersAge
  PROVE  LimiterInv'
  <1> USE DEF LimiterInv, RateLimitTypeOK, TablesBounded, LimitersAge
  <1>1. /\ globalLimiter' \in Limiter({AnyCaller}, GlobalMax)
        /\ ipLimiter' \in Limiter(Ips, IpMax)
        /\ senderLimiter' \in Limiter(Accounts, SenderMax)
        /\ methodLimiter' \in Limiter(Ips, MethodMax)
    BY Limits, FS_Singleton, AgedBounds
  <1>2. /\ Held(ipLimiter') = Held(ipLimiter)
        /\ Held(senderLimiter') = Held(senderLimiter)
        /\ Held(methodLimiter') = Held(methodLimiter)
    BY Limits, AgedBounds
  <1>3. churn' \in [Ips -> [age: 0..WindowMs, senders: SUBSET Accounts]]
    <2>1. NoWindow \in [age: 0..WindowMs, senders: SUBSET Accounts]
      BY Limits DEF NoWindow
    <2> QED
      BY <2>1, Limits DEF OneOlder
  <1>4. Tracked(churn') \subseteq Tracked(churn)
    BY DEF Tracked
  <1>5. Cardinality(Tracked(churn')) <= MaxIps
    <2>1. IsFiniteSet(Tracked(churn))
      BY Limits, FS_Subset DEF Tracked
    <2>2. IsFiniteSet(Tracked(churn')) /\ Cardinality(Tracked(churn')) <= Cardinality(Tracked(churn))
      BY <1>4, <2>1, FS_Subset
    <2> QED
      BY <2>1, <2>2, Limits, FS_CardinalityType
  <1>6. /\ Held(ipLimiter)' = Held(ipLimiter') /\ Held(senderLimiter)' = Held(senderLimiter')
        /\ Held(methodLimiter)' = Held(methodLimiter') /\ Tracked(churn)' = Tracked(churn')
    BY DEF Held, Tracked
  <1> QED
    BY <1>1, <1>2, <1>3, <1>5, <1>6

LEMMA NextLimiter ==
  ASSUME LimiterInv, [GatewayNext]_vars
  PROVE  LimiterInv'
  <1>1. ASSUME UNCHANGED limiterVars
        PROVE  LimiterInv'
    BY <1>1 DEF limiterVars, LimiterInv, RateLimitTypeOK, TablesBounded, Held, Tracked
  <1>2. ASSUME NEW c \in Calls, Rpc(c)
        PROVE  LimiterInv'
    <2>1. PICK ip \in Ips, sender \in Accounts \cup {NoSender}, method \in Methods :
            Meter(ip, sender, method)
      BY <1>2 DEF Rpc, RpcLimited, RpcAnswered, RpcForwarded
    <2> QED
      BY <2>1, ConsumeLimiter DEF Meter
  <1> QED
    BY <1>1, <1>2, AgeLimiter DEF GatewayNext, CallProceeds, Tick, vars

LEMMA LimiterInvariant == GatewaySpec => []LimiterInv
  BY InitLimiter, NextLimiter, PTL DEF GatewaySpec

\* No map of the rate limiter grows past its capacity, for any number of
\* callers and any limits (rate-limit.ts:101-113 and 302-321).
THEOREM TablesStayBounded == GatewaySpec => []TablesBounded
  <1>1. LimiterInv => TablesBounded
    BY DEF LimiterInv
  <1> QED
    BY <1>1, LimiterInvariant, PTL

-----------------------------------------------------------------------------
(* Evictions. *)

\* A limiter drops a window that still runs only for want of room.
LEMMA ConsumedDrops ==
  ASSUME NEW K, IsFiniteSet(K), NEW limit \in Nat \ {0}, NEW buckets \in Limiter(K, limit),
         NEW max \in Nat \ {0}, NEW key \in K, Cardinality(Held(buckets)) <= max,
         NEW c \in Consumed(buckets, limit, max, key),
         NEW k \in Held(buckets), ~WindowEnded(buckets, k), c[k] = NoBucket
  PROVE  LET running == {j \in Held(buckets) : ~WindowEnded(buckets, j)} IN
         /\ Cardinality(running) = max
         /\ \A j \in running : buckets[j].age <= buckets[k].age
  <1> DEFINE running == {j \in Held(buckets) : ~WindowEnded(buckets, j)}
  <1>1. PICK b \in WithRoom(buckets, max, key) : c = Counted(b, limit, key)
    BY DEF Consumed
  <1>2. b \in Limiter(K, limit)
    BY RoomBounds
  <1>3. /\ Swept(buckets) \in Limiter(K, limit)
        /\ Held(Swept(buckets)) = running
        /\ \A j \in running : Swept(buckets)[j] = buckets[j]
        /\ k \in running /\ k \in K
    BY SweptKept
  <1>4. k # key /\ b[k] = NoBucket
    BY <1>1, <1>2, <1>3, CountedKept
  <1>5. b # buckets /\ b # Swept(buckets)
    BY <1>3, <1>4 DEF Held
  <1>6. b \in Evicted(Swept(buckets)) /\ Cardinality(running) >= max
    BY <1>3, <1>5 DEF WithRoom
  <1>7. PICK old \in Oldest(Swept(buckets)) : b = [Swept(buckets) EXCEPT ![old] = NoBucket]
    BY <1>6 DEF Evicted
  <1>8. old = k
    BY <1>3, <1>4, <1>7 DEF Held, Limiter
  <1>9. \A j \in running : buckets[j].age <= buckets[k].age
    BY <1>3, <1>7, <1>8 DEF Oldest
  <1>10. Cardinality(running) <= max
    <2>1. IsFiniteSet(Held(buckets)) /\ running \subseteq Held(buckets)
      BY SweptKept, FS_Subset
    <2>2. IsFiniteSet(running) /\ Cardinality(running) <= Cardinality(Held(buckets))
      BY <2>1, FS_Subset
    <2> QED
      BY <2>1, <2>2, FS_CardinalityType
  <1>11. Cardinality(running) \in Nat
    BY SweptKept, FS_Subset, FS_CardinalityType
  <1> QED
    BY <1>6, <1>9, <1>10, <1>11

LEMMA DropStep ==
  ASSUME LimiterInv, [GatewayNext]_vars, NEW ip \in Dropped
  PROVE  LET running == {i \in Held(ipLimiter) : ~WindowEnded(ipLimiter, i)} IN
         /\ Cardinality(running) = MaxBuckets
         /\ \A i \in running : ipLimiter[i].age <= ipLimiter[ip].age
  <1>0. /\ ip \in Held(ipLimiter) /\ ~WindowEnded(ipLimiter, ip) /\ ipLimiter'[ip] = NoBucket
        /\ ipLimiter \in Limiter(Ips, IpMax) /\ Cardinality(Held(ipLimiter)) <= MaxBuckets
    BY DEF Dropped, LimiterInv, RateLimitTypeOK, TablesBounded
  <1>1. ipLimiter' # ipLimiter
    BY <1>0 DEF Held
  <1>2. ~Tick
    <2>1. ASSUME Tick
          PROVE  FALSE
      <3>1. ipLimiter' \in Limiter(Ips, IpMax) /\ Held(ipLimiter') = Held(ipLimiter)
        BY <1>0, <2>1, Limits, AgedBounds DEF Tick, LimitersAge
      <3> QED
        BY <1>0, <3>1 DEF Held
    <2> QED
      BY <2>1
  <1>3. \E c \in Calls : Rpc(c)
    BY <1>1, <1>2 DEF GatewayNext, CallProceeds, vars, limiterVars
  <1>4. PICK key \in Ips, sender \in Accounts \cup {NoSender}, method \in Methods :
          Meter(key, sender, method)
    BY <1>3 DEF Rpc, RpcLimited, RpcAnswered, RpcForwarded
  <1>5. ipLimiter' \in Consumed(ipLimiter, IpMax, MaxBuckets, key)
    BY <1>1, <1>4 DEF Meter, Consume
  <1> QED
    BY <1>0, <1>5, Limits, ConsumedDrops

\* The IP limiter forgets a running window only when its map is full of running
\* windows, and none that is younger than one it keeps: for any number of
\* callers, any capacity and any window (rate-limit.ts:84-113).
THEOREM EvictionIsLastResort == GatewaySpec => ForgetsOnlyWhenFull
  <1>1. LimiterInv /\ [GatewayNext]_vars =>
          [\A ip \in Dropped :
             LET running == {i \in Held(ipLimiter) : ~WindowEnded(ipLimiter, i)} IN
             /\ Cardinality(running) = MaxBuckets
             /\ \A i \in running : ipLimiter[i].age <= ipLimiter[ip].age]_vars
    BY DropStep
  <1> QED
    BY <1>1, LimiterInvariant, PTL DEF GatewaySpec, ForgetsOnlyWhenFull

-----------------------------------------------------------------------------
(* Budgets: one bucket, and the requests it stands for. *)

\* A request that this bucket does not count: it is not there, or over.
Over(bucket) == bucket = NoBucket \/ bucket.age >= WindowMs

Requests == Ips \X Ages \X Nat

\* What the bucket says of the requests G granted under it within WindowMs: a
\* running window has counted those since it began, and the one that began it
\* is not younger than the window; those before it fell into one window, and
\* the one that began that window is forgotten by now.
Budget(G, bucket, max) ==
  IF Over(bucket)
  THEN Cardinality(G) <= max - 1 /\ \A g \in G : g[2] > 0
  ELSE /\ Cardinality({g \in G : g[2] <= bucket.age}) <= bucket.count
       /\ Cardinality({g \in G : g[2] < bucket.age}) <= bucket.count - 1
       /\ Cardinality({g \in G : g[2] > bucket.age}) <= max - 1

LEMMA SmallerSet ==
  ASSUME NEW S, IsFiniteSet(S), NEW T \in SUBSET S
  PROVE  /\ IsFiniteSet(T) /\ Cardinality(T) <= Cardinality(S)
         /\ Cardinality(T) \in Nat /\ Cardinality(S) \in Nat
  BY FS_Subset, FS_CardinalityType

LEMMA OneMore ==
  ASSUME NEW S, IsFiniteSet(S), NEW x, NEW T \in SUBSET (S \cup {x})
  PROVE  IsFiniteSet(T) /\ Cardinality(T) <= Cardinality(S) + 1
  <1>1. /\ IsFiniteSet(S \cup {x})
        /\ Cardinality(S \cup {x}) = IF x \in S THEN Cardinality(S) ELSE Cardinality(S) + 1
    BY FS_AddElement
  <1>2. Cardinality(S) \in Nat
    BY FS_CardinalityType
  <1>3. /\ IsFiniteSet(T) /\ Cardinality(T) <= Cardinality(S \cup {x})
        /\ Cardinality(T) \in Nat
    BY <1>1, SmallerSet
  <1> QED
    BY <1>1, <1>2, <1>3

\* A bucket bounds what was granted in WindowMs by less than twice its limit.
LEMMA BudgetBound ==
  ASSUME NEW max \in Nat \ {0}, NEW bucket \in [age: 0..WindowMs, count: 0..max],
         NEW G \in SUBSET Requests, IsFiniteSet(G), Budget(G, bucket, max)
  PROVE  Cardinality(G) <= 2 * max - 1
  <1> DEFINE late == {g \in G : g[2] <= bucket.age}
             older == {g \in G : g[2] > bucket.age}
  <1>1. CASE Over(bucket)
    BY <1>1, SmallerSet DEF Budget
  <1>2. CASE ~Over(bucket)
    <2>1. Cardinality(late) <= max /\ Cardinality(older) <= max - 1
      BY <1>2, SmallerSet DEF Budget
    <2>2. \A g \in G : g[2] \in Nat
      BY DEF Requests, Ages
    <2>3. late \cup older = G /\ late \cap older = {}
      BY <2>2
    <2>4. IsFiniteSet(late) /\ IsFiniteSet(older)
      BY SmallerSet
    <2> HIDE DEF late, older
    <2>5. Cardinality(G) = Cardinality(late) + Cardinality(older) - Cardinality({})
      BY <2>3, <2>4, FS_Union
    <2> QED
      BY <2>1, <2>4, <2>5, FS_EmptySet, FS_CardinalityType
  <1> QED
    BY <1>1, <1>2

\* The bucket of a key after consume.
Charged(bucket, max) ==
  IF Over(bucket) THEN [age |-> 0, count |-> 1]
  ELSE IF bucket.count >= max THEN bucket
  ELSE [bucket EXCEPT !.count = @ + 1]

LEMMA BudgetCharged ==
  ASSUME NEW max \in Nat \ {0}, NEW bucket \in [age: 0..WindowMs, count: 0..max],
         NEW G \in SUBSET Requests, IsFiniteSet(G), Budget(G, bucket, max),
         NEW x, x[2] = 0, NEW H \in SUBSET (G \cup {x}),
         Over(bucket) \/ bucket.count < max \/ H \subseteq G
  PROVE  Budget(H, Charged(bucket, max), max)
  <1>1. \A g \in G : g[2] \in Nat
    BY DEF Requests, Ages
  <1>2. CASE Over(bucket)
    <2> DEFINE new == [age |-> 0, count |-> 1]
    <2>1. Charged(bucket, max) = new /\ ~Over(new) /\ new.age = 0 /\ new.count = 1
      BY <1>2, Limits DEF Charged, Over, NoBucket
    <2>2. /\ {g \in H : g[2] <= 0} \subseteq {} \cup {x}
          /\ {g \in H : g[2] < 0} = {}
          /\ {g \in H : g[2] > 0} \subseteq G
      BY <1>1, <1>2 DEF Budget
    <2>0. IsFiniteSet({}) /\ Cardinality({}) = 0
      BY FS_EmptySet
    <2>3. Cardinality({g \in H : g[2] <= 0}) <= 1
      <3>1. Cardinality({g \in H : g[2] <= 0}) <= Cardinality({}) + 1
        BY <2>0, <2>2, OneMore
      <3> QED
        BY <2>0, <3>1
    <2>4. Cardinality({g \in H : g[2] < 0}) <= 0
      BY <2>0, <2>2
    <2>5. Cardinality({g \in H : g[2] > 0}) <= max - 1
      BY <1>2, <2>2, SmallerSet DEF Budget
    <2> QED
      BY <2>1, <2>3, <2>4, <2>5 DEF Budget
  <1>3. CASE ~Over(bucket) /\ bucket.count >= max
    <2>1. H \subseteq G /\ Charged(bucket, max) = bucket
      BY <1>3 DEF Charged
    <2>2. /\ {g \in H : g[2] <= bucket.age} \subseteq {g \in G : g[2] <= bucket.age}
          /\ {g \in H : g[2] < bucket.age} \subseteq {g \in G : g[2] < bucket.age}
          /\ {g \in H : g[2] > bucket.age} \subseteq {g \in G : g[2] > bucket.age}
      BY <2>1
    <2>3. /\ IsFiniteSet({g \in G : g[2] <= bucket.age})
          /\ IsFiniteSet({g \in G : g[2] < bucket.age})
          /\ IsFiniteSet({g \in G : g[2] > bucket.age})
      BY SmallerSet
    <2> QED
      BY <1>3, <2>1, <2>2, <2>3, SmallerSet DEF Budget
  <1>4. CASE ~Over(bucket) /\ ~(bucket.count >= max)
    <2> DEFINE new == [bucket EXCEPT !.count = @ + 1]
    <2>1. /\ Charged(bucket, max) = new /\ new.age = bucket.age /\ new.count = bucket.count + 1
          /\ ~Over(new)
      BY <1>4 DEF Charged, Over, NoBucket
    <2>2. /\ {g \in H : g[2] <= bucket.age} \subseteq {g \in G : g[2] <= bucket.age} \cup {x}
          /\ {g \in H : g[2] < bucket.age} \subseteq {g \in G : g[2] < bucket.age} \cup {x}
          /\ {g \in H : g[2] > bucket.age} \subseteq {g \in G : g[2] > bucket.age}
      OBVIOUS
    <2>3. /\ IsFiniteSet({g \in G : g[2] <= bucket.age})
          /\ IsFiniteSet({g \in G : g[2] < bucket.age})
          /\ IsFiniteSet({g \in G : g[2] > bucket.age})
      BY SmallerSet
    <2>4. /\ Cardinality({g \in H : g[2] <= bucket.age}) <= bucket.count + 1
          /\ Cardinality({g \in H : g[2] < bucket.age}) <= bucket.count - 1 + 1
          /\ Cardinality({g \in H : g[2] > bucket.age}) <= max - 1
      <3>1. /\ Cardinality({g \in H : g[2] <= bucket.age})
                 <= Cardinality({g \in G : g[2] <= bucket.age}) + 1
            /\ Cardinality({g \in H : g[2] < bucket.age})
                 <= Cardinality({g \in G : g[2] < bucket.age}) + 1
        BY <2>2, <2>3, OneMore
      <3>2. Cardinality({g \in H : g[2] > bucket.age}) <= Cardinality({g \in G : g[2] > bucket.age})
        BY <2>2, <2>3, SmallerSet
      <3>3. /\ Cardinality({g \in H : g[2] <= bucket.age}) \in Nat
            /\ Cardinality({g \in H : g[2] < bucket.age}) \in Nat
            /\ Cardinality({g \in H : g[2] > bucket.age}) \in Nat
        <4>1. IsFiniteSet(H)
          BY OneMore
        <4> QED
          BY <4>1, SmallerSet
      <3>4. /\ Cardinality({g \in G : g[2] <= bucket.age}) \in Nat
            /\ Cardinality({g \in G : g[2] < bucket.age}) \in Nat
            /\ Cardinality({g \in G : g[2] > bucket.age}) \in Nat
        BY <2>3, FS_CardinalityType
      <3> QED
        BY <1>4, <3>1, <3>2, <3>3, <3>4 DEF Budget
    <2> QED
      BY <2>1, <2>4 DEF Budget
  <1> QED
    BY <1>2, <1>3, <1>4

\* A unit of time later.
Older(g) == <<g[1], g[2] + 1, g[3]>>

LEMMA OlderSet ==
  ASSUME NEW S, IsFiniteSet(S), NEW T \in SUBSET {Older(g) : g \in S}
  PROVE  IsFiniteSet(T) /\ Cardinality(T) <= Cardinality(S)
  <1> DEFINE f == [g \in S |-> Older(g)]
             image == {f[g] : g \in S}
  <1>1. IsFiniteSet(image) /\ Cardinality(image) <= Cardinality(S)
    <2>1. f \in Surjection(S, image)
      BY DEF Surjection
    <2> QED
      BY <2>1, FS_Surjection
  <1>2. T \subseteq image
    OBVIOUS
  <1> HIDE DEF image
  <1>3. IsFiniteSet(T) /\ Cardinality(T) <= Cardinality(image)
        /\ Cardinality(T) \in Nat /\ Cardinality(image) \in Nat
    BY <1>1, <1>2, SmallerSet
  <1>4. Cardinality(S) \in Nat
    BY FS_CardinalityType
  <1> QED
    BY <1>1, <1>3, <1>4

AgedBucket(bucket) ==
  IF bucket = NoBucket THEN NoBucket ELSE [bucket EXCEPT !.age = OneOlder(@)]

LEMMA BudgetAged ==
  ASSUME NEW max \in Nat \ {0}, NEW bucket \in [age: 0..WindowMs, count: 0..max],
         NEW G \in SUBSET Requests, IsFiniteSet(G), Budget(G, bucket, max),
         NEW H \in SUBSET Requests, H \subseteq {Older(g) : g \in G}
  PROVE  Budget(H, AgedBucket(bucket), max)
  <1> DEFINE aged == AgedBucket(bucket)
  <1>0. /\ \A g \in G \cup H : g[2] \in Nat /\ g[2] < WindowMs
        /\ \A h \in H : \E g \in G : h[2] = g[2] + 1 /\ h = Older(g)
        /\ WindowMs \in Nat \ {0}
    BY Limits DEF Older, Requests, Ages
  <1>1. CASE Over(bucket)
    <2>1. Over(aged)
      BY <1>1, Limits DEF Over, AgedBucket, NoBucket, OneOlder
    <2>2. Cardinality(H) <= Cardinality(G) /\ IsFiniteSet(H)
      BY OlderSet
    <2>3. Cardinality(H) <= max - 1
      BY <1>1, <2>2, FS_CardinalityType DEF Budget
    <2>4. \A h \in H : h[2] > 0
      BY <1>0
    <2> QED
      BY <2>1, <2>3, <2>4 DEF Budget
  <1>2. CASE ~Over(bucket)
    <2> DEFINE counted == {g \in G : g[2] <= bucket.age}
               early == {g \in G : g[2] < bucket.age}
               before == {g \in G : g[2] > bucket.age}
    <2>1. /\ bucket.age \in Nat /\ bucket.age < WindowMs /\ bucket.count \in 0..max
          /\ aged.age = bucket.age + 1 /\ aged.count = bucket.count /\ aged # NoBucket
      <3>1. bucket.age \in Nat /\ bucket.age < WindowMs /\ bucket.count \in 0..max
        BY <1>2, Limits DEF Over
      <3>2. aged = [bucket EXCEPT !.age = bucket.age + 1]
        BY <1>2, <3>1 DEF Over, AgedBucket, OneOlder
      <3>3. aged.age = bucket.age + 1 /\ aged.count = bucket.count
        BY <3>2
      <3>4. aged # NoBucket
        BY <3>1, <3>3 DEF NoBucket
      <3> QED
        BY <3>1, <3>3, <3>4
    <2>2. /\ Cardinality(counted) <= bucket.count
          /\ Cardinality(early) <= bucket.count - 1
          /\ Cardinality(before) <= max - 1
      BY <1>2 DEF Budget
    <2>3. IsFiniteSet(counted) /\ IsFiniteSet(early) /\ IsFiniteSet(before)
      BY SmallerSet
    <2>4. /\ {h \in H : h[2] <= bucket.age + 1} \subseteq {Older(g) : g \in counted}
          /\ {h \in H : h[2] < bucket.age + 1} \subseteq {Older(g) : g \in early}
          /\ {h \in H : h[2] > bucket.age + 1} \subseteq {Older(g) : g \in before}
      BY <1>0, <2>1
    <2> HIDE DEF aged, counted, early, before
    <2>5. /\ Cardinality({h \in H : h[2] <= bucket.age + 1}) <= Cardinality(counted)
          /\ Cardinality({h \in H : h[2] < bucket.age + 1}) <= Cardinality(early)
          /\ Cardinality({h \in H : h[2] > bucket.age + 1}) <= Cardinality(before)
      BY <2>3, <2>4, OlderSet
    <2>6. IsFiniteSet(H)
      BY OlderSet
    <2>7. /\ Cardinality({h \in H : h[2] <= bucket.age + 1}) \in Nat
          /\ Cardinality({h \in H : h[2] < bucket.age + 1}) \in Nat
          /\ Cardinality({h \in H : h[2] > bucket.age + 1}) \in Nat
      BY <2>6, SmallerSet
    <2>8. Cardinality(counted) \in Nat /\ Cardinality(early) \in Nat /\ Cardinality(before) \in Nat
      BY <2>3, FS_CardinalityType
    <2>9. CASE Over(aged)
      <3>1. aged.age >= WindowMs
        BY <2>1, <2>9 DEF Over
      <3>2. H = {h \in H : h[2] < bucket.age + 1}
        BY <1>0, <2>1, <3>1
      <3>3. Cardinality(H) <= max - 1
        <4> DEFINE h == Cardinality({g \in H : g[2] < bucket.age + 1})
                   e == Cardinality(early)
        <4>1. h = Cardinality(H)
          BY <3>2
        <4>2. h <= e /\ h \in Nat /\ e \in Nat /\ e <= bucket.count - 1
          BY <2>2, <2>5, <2>7, <2>8
        <4> HIDE DEF h, e
        <4> QED
          BY <2>1, <4>1, <4>2
      <3>4. \A h \in H : h[2] > 0
        BY <1>0
      <3> QED
        BY <2>9, <3>3, <3>4 DEF Budget, aged
    <2>10. CASE ~Over(aged)
      <3>1. /\ Cardinality({h \in H : h[2] <= aged.age}) <= aged.count
            /\ Cardinality({h \in H : h[2] < aged.age}) <= aged.count - 1
            /\ Cardinality({h \in H : h[2] > aged.age}) <= max - 1
        <4>1. /\ Cardinality({h \in H : h[2] <= bucket.age + 1}) <= bucket.count
              /\ Cardinality({h \in H : h[2] < bucket.age + 1}) <= bucket.count - 1
              /\ Cardinality({h \in H : h[2] > bucket.age + 1}) <= max - 1
          BY <2>1, <2>2, <2>5, <2>7, <2>8
        <4> QED
          BY <2>1, <4>1
      <3> QED
        BY <2>10, <3>1 DEF Budget, aged
    <2> QED
      BY <2>9, <2>10
  <1> QED
    BY <1>1, <1>2

LEMMA BudgetSmaller ==
  ASSUME NEW max \in Nat \ {0}, NEW bucket \in [age: 0..WindowMs, count: 0..max],
         NEW G, IsFiniteSet(G), Budget(G, bucket, max), NEW H \in SUBSET G
  PROVE  /\ Budget(H, bucket, max)
         /\ Over(bucket) => Budget(H, NoBucket, max)
  <1>1. /\ {g \in H : g[2] <= bucket.age} \subseteq {g \in G : g[2] <= bucket.age}
        /\ {g \in H : g[2] < bucket.age} \subseteq {g \in G : g[2] < bucket.age}
        /\ {g \in H : g[2] > bucket.age} \subseteq {g \in G : g[2] > bucket.age}
    OBVIOUS
  <1>2. /\ IsFiniteSet({g \in G : g[2] <= bucket.age})
        /\ IsFiniteSet({g \in G : g[2] < bucket.age})
        /\ IsFiniteSet({g \in G : g[2] > bucket.age})
    BY SmallerSet
  <1>3. CASE Over(bucket)
    <2>1. Cardinality(H) <= max - 1 /\ \A g \in H : g[2] > 0
      BY <1>3, SmallerSet DEF Budget
    <2>2. Over(NoBucket)
      BY DEF Over
    <2> QED
      BY <1>3, <2>1, <2>2 DEF Budget
  <1>4. CASE ~Over(bucket)
    BY <1>1, <1>2, <1>4, SmallerSet DEF Budget
  <1> QED
    BY <1>3, <1>4

LEMMA BudgetOfNothing ==
  ASSUME NEW max \in Nat \ {0}
  PROVE  Budget({}, NoBucket, max)
  BY FS_EmptySet DEF Budget, Over

\* consume charges the key, whatever room it makes; of the others it may evict.
LEMMA ConsumedCharges ==
  ASSUME NEW K, NEW limit \in Nat \ {0}, NEW buckets \in Limiter(K, limit), NEW max,
         NEW key \in K, NEW c \in Consumed(buckets, limit, max, key)
  PROVE  /\ c[key] = Charged(buckets[key], limit)
         /\ \A k \in K \ {key} : c[k] = buckets[k] \/ c[k] = NoBucket
  <1>1. PICK b \in WithRoom(buckets, max, key) : c = Counted(b, limit, key)
    BY DEF Consumed
  <1>2. DOMAIN buckets = K /\ DOMAIN Swept(buckets) = K
    BY DEF Limiter, Swept
  <1>3. /\ b \in [K -> [age: 0..WindowMs, count: 0..limit]]
        /\ b[key] = buckets[key] \/ (b[key] = NoBucket /\ Over(buckets[key]))
        /\ \A k \in K \ {key} : b[k] = buckets[k] \/ b[k] = NoBucket
    <2>1. Swept(buckets) \in Limiter(K, limit)
      BY SweptKept
    <2>2. \A k \in K : Swept(buckets)[k] = IF Over(buckets[k]) THEN NoBucket ELSE buckets[k]
      BY <1>2 DEF Swept, WindowEnded, Over
    <2>3. CASE b \in {buckets, Swept(buckets)}
      BY <2>1, <2>2, <2>3 DEF Limiter
    <2>4. CASE b \in Evicted(Swept(buckets)) /\ key \notin Held(Swept(buckets))
      <3>1. PICK old : b = [Swept(buckets) EXCEPT ![old] = NoBucket]
        BY <2>4 DEF Evicted
      <3>2. Swept(buckets)[key] = NoBucket
        BY <1>2, <2>4 DEF Held
      <3>3. Over(buckets[key]) /\ b[key] = NoBucket
        BY <1>2, <2>2, <3>1, <3>2 DEF Over
      <3>4. NoBucket \in [age: 0..WindowMs, count: 0..limit]
        BY Limits DEF NoBucket
      <3> QED
        BY <1>2, <2>1, <2>2, <3>1, <3>3, <3>4 DEF Limiter
    <2> QED
      BY <2>3, <2>4 DEF WithRoom
  <1>4. /\ Over(NoBucket)
        /\ key \in Held(b) <=> b[key] # NoBucket
    BY <1>3 DEF Held, Over
  <1>5. c[key] = Charged(b[key], limit)
    BY <1>1, <1>3, <1>4 DEF Counted, Charged, Over, WindowEnded
  <1>6. Charged(b[key], limit) = Charged(buckets[key], limit)
    BY <1>3, <1>4 DEF Charged
  <1>7. \A k \in K \ {key} : c[k] = b[k]
    BY <1>1, <1>3 DEF Counted
  <1> QED
    BY <1>3, <1>5, <1>6, <1>7

LEMMA AllowsMeans ==
  ASSUME NEW K, NEW limit, NEW buckets \in Limiter(K, limit), NEW key \in K
  PROVE  Allows(buckets, limit, key) <=> Over(buckets[key]) \/ buckets[key].count < limit
  BY DEF Allows, Held, WindowEnded, Over, Limiter

-----------------------------------------------------------------------------
(* Budgets: the inductive invariant. *)

AllGrants == UNION {GrantsOf(ip) : ip \in Ips}

\* What was granted to the IP since its running window was last evicted.
Remembered(ip) == {g \in GrantsOf(ip) : g[2] < WindowMs - forgotten[ip]}

HistoryOK ==
  /\ granted \in [Ips -> [Ages -> Nat]]
  /\ forgotten \in [Ips -> 0..WindowMs]
  /\ IsFiniteSet(AllGrants)

BudgetInv ==
  /\ Budget(AllGrants, globalLimiter[AnyCaller], GlobalMax)
  /\ \A ip \in Ips : Budget(Remembered(ip), ipLimiter[ip], IpMax)

GatewayInv == LimiterInv /\ ClientOK /\ HistoryOK /\ BudgetInv

LEMMA GrantsTypes ==
  ASSUME HistoryOK
  PROVE  /\ AllGrants \subseteq Requests
         /\ \A ip \in Ips :
              /\ Remembered(ip) \subseteq GrantsOf(ip) /\ GrantsOf(ip) \subseteq AllGrants
              /\ IsFiniteSet(Remembered(ip)) /\ IsFiniteSet(GrantsOf(ip))
  <1>1. \A ip \in Ips : GrantsOf(ip) \subseteq Requests
    BY DEF HistoryOK, GrantsOf, Requests
  <1>2. \A ip \in Ips : Remembered(ip) \subseteq GrantsOf(ip) /\ GrantsOf(ip) \subseteq AllGrants
    BY DEF Remembered, AllGrants
  <1>3. AllGrants \subseteq Requests
    BY <1>1 DEF AllGrants
  <1>4. IsFiniteSet(AllGrants)
    BY DEF HistoryOK
  <1> QED
    BY <1>2, <1>3, <1>4, FS_Subset

LEMMA BucketTypes ==
  ASSUME LimiterInv
  PROVE  /\ globalLimiter[AnyCaller] \in [age: 0..WindowMs, count: 0..GlobalMax]
         /\ \A ip \in Ips : ipLimiter[ip] \in [age: 0..WindowMs, count: 0..IpMax]
  BY DEF LimiterInv, RateLimitTypeOK, Limiter

LEMMA InitGateway == GatewayInit => GatewayInv
  <1> SUFFICES ASSUME GatewayInit
               PROVE  GatewayInv
    OBVIOUS
  <1>1. LimiterInv
    BY InitLimiter
  <1>2. ClientOK
    BY BundlerClientAssumption
    DEF GatewayInit, BundlerClientInit, ClientOK, BundlerClientTypeOK, NoCall
  <1>3. \A ip \in Ips : GrantsOf(ip) = {} /\ Remembered(ip) = {}
    BY DEF GatewayInit, GrantsOf, Remembered
  <1>4. AllGrants = {}
    BY <1>3 DEF AllGrants
  <1>5. HistoryOK
    BY <1>4, Limits, FS_EmptySet DEF GatewayInit, HistoryOK, Ages
  <1>6. globalLimiter[AnyCaller] = NoBucket /\ \A ip \in Ips : ipLimiter[ip] = NoBucket
    BY DEF GatewayInit, RateLimitInit, EmptyLimiter
  <1>7. BudgetInv
    BY <1>3, <1>4, <1>6, Limits, BudgetOfNothing DEF BudgetInv
  <1> QED
    BY <1>1, <1>2, <1>5, <1>7 DEF GatewayInv

\* What a request adds to the history.
LEMMA RememberStep ==
  ASSUME LimiterInv, HistoryOK, NEW ip \in Ips, NEW isGranted \in BOOLEAN, Remember(ip, isGranted)
  PROVE  LET x == <<ip, 0, granted[ip][0] + 1>> IN
         /\ HistoryOK'
         /\ AllGrants' \subseteq AllGrants \cup {x}
         /\ ~isGranted => AllGrants' \subseteq AllGrants
         /\ Remembered(ip)' \subseteq Remembered(ip) \cup {x}
         /\ ~isGranted => Remembered(ip)' \subseteq Remembered(ip)
         /\ \A i \in Ips \ {ip} : Remembered(i)' \subseteq Remembered(i)
         /\ \A i \in Dropped : Remembered(i)' = {}
  <1> DEFINE x == <<ip, 0, granted[ip][0] + 1>>
  <1>0. 0 \in Ages /\ WindowMs \in Nat
    BY Limits DEF Ages
  <1>1. /\ granted' \in [Ips -> [Ages -> Nat]]
        /\ \A i \in Ips : forgotten'[i] \in {forgotten[i], WindowMs}
        /\ \A i \in Dropped \cap Ips : forgotten'[i] = WindowMs
        /\ forgotten' \in [Ips -> 0..WindowMs]
    BY <1>0 DEF Remember, HistoryOK
  <1>2. /\ GrantsOf(ip)' \subseteq GrantsOf(ip) \cup {x}
        /\ ~isGranted => GrantsOf(ip)' = GrantsOf(ip)
        /\ \A i \in Ips \ {ip} : GrantsOf(i)' = GrantsOf(i)
    <2>1. CASE ~isGranted
      BY <2>1 DEF Remember, GrantsOf
    <2>2. CASE isGranted
      <3>1. granted' = [granted EXCEPT ![ip][0] = @ + 1]
        BY <2>2 DEF Remember
      <3>2. /\ granted'[ip][0] = granted[ip][0] + 1
            /\ \A a \in Ages \ {0} : granted'[ip][a] = granted[ip][a]
            /\ \A i \in Ips \ {ip} : granted'[i] = granted[i]
        BY <1>0, <3>1 DEF HistoryOK
      <3>3. \A a \in Ages : granted[ip][a] \in Nat
        BY DEF HistoryOK
      <3>4. \A i \in Ips \ {ip} : GrantsOf(i)' = GrantsOf(i)
        BY <3>2 DEF GrantsOf
      <3>5. ASSUME NEW g \in GrantsOf(ip)'
            PROVE  g \in GrantsOf(ip) \cup {x}
        <4>1. PICK a \in Ages : \E n \in 1..granted'[ip][a] : g = <<ip, a, n>>
          BY DEF GrantsOf
        <4>2. PICK n \in 1..granted'[ip][a] : g = <<ip, a, n>>
          BY <4>1
        <4>3. n \in 1..granted[ip][a] \/ g = x
          BY <3>2, <3>3, <4>2
        <4> QED
          BY <4>2, <4>3 DEF GrantsOf
      <3> QED
        BY <2>2, <3>4, <3>5
    <2> QED
      BY <2>1, <2>2
  <1>3. /\ AllGrants' \subseteq AllGrants \cup {x}
        /\ ~isGranted => AllGrants' \subseteq AllGrants
    BY <1>2 DEF AllGrants
  <1>4. ASSUME NEW i \in Ips, NEW g \in Remembered(i)'
        PROVE  g \in GrantsOf(i)' /\ g[2] < WindowMs - forgotten[i]
    <2>1. g \in GrantsOf(i)' /\ g[2] < WindowMs - forgotten'[i] /\ g[2] \in Nat
      BY <1>1 DEF Remembered, GrantsOf, Ages
    <2>2. forgotten[i] \in Nat /\ forgotten'[i] \in Nat /\ forgotten[i] <= WindowMs
          /\ forgotten'[i] \in {forgotten[i], WindowMs}
      BY <1>0, <1>1 DEF HistoryOK
    <2> QED
      BY <1>0, <2>1, <2>2
  <1>6. ASSUME NEW i \in Dropped
        PROVE  Remembered(i)' = {}
    <2>1. i \in Ips
      BY DEF Dropped, Held, LimiterInv, RateLimitTypeOK, Limiter
    <2>2. forgotten'[i] = WindowMs
      BY <1>1, <2>1
    <2>3. \A g \in GrantsOf(i)' : ~(g[2] < WindowMs - WindowMs)
      BY <1>0 DEF GrantsOf, Ages
    <2> QED
      BY <2>2, <2>3 DEF Remembered
  <1>7. IsFiniteSet(AllGrants')
    BY <1>3, OneMore DEF HistoryOK
  <1>8. HistoryOK'
    BY <1>1, <1>7 DEF HistoryOK
  <1> QED
    BY <1>2, <1>3, <1>4, <1>6, <1>8 DEF Remembered

LEMMA MeterBudget ==
  ASSUME GatewayInv, NEW ip \in Ips, NEW sender, NEW method, Meter(ip, sender, method)
  PROVE  HistoryOK' /\ BudgetInv'
  <1> DEFINE isGranted == RejectedLayer(ip, sender, method) = "none"
             x == <<ip, 0, granted[ip][0] + 1>>
             G == globalLimiter[AnyCaller]
  <1>0. /\ LimiterInv /\ HistoryOK /\ x[2] = 0
        /\ GlobalMax \in Nat \ {0} /\ IpMax \in Nat \ {0}
        /\ globalLimiter \in Limiter({AnyCaller}, GlobalMax) /\ ipLimiter \in Limiter(Ips, IpMax)
        /\ G \in [age: 0..WindowMs, count: 0..GlobalMax]
        /\ \A i \in Ips : ipLimiter[i] \in [age: 0..WindowMs, count: 0..IpMax]
    BY Limits, BucketTypes DEF GatewayInv, LimiterInv, RateLimitTypeOK
  <1>1. /\ HistoryOK'
        /\ AllGrants' \subseteq AllGrants \cup {x}
        /\ ~isGranted => AllGrants' \subseteq AllGrants
        /\ Remembered(ip)' \subseteq Remembered(ip) \cup {x}
        /\ ~isGranted => Remembered(ip)' \subseteq Remembered(ip)
        /\ \A i \in Ips \ {ip} : Remembered(i)' \subseteq Remembered(i)
        /\ \A i \in Dropped : Remembered(i)' = {}
    BY <1>0, RememberStep DEF Meter
  <1>2. /\ AllGrants \subseteq Requests /\ IsFiniteSet(AllGrants)
        /\ \A i \in Ips : Remembered(i) \in SUBSET Requests /\ IsFiniteSet(Remembered(i))
    BY <1>0, GrantsTypes DEF HistoryOK
  <1>3. /\ globalLimiter' \in Consumed(globalLimiter, GlobalMax, 1, AnyCaller)
        /\ \/ ipLimiter' \in Consumed(ipLimiter, IpMax, MaxBuckets, ip)
           \/ ipLimiter' = ipLimiter /\ ~GlobalAllows
    BY DEF Meter, Consume
  <1>4. isGranted => GlobalAllows /\ IpAllows(ip)
    BY DEF RejectedLayer
  <1>5. Budget(AllGrants', globalLimiter'[AnyCaller], GlobalMax)
    <2>1. globalLimiter'[AnyCaller] = Charged(G, GlobalMax)
      BY <1>0, <1>3, ConsumedCharges
    <2>2. isGranted => Over(G) \/ G.count < GlobalMax
      BY <1>0, <1>4, AllowsMeans DEF GlobalAllows
    <2>3. Over(G) \/ G.count < GlobalMax \/ AllGrants' \subseteq AllGrants
      BY <1>1, <2>2
    <2>4. Budget(AllGrants, G, GlobalMax)
      BY DEF GatewayInv, BudgetInv
    <2> HIDE DEF x, G
    <2> QED
      BY <1>0, <1>1, <1>2, <2>1, <2>3, <2>4, BudgetCharged
  <1>6. ASSUME NEW i \in Ips
        PROVE  Budget(Remembered(i)', ipLimiter'[i], IpMax)
    <2> DEFINE B == ipLimiter[i]
    <2>1. /\ Budget(Remembered(i), B, IpMax) /\ B \in [age: 0..WindowMs, count: 0..IpMax]
          /\ Remembered(i) \in SUBSET Requests /\ IsFiniteSet(Remembered(i))
      BY <1>0, <1>2 DEF GatewayInv, BudgetInv
    <2>2. CASE i = ip /\ ipLimiter' \in Consumed(ipLimiter, IpMax, MaxBuckets, ip)
      <3>1. ipLimiter'[i] = Charged(B, IpMax)
        BY <1>0, <2>2, ConsumedCharges
      <3>2. isGranted => Over(B) \/ B.count < IpMax
        BY <1>0, <1>4, <2>2, AllowsMeans DEF IpAllows
      <3>3. /\ Over(B) \/ B.count < IpMax \/ Remembered(i)' \subseteq Remembered(i)
            /\ Remembered(i)' \subseteq Remembered(i) \cup {x}
        BY <1>1, <2>2, <3>2
      <3> HIDE DEF x, B
      <3> QED
        BY <1>0, <2>1, <3>1, <3>3, BudgetCharged
    <2>3. ASSUME Remembered(i)' \subseteq Remembered(i), ipLimiter'[i] = B
          PROVE  Budget(Remembered(i)', ipLimiter'[i], IpMax)
      BY <1>0, <2>1, <2>3, BudgetSmaller
    <2>4. CASE ipLimiter' = ipLimiter /\ ~GlobalAllows
      <3>1. Remembered(i)' \subseteq Remembered(i)
        BY <1>1, <1>4, <2>4
      <3> QED
        BY <2>3, <2>4, <3>1
    <2>5. CASE i # ip /\ ipLimiter' \in Consumed(ipLimiter, IpMax, MaxBuckets, ip)
      <3>1. Remembered(i)' \subseteq Remembered(i)
        BY <1>1, <2>5
      <3>2. ipLimiter'[i] = B \/ ipLimiter'[i] = NoBucket
        BY <1>0, <2>5, ConsumedCharges
      <3>3. CASE ipLimiter'[i] = B
        BY <2>3, <3>1, <3>3
      <3>4. CASE ipLimiter'[i] = NoBucket /\ Over(B)
        BY <1>0, <2>1, <3>1, <3>4, BudgetSmaller
      <3>5. CASE ipLimiter'[i] = NoBucket /\ ~Over(B)
        <4>1. i \in Dropped
          BY <1>0, <3>5 DEF Dropped, Held, WindowEnded, Over, Limiter
        <4>2. Remembered(i)' = {}
          BY <1>1, <4>1
        <4> QED
          BY <1>0, <3>5, <4>2, BudgetOfNothing
      <3> QED
        BY <3>2, <3>3, <3>4, <3>5
    <2> QED
      BY <1>3, <2>2, <2>4, <2>5
  <1>7. BudgetInv'
    BY <1>5, <1>6 DEF BudgetInv
  <1> QED
    BY <1>1, <1>7

LEMMA TickBudget ==
  ASSUME GatewayInv, Tick
  PROVE  HistoryOK' /\ BudgetInv'
  <1>0. /\ LimiterInv /\ HistoryOK /\ WindowMs \in Nat \ {0}
        /\ GlobalMax \in Nat \ {0} /\ IpMax \in Nat \ {0}
        /\ globalLimiter \in Limiter({AnyCaller}, GlobalMax) /\ ipLimiter \in Limiter(Ips, IpMax)
        /\ globalLimiter[AnyCaller] \in [age: 0..WindowMs, count: 0..GlobalMax]
        /\ \A i \in Ips : ipLimiter[i] \in [age: 0..WindowMs, count: 0..IpMax]
    BY Limits, BucketTypes DEF GatewayInv, LimiterInv, RateLimitTypeOK
  <1>1. /\ AllGrants \subseteq Requests /\ IsFiniteSet(AllGrants)
        /\ \A i \in Ips : Remembered(i) \in SUBSET Requests /\ IsFiniteSet(Remembered(i))
    BY <1>0, GrantsTypes DEF HistoryOK
  <1>2. granted' \in [Ips -> [Ages -> Nat]]
    BY <1>0 DEF Tick, HistoryOK, Ages
  <1>3. /\ forgotten' \in [Ips -> 0..WindowMs]
        /\ \A i \in Ips : forgotten'[i] >= forgotten[i] - 1
    <2>1. forgotten' = [i \in Ips |-> IF forgotten[i] = 0 THEN 0 ELSE forgotten[i] - 1]
      BY DEF Tick
    <2>2. \A i \in Ips : forgotten[i] \in 0..WindowMs
      BY <1>0 DEF HistoryOK
    <2>3. \A i \in Ips : forgotten'[i] \in 0..WindowMs /\ forgotten'[i] >= forgotten[i] - 1
      BY <1>0, <2>1, <2>2
    <2> QED
      BY <2>1, <2>3
  <1>4. ASSUME NEW i \in Ips, NEW h \in GrantsOf(i)'
        PROVE  \E g \in GrantsOf(i) : h = Older(g) /\ h[2] = g[2] + 1 /\ g[2] \in Nat
    <2>1. PICK a \in Ages : \E n \in 1..granted'[i][a] : h = <<i, a, n>>
      BY DEF GrantsOf
    <2>2. PICK n \in 1..granted'[i][a] : h = <<i, a, n>>
      BY <2>1
    <2>3. granted'[i][a] = IF a = 0 THEN 0 ELSE granted[i][a - 1]
      BY DEF Tick
    <2>4. a - 1 \in Ages /\ a \in Nat /\ n \in 1..granted[i][a - 1] /\ (a - 1) + 1 = a
      BY <1>0, <2>2, <2>3 DEF Ages
    <2>5. <<i, a - 1, n>> \in GrantsOf(i) /\ h = Older(<<i, a - 1, n>>)
      BY <2>2, <2>4 DEF GrantsOf, Older
    <2> QED
      BY <2>2, <2>4, <2>5 DEF Ages
  <1>5. AllGrants' \subseteq {Older(g) : g \in AllGrants}
    BY <1>4 DEF AllGrants
  <1>6. ASSUME NEW i \in Ips
        PROVE  Remembered(i)' \subseteq {Older(g) : g \in Remembered(i)}
    <2>1. SUFFICES ASSUME NEW h \in Remembered(i)'
                   PROVE  h \in {Older(g) : g \in Remembered(i)}
      OBVIOUS
    <2>2. h \in GrantsOf(i)' /\ h[2] < WindowMs - forgotten'[i]
      BY DEF Remembered
    <2>3. PICK g \in GrantsOf(i) : h = Older(g) /\ h[2] = g[2] + 1 /\ g[2] \in Nat
      BY <1>4, <2>2
    <2>4. forgotten[i] \in Nat /\ forgotten'[i] \in Nat
      BY <1>0, <1>3 DEF HistoryOK
    <2>5. g[2] < WindowMs - forgotten[i]
      BY <1>0, <1>3, <2>2, <2>3, <2>4
    <2> QED
      BY <2>3, <2>5 DEF Remembered
  <1>7. IsFiniteSet(AllGrants')
    BY <1>1, <1>5, OlderSet
  <1>8. HistoryOK'
    BY <1>2, <1>3, <1>7 DEF HistoryOK
  <1>9. /\ AllGrants' \subseteq Requests
        /\ \A i \in Ips : Remembered(i)' \subseteq Requests
    <2>1. \A i \in Ips : GrantsOf(i)' \subseteq Requests
      BY <1>2 DEF GrantsOf, Requests
    <2> QED
      BY <2>1 DEF AllGrants, Remembered
  <1>10. /\ globalLimiter'[AnyCaller] = AgedBucket(globalLimiter[AnyCaller])
         /\ \A i \in Ips : ipLimiter'[i] = AgedBucket(ipLimiter[i])
    BY <1>0 DEF Tick, LimitersAge, AgedBuckets, AgedBucket, Limiter
  <1>11. Budget(AllGrants', globalLimiter'[AnyCaller], GlobalMax)
    <2>1. Budget(AllGrants, globalLimiter[AnyCaller], GlobalMax)
      BY DEF GatewayInv, BudgetInv
    <2> QED
      BY <1>0, <1>1, <1>5, <1>9, <1>10, <2>1, BudgetAged
  <1>12. ASSUME NEW i \in Ips
         PROVE  Budget(Remembered(i)', ipLimiter'[i], IpMax)
    <2>1. Budget(Remembered(i), ipLimiter[i], IpMax)
      BY DEF GatewayInv, BudgetInv
    <2> QED
      BY <1>0, <1>1, <1>6, <1>9, <1>10, <2>1, BudgetAged
  <1> QED
    BY <1>8, <1>11, <1>12 DEF BudgetInv

LEMMA NextGateway ==
  ASSUME GatewayInv, [GatewayNext]_vars
  PROVE  GatewayInv'
  <1>0. LimiterInv'
    BY NextLimiter DEF GatewayInv
  <1>1. ASSUME UNCHANGED clientVars
        PROVE  ClientOK'
    BY <1>1 DEF clientVars, GatewayInv, ClientOK, BundlerClientTypeOK, LastAttempt
  <1>2. ASSUME UNCHANGED <<limiterVars, granted, forgotten>>
        PROVE  HistoryOK' /\ BudgetInv'
    <2>1. globalLimiter' = globalLimiter /\ ipLimiter' = ipLimiter
          /\ granted' = granted /\ forgotten' = forgotten
      BY <1>2 DEF limiterVars
    <2>2. \A ip \in Ips : GrantsOf(ip)' = GrantsOf(ip)
      BY <2>1 DEF GrantsOf
    <2>3. AllGrants' = AllGrants /\ \A ip \in Ips : Remembered(ip)' = Remembered(ip)
      BY <2>1, <2>2 DEF AllGrants, Remembered
    <2> QED
      BY <2>1, <2>3 DEF GatewayInv, HistoryOK, BudgetInv
  <1>3. ASSUME NEW c \in Calls, Rpc(c)
        PROVE  GatewayInv'
    <2>1. PICK ip \in Ips, sender \in Accounts \cup {NoSender}, method \in Methods :
            RpcLimited(c, ip, sender, method) \/ RpcAnswered(c, ip, sender, method)
            \/ RpcForwarded(c, ip, sender, method)
      BY <1>3 DEF Rpc
    <2>2. Meter(ip, sender, method) /\ (UNCHANGED clientVars \/ BeginCall(c))
      BY <2>1 DEF RpcLimited, RpcAnswered, RpcForwarded, CallBlocked
    <2>3. HistoryOK' /\ BudgetInv'
      BY <2>2, MeterBudget
    <2>4. ASSUME BeginCall(c)
          PROVE  ClientOK'
      BY <2>4, BundlerClientAssumption
      DEF BeginCall, GatewayInv, ClientOK, BundlerClientTypeOK, LastAttempt
    <2> QED
      BY <1>0, <1>1, <2>2, <2>3, <2>4 DEF GatewayInv
  <1>4. ASSUME NEW c \in Calls, CallProceeds(c)
        PROVE  GatewayInv'
    <2>1. ClientOK'
      BY <1>4, ClientStep DEF CallProceeds, GatewayInv
    <2> QED
      BY <1>0, <1>2, <1>4, <2>1 DEF CallProceeds, GatewayInv
  <1>5. CASE Tick
    <2>1. ClientOK'
      BY <1>5, BundlerClientAssumption
      DEF Tick, BreakerCools, GatewayInv, ClientOK, BundlerClientTypeOK, LastAttempt
    <2> QED
      BY <1>0, <1>5, <2>1, TickBudget DEF GatewayInv
  <1>6. CASE UNCHANGED vars
    BY <1>0, <1>1, <1>2, <1>6 DEF vars, GatewayInv
  <1> QED
    BY <1>3, <1>4, <1>5, <1>6 DEF GatewayNext

LEMMA GatewayInvariant == GatewaySpec => []GatewayInv
  BY InitGateway, NextGateway, PTL DEF GatewaySpec

\* The rate limits, the churn tracker and the bundler client keep their types:
\* no count passes its layer's limit and no call its last attempt, whatever the
\* callers ask and the bundler answers (rate-limit.ts:115-155; bundler-client.ts:91-143).
THEOREM GatewayTypesHold == GatewaySpec => []GatewayTypeOK
  <1>1. GatewayInv => GatewayTypeOK
    BY DEF GatewayInv, LimiterInv, ClientOK, HistoryOK, GatewayTypeOK
  <1> QED
    BY <1>1, GatewayInvariant, PTL

\* Less than twice the global limit gets through in any stretch of one window,
\* from wherever it is measured: for all callers, limits, capacities and
\* evictions in the other layers (rate-limit.ts:115-155, 182 and 241-247).
THEOREM GlobalBudgetHolds == GatewaySpec => []GlobalBudget
  <1>1. ASSUME GatewayInv
        PROVE  GlobalBudget
    <2>1. /\ AllGrants \in SUBSET Requests /\ IsFiniteSet(AllGrants)
          /\ globalLimiter[AnyCaller] \in [age: 0..WindowMs, count: 0..GlobalMax]
      BY <1>1, GrantsTypes, BucketTypes DEF GatewayInv, HistoryOK
    <2>2. Budget(AllGrants, globalLimiter[AnyCaller], GlobalMax)
      BY <1>1 DEF GatewayInv, BudgetInv
    <2> QED
      BY <2>1, <2>2, Limits, BudgetBound DEF GlobalBudget, AllGrants
  <1> QED
    BY <1>1, GatewayInvariant, PTL

\* The same for one IP, over any stretch in which its running window was not
\* evicted (rate-limit.ts:84-155).
THEOREM IpBudgetHolds == GatewaySpec => []IpBudget
  <1>1. ASSUME GatewayInv
        PROVE  IpBudget
    <2> SUFFICES ASSUME NEW ip \in Ips, forgotten[ip] = 0
                 PROVE  Cardinality(GrantsOf(ip)) <= 2 * IpMax - 1
      BY DEF IpBudget
    <2>1. Remembered(ip) = GrantsOf(ip)
      BY Limits DEF Remembered, GrantsOf, Ages
    <2>2. /\ GrantsOf(ip) \in SUBSET Requests /\ IsFiniteSet(GrantsOf(ip))
          /\ ipLimiter[ip] \in [age: 0..WindowMs, count: 0..IpMax]
      BY <1>1, GrantsTypes, BucketTypes DEF GatewayInv
    <2>3. Budget(GrantsOf(ip), ipLimiter[ip], IpMax)
      BY <1>1, <2>1 DEF GatewayInv, BudgetInv
    <2> QED
      BY <2>2, <2>3, Limits, BudgetBound
  <1> QED
    BY <1>1, GatewayInvariant, PTL
=============================================================================
