----------------------------- MODULE RateLimit -----------------------------
(***************************************************************************)
(* The API's rate limits (packages/api/src/rate-limit.ts): a fixed window  *)
(* limiter per layer - all callers, IP, sender, expensive methods - and    *)
(* the tracker of how many senders an IP uses.                             *)
(*                                                                         *)
(* Only differences of clock readings matter, so a bucket keeps the age of *)
(* its window instead of its start, and no clock has to be bounded; a      *)
(* window that is over stays at the age WindowMs.  A Map is a function     *)
(* from every key it could hold, with NoBucket for those it does not hold. *)
(* Among buckets of equal age the code evicts the one inserted first; here *)
(* any of them goes.  The sweep of every 256th operation may come at any.  *)
(***************************************************************************)
EXTENDS Naturals, FiniteSets

CONSTANTS
  Ips, AnyCaller,     \* client addresses, and the one key of the global limiter
  Accounts, NoSender, \* senders named in requests, and null
  Methods, Expensive, \* RPC methods; EXPENSIVE_METHODS
  GlobalMax, IpMax, SenderMax, MethodMax,   \* maxRequestsPerWindow, per layer
  WindowMs,           \* rateLimit.windowMs, in clock units
  MaxBuckets, MaxIps  \* capacity of the limiters and of the churn tracker

ASSUME RateLimitAssumption ==
  /\ {GlobalMax, IpMax, SenderMax, MethodMax, WindowMs, MaxBuckets, MaxIps}
       \subseteq Nat \ {0}
  /\ Expensive \subseteq Methods
  /\ NoSender \notin Accounts
  /\ IsFiniteSet(Ips) /\ IsFiniteSet(Accounts)

VARIABLES
  globalLimiter, ipLimiter, senderLimiter, methodLimiter,
  churn               \* SenderChurnTracker.windows

limiterVars == <<globalLimiter, ipLimiter, senderLimiter, methodLimiter, churn>>

-----------------------------------------------------------------------------
(* FixedWindowRateLimiter. *)

NoBucket == [age |-> 0, count |-> 0]

Held(buckets) == {k \in DOMAIN buckets : buckets[k] # NoBucket}

WindowEnded(buckets, k) == buckets[k].age >= WindowMs

Swept(buckets) ==
  [k \in DOMAIN buckets |-> IF WindowEnded(buckets, k) THEN NoBucket ELSE buckets[k]]

\* Mutant: the comparison is turned round.
Youngest(buckets) ==
  {k \in Held(buckets) : \A j \in Held(buckets) : buckets[k].age <= buckets[j].age}

Oldest(buckets) ==
  {k \in Held(buckets) : \A j \in Held(buckets) : buckets[k].age >= buckets[j].age}

Evicted(buckets) == {[buckets EXCEPT ![k] = NoBucket] : k \in Oldest(buckets)}

\* Mutant: a key that has its bucket already is made room for, too.
WithRoomForAll(buckets, max, key) ==
  IF Cardinality(Held(Swept(buckets))) >= max
  THEN Evicted(Swept(buckets))
  ELSE {buckets, Swept(buckets)}

\* Mutant: room is made when the map is over its capacity already.
WithRoomTooLate(buckets, max, key) ==
  IF Cardinality(Held(buckets)) > max THEN Evicted(Swept(buckets)) ELSE {buckets, Swept(buckets)}

\* What enforceCapacity may leave in the map: a full map is swept, and still
\* being full it gives up its oldest bucket for a new key.
WithRoom(buckets, max, key) ==
  LET full(b) == Cardinality(Held(b)) >= max IN
  IF full(Swept(buckets)) /\ key \notin Held(Swept(buckets))
  THEN Evicted(Swept(buckets))
  ELSE IF full(buckets) THEN {Swept(buckets)}
  ELSE {buckets, Swept(buckets)}

\* Mutant: one request too many.
AllowsOneMore(buckets, limit, key) ==
  \/ key \notin Held(buckets) \/ WindowEnded(buckets, key)
  \/ buckets[key].count <= limit

\* consume grants the request: making room never takes the key's own bucket.
Allows(buckets, limit, key) ==
  \/ key \notin Held(buckets) \/ WindowEnded(buckets, key)
  \/ buckets[key].count < limit

\* Mutant: refused requests are counted, too.
CountedAlways(buckets, limit, key) ==
  IF key \notin Held(buckets) \/ WindowEnded(buckets, key)
  THEN [buckets EXCEPT ![key] = [age |-> 0, count |-> 1]]
  ELSE [buckets EXCEPT ![key].count = @ + 1]

Counted(buckets, limit, key) ==
  IF key \notin Held(buckets) \/ WindowEnded(buckets, key)
  THEN [buckets EXCEPT ![key] = [age |-> 0, count |-> 1]]
  ELSE IF buckets[key].count >= limit THEN buckets
  ELSE [buckets EXCEPT ![key].count = @ + 1]

\* The buckets that consume may leave behind.
Consumed(buckets, limit, max, key) ==
  {Counted(b, limit, key) : b \in WithRoom(buckets, max, key)}

-----------------------------------------------------------------------------
(* LayeredRateLimiter.consume: a layer is charged if all layers before it   *)
(* granted the request, and what was charged stays charged.                 *)

GlobalAllows == Allows(globalLimiter, GlobalMax, AnyCaller)
IpAllows(ip) == Allows(ipLimiter, IpMax, ip)
SenderAllows(sender) == sender = NoSender \/ Allows(senderLimiter, SenderMax, sender)
MethodAllows(ip, method) ==
  method \notin Expensive \/ Allows(methodLimiter, MethodMax, ip)

\* rejectedLayer; "none" grants the request.
RejectedLayer(ip, sender, method) ==
  IF ~GlobalAllows THEN "global"
  ELSE IF ~IpAllows(ip) THEN "ip"
  ELSE IF ~SenderAllows(sender) THEN "sender"
  ELSE IF ~MethodAllows(ip, method) THEN "method"
  ELSE "none"

Consume(ip, sender, method) ==
  LET toIp     == GlobalAllows
      toSender == toIp /\ IpAllows(ip)
      toMethod == toSender /\ SenderAllows(sender)
  IN  /\ globalLimiter' \in Consumed(globalLimiter, GlobalMax, 1, AnyCaller)
      /\ ipLimiter' \in IF toIp THEN Consumed(ipLimiter, IpMax, MaxBuckets, ip)
                        ELSE {ipLimiter}
      /\ senderLimiter' \in IF toSender /\ sender # NoSender
                            THEN Consumed(senderLimiter, SenderMax, MaxBuckets, sender)
                            ELSE {senderLimiter}
      /\ methodLimiter' \in IF toMethod /\ method \in Expensive
                            THEN Consumed(methodLimiter, MethodMax, MaxBuckets, ip)
                            ELSE {methodLimiter}

-----------------------------------------------------------------------------
(* SenderChurnTracker. *)

NoWindow == [age |-> 0, senders |-> {}]
Tracked(windows) == {ip \in Ips : windows[ip] # NoWindow}

OldestTracked(windows) ==
  {ip \in Tracked(windows) : \A j \in Tracked(windows) : windows[ip].age >= windows[j].age}

\* The windows that record may leave; expired ones stay until they are evicted.
Recorded(windows, ip, sender) ==
  IF ip \in Tracked(windows) /\ windows[ip].age < WindowMs
  THEN {[windows EXCEPT ![ip].senders = @ \cup {sender}]}
  ELSE LET rooms == IF ip \notin Tracked(windows) /\ Cardinality(Tracked(windows)) >= MaxIps
                    THEN {[windows EXCEPT ![old] = NoWindow] : old \in OldestTracked(windows)}
                    ELSE {windows}
       IN  {[w EXCEPT ![ip] = [age |-> 0, senders |-> {sender}]] : w \in rooms}

RecordChurn(ip, sender) ==
  churn' \in IF sender = NoSender THEN {churn} ELSE Recorded(churn, ip, sender)

-----------------------------------------------------------------------------
EmptyLimiter(keys) == [k \in keys |-> NoBucket]

\* The clock advances by one unit.
OneOlder(age) == IF age < WindowMs THEN age + 1 ELSE age

AgedBuckets(limiter) ==
  [k \in DOMAIN limiter |->
     IF limiter[k] = NoBucket THEN NoBucket ELSE [limiter[k] EXCEPT !.age = OneOlder(@)]]

LimitersAge ==
  /\ globalLimiter' = AgedBuckets(globalLimiter)
  /\ ipLimiter' = AgedBuckets(ipLimiter)
  /\ senderLimiter' = AgedBuckets(senderLimiter)
  /\ methodLimiter' = AgedBuckets(methodLimiter)
  /\ churn' = [ip \in Ips |-> IF churn[ip] = NoWindow THEN NoWindow
                              ELSE [churn[ip] EXCEPT !.age = OneOlder(@)]]

RateLimitInit ==
  /\ globalLimiter = EmptyLimiter({AnyCaller})
  /\ ipLimiter = EmptyLimiter(Ips)
  /\ senderLimiter = EmptyLimiter(Accounts)
  /\ methodLimiter = EmptyLimiter(Ips)
  /\ churn = [ip \in Ips |-> NoWindow]

Limiter(keys, limit) == [keys -> [age: 0..WindowMs, count: 0..limit]]

RateLimitTypeOK ==
  /\ globalLimiter \in Limiter({AnyCaller}, GlobalMax)
  /\ ipLimiter \in Limiter(Ips, IpMax)
  /\ senderLimiter \in Limiter(Accounts, SenderMax)
  /\ methodLimiter \in Limiter(Ips, MethodMax)
  /\ churn \in [Ips -> [age: 0..WindowMs, senders: SUBSET Accounts]]
=============================================================================
