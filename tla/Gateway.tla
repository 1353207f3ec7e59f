------------------------------ MODULE Gateway ------------------------------
(***************************************************************************)
(* The API's POST /rpc handler (packages/api/src/index.ts, createApp) over *)
(* the rate limits and the bundler client.  Once the body of a request is  *)
(* read, everything up to the first await of the bundler is one turn: the  *)
(* churn record, the limits, the validation, and the breaker's check.      *)
(***************************************************************************)
EXTENDS RateLimit, BundlerClient

CONSTANT Local        \* methods that are answered without the bundler

ASSUME GatewayAssumption == Local \subseteq Methods

VARIABLES
  granted,            \* history: per IP and age, the requests that were granted
  forgotten           \* history: per IP, how long its early eviction still shows

vars == <<limiterVars, clientVars, granted, forgotten>>

Ages == 0..(WindowMs - 1)

-----------------------------------------------------------------------------
\* The IPs whose running window this step takes out of the limiter.
Dropped ==
  {ip \in Held(ipLimiter) :
     /\ ~WindowEnded(ipLimiter, ip)
     /\ ipLimiter'[ip] = NoBucket}

Remember(ip, isGranted) ==
  /\ granted' = IF isGranted THEN [granted EXCEPT ![ip][0] = @ + 1] ELSE granted
  /\ forgotten' = [i \in Ips |-> IF i \in Dropped THEN WindowMs ELSE forgotten[i]]

\* Tracking and limiting; both precede any look at what the request asks.
Meter(ip, sender, method) ==
  /\ RecordChurn(ip, sender)
  /\ Consume(ip, sender, method)
  /\ Remember(ip, RejectedLayer(ip, sender, method) = "none")

\* "Rate limit exceeded".
RpcLimited(c, ip, sender, method) ==
  /\ RejectedLayer(ip, sender, method) # "none"
  /\ ~Active(c)
  /\ Meter(ip, sender, method)
  /\ UNCHANGED clientVars

\* Answered in the same turn: eth_chainId and the like, an entry point or
\* parameters that are refused, or a breaker that is open.
RpcAnswered(c, ip, sender, method) ==
  /\ RejectedLayer(ip, sender, method) = "none"
  /\ \/ ~Active(c) /\ UNCHANGED clientVars
     \/ method \notin Local /\ CallBlocked(c)
  /\ Meter(ip, sender, method)

RpcForwarded(c, ip, sender, method) ==
  /\ RejectedLayer(ip, sender, method) = "none"
  /\ method \notin Local
  /\ BeginCall(c)
  /\ Meter(ip, sender, method)

Rpc(c) ==
  \E ip \in Ips, sender \in Accounts \cup {NoSender}, method \in Methods :
    \/ RpcLimited(c, ip, sender, method)
    \/ RpcAnswered(c, ip, sender, method)
    \/ RpcForwarded(c, ip, sender, method)

CallProceeds(c) == CallStep(c) /\ UNCHANGED <<limiterVars, granted, forgotten>>

Tick ==
  /\ LimitersAge
  /\ BreakerCools
  /\ granted' = [ip \in Ips |-> [a \in Ages |-> IF a = 0 THEN 0 ELSE granted[ip][a - 1]]]
  /\ forgotten' = [ip \in Ips |-> IF forgotten[ip] = 0 THEN 0 ELSE forgotten[ip] - 1]
  /\ UNCHANGED <<call, failures>>

GatewayInit ==
  /\ RateLimitInit
  /\ BundlerClientInit
  /\ granted = [ip \in Ips |-> [a \in Ages |-> 0]]
  /\ forgotten = [ip \in Ips |-> 0]

GatewayNext ==
  \/ \E c \in Calls : Rpc(c) \/ CallProceeds(c)
  \/ Tick

GatewaySpec == GatewayInit /\ [][GatewayNext]_vars

-----------------------------------------------------------------------------
(* Properties. *)

\* The limiters, the churn tracker and the client keep their types; in
\* particular no count exceeds its layer's limit.
GatewayTypeOK ==
  /\ RateLimitTypeOK
  /\ BundlerClientTypeOK
  /\ granted \in [Ips -> [Ages -> Nat]]
  /\ forgotten \in [Ips -> 0..WindowMs]

\* No map grows past its capacity, whoever calls in whatever order
\* (rate-limit.ts:101-113 and 302-321; rate-limit.test.ts:41 and 269).
TablesBounded ==
  /\ Cardinality(Held(ipLimiter)) <= MaxBuckets
  /\ Cardinality(Held(senderLimiter)) <= MaxBuckets
  /\ Cardinality(Held(methodLimiter)) <= MaxBuckets
  /\ Cardinality(Tracked(churn)) <= MaxIps

\* The requests granted to an IP in the last WindowMs, <<IP, age, number>>.
GrantsOf(ip) == UNION {{<<ip, a, n>> : n \in 1..granted[ip][a]} : a \in Ages}

\* "Backstop for distributed attacks" (rate-limit.ts:182): over any stretch of
\* WindowMs, from wherever it is measured, less than twice the global limit
\* gets through, evictions in the other layers notwithstanding.
GlobalBudget == Cardinality(UNION {GrantsOf(ip) : ip \in Ips}) <= 2 * GlobalMax - 1

\* An IP gets through less than twice its limit over any stretch of WindowMs,
\* with any number of senders (rate-limit.test.ts:184), unless its bucket was
\* evicted within the stretch.
IpBudget == \A ip \in Ips : forgotten[ip] = 0 => Cardinality(GrantsOf(ip)) <= 2 * IpMax - 1

\* The limiter forgets a count whose window still runs only when as many
\* windows as it has buckets are running, and then none that is younger than
\* one it keeps (rate-limit.ts:84-113).
ForgetsOnlyWhenFull ==
  [][\A ip \in Dropped :
       LET running == {i \in Held(ipLimiter) : ~WindowEnded(ipLimiter, i)} IN
       /\ Cardinality(running) = MaxBuckets
       /\ \A i \in running : ipLimiter[i].age <= ipLimiter[ip].age]_vars
=============================================================================
