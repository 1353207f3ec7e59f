-------------------------- MODULE GasPriceOracle --------------------------
(***************************************************************************)
(* RpcGasPriceOracle (packages/api/src/gas-price-oracle.ts): guidance that *)
(* is cached briefly.  Callers that miss the cache each ask the node, and  *)
(* whoever is answered last is the one that is cached.                     *)
(***************************************************************************)
EXTENDS Naturals

CONSTANTS
  Askers,           \* calls of getGasPriceGuidance that may overlap
  GuidanceTtlMs,    \* cacheTtlMs
  GuidanceFetchMs   \* timeoutMs

ASSUME GasPriceOracleAssumption ==
  {GuidanceTtlMs, GuidanceFetchMs} \subseteq Nat \ {0}

VARIABLES
  cachedGuidance,   \* its age, from the node's answer on, and what is left of its time
  asked             \* for each caller, how long its request has been under way

guidanceVars == <<cachedGuidance, asked>>

NoGuidance == [age |-> 0, left |-> 0]
NotAsked == GuidanceFetchMs + 1

Asking(q) == asked[q] # NotAsked

HasGuidance == cachedGuidance # NoGuidance

AskGuidance(q) == asked' = [asked EXCEPT ![q] = 0]

\* The node worked out its answer `age` ago, after it was asked.
GuidanceArrives(q, age) ==
  /\ Asking(q)
  /\ age <= asked[q]
  /\ asked' = [asked EXCEPT ![q] = NotAsked]
  /\ cachedGuidance' = [age |-> age, left |-> GuidanceTtlMs]

\* The request fails or is aborted, or its result makes no sense.
GuidanceFails(q) ==
  /\ Asking(q)
  /\ asked' = [asked EXCEPT ![q] = NotAsked]
  /\ UNCHANGED cachedGuidance

\* Mutant: the cache does not expire.
OlderGuidanceForever ==
  IF HasGuidance THEN [cachedGuidance EXCEPT !.age = @ + 1] ELSE NoGuidance

\* Guidance that has expired is never looked at again.
OlderGuidance ==
  IF cachedGuidance.left > 1
  THEN [age |-> cachedGuidance.age + 1, left |-> cachedGuidance.left - 1]
  ELSE NoGuidance

GuidanceInTime == \A q \in Askers : Asking(q) => asked[q] < GuidanceFetchMs

GuidanceAges ==
  /\ GuidanceInTime
  /\ cachedGuidance' = OlderGuidance
  /\ asked' = [q \in Askers |-> IF Asking(q) THEN asked[q] + 1 ELSE NotAsked]

GuidanceInit ==
  /\ cachedGuidance = NoGuidance
  /\ asked = [q \in Askers |-> NotAsked]

GuidanceTypeOK ==
  /\ cachedGuidance \in [age: Nat, left: 0..GuidanceTtlMs]
  /\ asked \in [Askers -> 0..NotAsked]
=============================================================================
