--------------------------- MODULE BundlerClient ---------------------------
(***************************************************************************)
(* HttpBundlerClient (packages/api/src/bundler-client.ts): calls to the    *)
(* bundler with a timeout, up to three attempts each, behind one circuit   *)
(* breaker that all of them share.  A call gives up the thread at every    *)
(* await: while it fetches, while it reads the body, and while it sleeps   *)
(* before the next attempt.                                                *)
(***************************************************************************)
EXTENDS Naturals

CONSTANTS
  Calls,              \* calls that may be under way at once
  MaxAttempts,        \* MAX_RETRY_ATTEMPTS
  FailureThreshold,   \* CIRCUIT_FAILURE_THRESHOLD
  RecoveryMs          \* CIRCUIT_RECOVERY_MS, in clock units

ASSUME BundlerClientAssumption ==
  {MaxAttempts, FailureThreshold, RecoveryMs} \subseteq Nat \ {0}

VARIABLES
  call,               \* where each call stands
  failures,           \* consecutiveFailures, counted up to the threshold
  openFor             \* what is left until circuitOpenUntil; 0 when it is past

clientVars == <<call, failures, openFor>>

-----------------------------------------------------------------------------
NoCall == [phase |-> "none", attempt |-> 0]

Active(c) == call[c].phase # "none"
\* Mutant: one attempt too many.
AttemptsExhausted(c) == call[c].attempt = MaxAttempts

LastAttempt(c) == call[c].attempt = MaxAttempts - 1

BreakerOpen == openFor > 0

\* The call returns, or throws without having counted as a failure.
Leave(c) == call' = [call EXCEPT ![c] = NoCall]

BeginCall(c) ==
  /\ ~Active(c)
  /\ ~BreakerOpen
  /\ call' = [call EXCEPT ![c] = [phase |-> "fetching", attempt |-> 0]]
  /\ UNCHANGED <<failures, openFor>>

\* Mutant: a call that the breaker refuses counts as one more failure.
CallBlockedCounting(c) ==
  /\ ~Active(c)
  /\ BreakerOpen
  /\ openFor' = RecoveryMs
  /\ UNCHANGED <<call, failures>>

\* "Bundler circuit breaker is open".
CallBlocked(c) ==
  /\ ~Active(c)
  /\ BreakerOpen
  /\ UNCHANGED clientVars

\* The last attempt is lost: rpc throws.
Fail(c) ==
  LET n == IF failures < FailureThreshold THEN failures + 1 ELSE failures IN
  /\ Leave(c)
  /\ failures' = n
  /\ openFor' = IF n >= FailureThreshold THEN RecoveryMs ELSE openFor

SleepBeforeRetry(c) ==
  /\ call' = [call EXCEPT ![c].phase = "sleeping"]
  /\ UNCHANGED <<failures, openFor>>

\* fetch rejects: aborted by the timeout or no connection, which is retried,
\* or for another reason, which is not.
FetchFails(c) ==
  /\ call[c].phase = "fetching"
  /\ \E retryable \in BOOLEAN :
       IF retryable /\ ~LastAttempt(c) THEN SleepBeforeRetry(c) ELSE Fail(c)

\* The headers arrive; a 5xx is retried, except by the last attempt.
HeadersArrive(c) ==
  /\ call[c].phase = "fetching"
  /\ \E serverError \in BOOLEAN :
       IF serverError /\ ~LastAttempt(c)
       THEN SleepBeforeRetry(c)
       ELSE /\ call' = [call EXCEPT ![c].phase = "reading"]
            /\ UNCHANGED <<failures, openFor>>

\* A JSON-RPC response, result or error, closes the streak of failures.
\* It leaves a running recovery period alone.
AnswerArrives(c) ==
  /\ call[c].phase = "reading"
  /\ Leave(c)
  /\ failures' = 0
  /\ UNCHANGED openFor

\* Anything else, a broken body included, is a failure that is not retried.
BodyUnusable(c) ==
  /\ call[c].phase = "reading"
  /\ Fail(c)

\* Mutant: the attempt is not counted.
RetryForever(c) ==
  /\ call[c].phase = "sleeping"
  /\ call' = [call EXCEPT ![c].phase = "fetching"]
  /\ UNCHANGED <<failures, openFor>>

Retry(c) ==
  /\ call[c].phase = "sleeping"
  /\ call' = [call EXCEPT ![c] = [phase |-> "fetching", attempt |-> @.attempt + 1]]
  /\ UNCHANGED <<failures, openFor>>

\* One turn of a call that is under way.
CallStep(c) ==
  \/ FetchFails(c) \/ HeadersArrive(c)
  \/ AnswerArrives(c) \/ BodyUnusable(c)
  \/ Retry(c)

BreakerCools == openFor' = IF openFor > 0 THEN openFor - 1 ELSE 0

BundlerClientInit ==
  /\ call = [c \in Calls |-> NoCall]
  /\ failures = 0
  /\ openFor = 0

BundlerClientTypeOK ==
  /\ call \in [Calls -> [phase: {"none", "fetching", "reading", "sleeping"},
                         attempt: 0..(MaxAttempts - 1)]]
  /\ failures \in 0..FailureThreshold
  /\ openFor \in 0..RecoveryMs
=============================================================================
