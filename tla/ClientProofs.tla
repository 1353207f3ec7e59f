---------------------------- MODULE ClientProofs ----------------------------
(***************************************************************************)
(* The calls to the bundler: the lemmas that the gateway's and the         *)
(* quotes' proofs share, for any number of calls and attempts.             *)
(***************************************************************************)
EXTENDS BundlerClient, TLAPS

\* A call that sleeps has an attempt left.
ClientOK ==
  /\ BundlerClientTypeOK
  /\ \A c \in Calls : call[c].phase = "sleeping" => ~LastAttempt(c)

\* A step of a call keeps the client's state, and tells what becomes of the call.
LEMMA ClientStep ==
  ASSUME ClientOK, NEW q \in Calls, CallStep(q)
  PROVE  /\ ClientOK'
         /\ Active(q) /\ (call'[q] = NoCall <=> ~Active(q)')
         /\ \A p \in Calls \ {q} : call'[p] = call[p]
         /\ AnswerArrives(q) => ~Active(q)'
  <1> DEFINE Record == [phase: {"none", "fetching", "reading", "sleeping"},
                        attempt: 0..(MaxAttempts - 1)]
  <1>0. /\ call \in [Calls -> Record] /\ failures \in 0..FailureThreshold
        /\ openFor \in 0..RecoveryMs
        /\ {MaxAttempts, FailureThreshold, RecoveryMs} \subseteq Nat \ {0}
    BY BundlerClientAssumption DEF ClientOK, BundlerClientTypeOK
  <1>1. Active(q)
    BY DEF CallStep, FetchFails, HeadersArrive, AnswerArrives, BodyUnusable, Retry, Active
  <1>2. PICK r \in Record :
          /\ call' = [call EXCEPT ![q] = r]
          /\ r = NoCall \/ r.phase # "none"
          /\ r.phase = "sleeping" => r.attempt # MaxAttempts - 1
          /\ AnswerArrives(q) => r = NoCall
    <2>1. CASE call' = [call EXCEPT ![q] = NoCall]
      <3>1. NoCall \in Record /\ NoCall.phase = "none"
        BY <1>0 DEF NoCall
      <3> QED
        BY <2>1, <3>1
    <2>2. CASE call[q].phase = "fetching" /\ ~LastAttempt(q) /\ SleepBeforeRetry(q)
      <3> DEFINE r == [call[q] EXCEPT !.phase = "sleeping"]
      <3>1. r \in Record /\ r.phase = "sleeping" /\ r.attempt # MaxAttempts - 1
        BY <1>0, <2>2 DEF LastAttempt
      <3>2. call' = [call EXCEPT ![q] = r]
        BY <1>0, <2>2 DEF SleepBeforeRetry
      <3> QED
        BY <2>2, <3>1, <3>2 DEF AnswerArrives
    <2>3. CASE call[q].phase = "fetching" /\ call' = [call EXCEPT ![q].phase = "reading"]
      <3> DEFINE r == [call[q] EXCEPT !.phase = "reading"]
      <3>1. r \in Record /\ r.phase = "reading"
        BY <1>0
      <3>2. call' = [call EXCEPT ![q] = r]
        BY <1>0, <2>3
      <3> QED
        BY <2>3, <3>1, <3>2 DEF AnswerArrives
    <2>4. CASE Retry(q)
      <3> DEFINE r == [phase |-> "fetching", attempt |-> call[q].attempt + 1]
      <3>1. call[q].attempt # MaxAttempts - 1 /\ call[q].phase = "sleeping"
        BY <2>4 DEF Retry, ClientOK, LastAttempt
      <3>2. r \in Record
        BY <1>0, <3>1
      <3>3. call' = [call EXCEPT ![q] = r]
        BY <1>0, <2>4 DEF Retry
      <3> QED
        BY <3>1, <3>2, <3>3 DEF AnswerArrives
    <2> QED
      BY <2>1, <2>2, <2>3, <2>4
      DEF CallStep, FetchFails, HeadersArrive, AnswerArrives, BodyUnusable, Fail, Leave
  <1>3. failures' \in 0..FailureThreshold /\ openFor' \in 0..RecoveryMs
    BY <1>0 DEF CallStep, FetchFails, HeadersArrive, AnswerArrives, BodyUnusable, Retry, Fail,
                SleepBeforeRetry
  <1>4. BundlerClientTypeOK'
    BY <1>0, <1>2, <1>3 DEF BundlerClientTypeOK
  <1>5. \A c \in Calls : call'[c].phase = "sleeping" => call'[c].attempt # MaxAttempts - 1
    BY <1>0, <1>2 DEF ClientOK, LastAttempt
  <1>6. NoCall.phase = "none"
    BY DEF NoCall
  <1> QED
    BY <1>0, <1>1, <1>2, <1>4, <1>5, <1>6 DEF ClientOK, LastAttempt, Active
=============================================================================
