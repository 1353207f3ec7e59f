----------------------------- MODULE Reputation -----------------------------
(***************************************************************************)
(* SenderReputationTracker (packages/bundler/src/reputation.ts): senders   *)
(* whose operations fail deterministically are throttled, then banned.     *)
(*                                                                         *)
(* Every mutation of the in-memory map is followed by the one statement    *)
(* that writes the same row to SQLite.  A crash between the two loses the  *)
(* map, so it cannot be told from a crash before both: one variable stands *)
(* for the map and its rows.                                               *)
(***************************************************************************)
EXTENDS Naturals

CONSTANTS
  Senders,            \* accounts that send user operations
  BanFailures,        \* reputationBanFailures
  ThrottleFailures,   \* reputationThrottleFailures
  ReputationWindow,   \* reputationWindowMs, in clock units
  ThrottleWindow,     \* throttleWindowMs
  BanWindow,          \* banWindowMs
  MaxTime             \* bound on the clock

ASSUME ReputationAssumption ==
  /\ BanFailures \in Nat /\ ThrottleFailures \in Nat
  /\ ReputationWindow \in Nat /\ ThrottleWindow \in Nat /\ BanWindow \in Nat
  /\ MaxTime \in Nat

VARIABLES
  now,                \* Date.now(), in clock units; the first instant is 1
  reputation          \* the tracker's map, and the sender_reputations rows

NoTime == 0           \* null

Reputations == [failures: Nat, windowStartedAt: Nat,
                throttledUntil: Nat, bannedUntil: Nat]

\* A sender the map has no entry for.
NoReputation == [failures |-> 0, windowStartedAt |-> NoTime,
                 throttledUntil |-> NoTime, bannedUntil |-> NoTime]

WindowOver(r, t) == r.windowStartedAt # NoTime /\ t >= r.windowStartedAt + ReputationWindow

Lapse(until, t) == IF until <= t THEN NoTime ELSE until

\* What resolve() leaves of a sender's entry at time t.
Resolve(s, t) ==
  LET r == reputation[s] IN
  IF WindowOver(r, t)
  THEN NoReputation
  ELSE [r EXCEPT !.bannedUntil = Lapse(@, t), !.throttledUntil = Lapse(@, t)]

\* ensureCanSubmit throws at time t.
Refused(s, t) == Resolve(s, t).bannedUntil > t \/ Resolve(s, t).throttledUntil > t

\* Mutant: the failure after the one that bans does not ban again.
AfterFailureBansOnce(s) ==
  LET r == Resolve(s, now)
      n == r.failures + 1
  IN  [failures        |-> n,
       windowStartedAt |-> IF r.windowStartedAt = NoTime THEN now ELSE r.windowStartedAt,
       bannedUntil     |-> IF n = BanFailures THEN now + BanWindow ELSE NoTime,
       throttledUntil  |-> IF n < BanFailures /\ n >= ThrottleFailures
                           THEN now + ThrottleWindow ELSE NoTime]

\* The entry after one more deterministic failure.  The failure that reaches
\* the ban threshold replaces a throttle by a ban.
AfterFailure(s) ==
  LET r == Resolve(s, now)
      n == r.failures + 1
  IN  [failures        |-> n,
       windowStartedAt |-> IF r.windowStartedAt = NoTime THEN now ELSE r.windowStartedAt,
       bannedUntil     |-> IF n >= BanFailures THEN now + BanWindow ELSE NoTime,
       throttledUntil  |-> IF n < BanFailures /\ n >= ThrottleFailures
                           THEN now + ThrottleWindow ELSE NoTime]

-----------------------------------------------------------------------------
(* The tracker's operations. *)

\* The sender may submit; looking it up drops what has expired.
EnsureCanSubmit(s) ==
  /\ ~Refused(s, now)
  /\ reputation' = [reputation EXCEPT ![s] = Resolve(s, now)]

RecordDeterministicFailure(s) ==
  reputation' = [reputation EXCEPT ![s] = AfterFailure(s)]

ClearReputation(s) ==
  reputation' = [reputation EXCEPT ![s] = NoReputation]

\* Mutant: OR for AND.
BanOrThrottleServed(r, t) ==
  \/ r.bannedUntil # NoTime /\ r.bannedUntil <= t
  \/ r.throttledUntil = NoTime \/ r.throttledUntil <= t

\* A restart at time t drops the rows whose ban has run out, and only those.
BanServed(r, t) ==
  /\ r.bannedUntil # NoTime /\ r.bannedUntil <= t
  /\ r.throttledUntil = NoTime \/ r.throttledUntil <= t

ReloadReputations(t) ==
  reputation' = [s \in Senders |->
                   IF BanServed(reputation[s], t) THEN NoReputation ELSE reputation[s]]

Tick == /\ now < MaxTime
        /\ now' = now + 1

ReputationInit == /\ now = 1
                  /\ reputation = [s \in Senders |-> NoReputation]

ReputationTypeOK == /\ now \in Nat \ {0}
                    /\ reputation \in [Senders -> Reputations]
=============================================================================
