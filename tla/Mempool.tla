------------------------------ MODULE Mempool ------------------------------
(***************************************************************************)
(* The bundler's mempool: BundlerService (packages/bundler/src/index.ts)   *)
(* over BundlerPersistenceStore (packages/bundler/src/persistence.ts).     *)
(*                                                                         *)
(* The process is single threaded: a handler runs to its next await with   *)
(* no other handler in between, but a crash may fall between two of its    *)
(* SQLite statements, each of which commits by itself.  A handler is one   *)
(* action that leaves memory as the handler leaves it and hands `tail` the *)
(* statements still to execute; each statement is an action of its own,    *)
(* and no other handler starts before they are done.                       *)
(***************************************************************************)
EXTENDS Reputation, UserOps

CONSTANTS
  Requests, NoHash,       \* concurrent eth_sendUserOperation calls; an idle one
  HasAdmissionSimulator,  \* config.admissionSimulator is given
  MaxFinalized,           \* config.maxFinalizedOperations; 0 disables pruning
  CrashInHandler,         \* may the process die between two statements?
  MaxCrashes              \* bound on the number of crashes

ASSUME MempoolAssumption ==
  /\ SenderOf \in [Hashes -> Senders]
  /\ NoHash \notin Hashes
  /\ HasAdmissionSimulator \in BOOLEAN /\ CrashInHandler \in BOOLEAN
  /\ MaxFinalized \in Nat /\ MaxCrashes \in Nat

VARIABLES
  up,            \* the process runs
  crashes,       \* crashes so far
  mem,           \* this.userOperations
  pendingDb,     \* table pending_user_operations
  finalizedDb,   \* table finalized_user_operations
  request,       \* the operation each call waits to have simulated
  tail           \* the statements the running handler has still to execute

mempoolVars == <<now, reputation, up, crashes, mem, pendingDb, finalizedDb, request, tail>>

-----------------------------------------------------------------------------
(* Data. *)

OpenStates == {"pending", "submitting"}
FinalStates == {"included", "failed"}

\* `packable` says that the stored operation has the gas fields that
\* packUserOperation requires.  A row is kept as the operation it loads as.
StoredUserOperation ==
  [state: {"none"} \cup OpenStates \cup FinalStates, packable: BOOLEAN,
   receivedAt: Nat, submissionTxHash: Txs \cup {NoTx}, submissionStartedAt: Nat,
   transactionHash: Txs \cup {NoTx}, finalizedAt: Nat]

NoOperation ==
  [state |-> "none", packable |-> FALSE, receivedAt |-> NoTime,
   submissionTxHash |-> NoTx, submissionStartedAt |-> NoTime,
   transactionHash |-> NoTx, finalizedAt |-> NoTime]

PendingOperation(complete) ==
  [NoOperation EXCEPT !.state = "pending", !.packable = complete, !.receivedAt = now]

\* The columns that a claim, a release, a submission and a result set.
AsSubmitting(op, startedAt) ==
  [op EXCEPT !.state = "submitting", !.submissionTxHash = NoTx,
             !.submissionStartedAt = startedAt]

AsPending(op) ==
  [op EXCEPT !.state = "pending", !.submissionTxHash = NoTx, !.submissionStartedAt = NoTime]

WithTx(op, t) == [op EXCEPT !.state = "submitting", !.submissionTxHash = t]

\* Mutant: two columns swapped.
AsFinalSwapped(op, state, t) ==
  [op EXCEPT !.state = state, !.submissionTxHash = NoTx, !.submissionStartedAt = NoTime,
             !.transactionHash = now, !.finalizedAt = t]

AsFinal(op, state, t) ==
  [op EXCEPT !.state = state, !.submissionTxHash = NoTx, !.submissionStartedAt = NoTime,
             !.transactionHash = t, !.finalizedAt = now]

Statements == {"savePending", "markSubmitting", "recordTx", "markPending",
               "deleteFinalized", "saveFinalized", "removePending", "prune", "idle"}

Idle == [stmt |-> "idle", ops |-> {}]
Then(stmt, ops) == IF ops = {} THEN Idle ELSE [stmt |-> stmt, ops |-> ops]

Open(h) == mem[h].state \in OpenStates
Final(h) == mem[h].state \in FinalStates

\* Mutant: operations that are being submitted are overlooked.
ConflictWithPending(h) ==
  \E g \in Hashes \ {h} : mem[g].state = "pending" /\ SameSlot(g, h)

\* findOpenOperationBySenderAndNonce finds another operation.
Conflict(h) == \E g \in Hashes \ {h} : Open(g) /\ SameSlot(g, h)

\* What loadFromPersistence makes of the rows: finalized ones override.
Durable(h) == IF finalizedDb[h] # NoOperation THEN finalizedDb[h] ELSE pendingDb[h]

Ready == up /\ tail = Idle

-----------------------------------------------------------------------------
(* eth_sendUserOperation.  Nothing is read before the gas estimate is       *)
(* awaited; everything up to the admission simulation is one turn.          *)

Checked(r, h) ==
  /\ Ready
  /\ request[r] = NoHash
  /\ EnsureCanSubmit(SenderOf[h])

\* sender_banned or sender_throttled.
SendRefused(r, h) ==
  /\ Ready
  /\ request[r] = NoHash
  /\ Refused(SenderOf[h], now)
  /\ UNCHANGED mempoolVars

\* nonce_conflict, or the hash is known and has not failed: nothing to do.
SendWithoutEffect(r, h) ==
  /\ Checked(r, h)
  /\ Conflict(h) \/ mem[h].state \in OpenStates \cup {"included"}
  /\ UNCHANGED <<now, up, crashes, mem, pendingDb, finalizedDb, request, tail>>

\* Mutant: the finalized row of the first attempt is left in place.
SendRequeueKeepsRow(r, h, complete) ==
  /\ Checked(r, h)
  /\ ~Conflict(h)
  /\ mem[h].state = "failed"
  /\ mem' = [mem EXCEPT ![h] = PendingOperation(complete)]
  /\ tail' = Then("savePending", {h})
  /\ UNCHANGED <<now, up, crashes, pendingDb, finalizedDb, request>>

\* Mutant: whatever is final is queued again.
SendRequeueFinal(r, h, complete) ==
  /\ Checked(r, h)
  /\ ~Conflict(h)
  /\ Final(h)
  /\ mem' = [mem EXCEPT ![h] = PendingOperation(complete)]
  /\ tail' = Then("deleteFinalized", {h})
  /\ UNCHANGED <<now, up, crashes, pendingDb, finalizedDb, request>>

\* A failed operation is queued again, with the fields of this call only:
\* `complete` says whether the caller spelled out the gas fields.
SendRequeue(r, h, complete) ==
  /\ Checked(r, h)
  /\ ~Conflict(h)
  /\ mem[h].state = "failed"
  /\ mem' = [mem EXCEPT ![h] = PendingOperation(complete)]
  /\ tail' = Then("deleteFinalized", {h})
  /\ UNCHANGED <<now, up, crashes, pendingDb, finalizedDb, request>>

Admit(h) ==
  /\ mem' = [mem EXCEPT ![h] = PendingOperation(TRUE)]
  /\ tail' = Then("savePending", {h})

SendAwaitSimulation(r, h) ==
  /\ HasAdmissionSimulator
  /\ Checked(r, h)
  /\ ~Conflict(h)
  /\ mem[h].state = "none"
  /\ request' = [request EXCEPT ![r] = h]
  /\ UNCHANGED <<now, up, crashes, mem, pendingDb, finalizedDb, tail>>

SendAdmit(r, h) ==
  /\ ~HasAdmissionSimulator
  /\ Checked(r, h)
  /\ ~Conflict(h)
  /\ mem[h].state = "none"
  /\ Admit(h)
  /\ UNCHANGED <<now, up, crashes, pendingDb, finalizedDb, request>>

\* The simulation answers; the checks made before it are not made again.
SimulationPassed(r) ==
  /\ Ready
  /\ request[r] # NoHash
  /\ Admit(request[r])
  /\ request' = [request EXCEPT ![r] = NoHash]
  /\ UNCHANGED <<now, reputation, up, crashes, pendingDb, finalizedDb>>

SimulationFailed(r) ==
  /\ Ready
  /\ request[r] # NoHash
  /\ RecordDeterministicFailure(SenderOf[request[r]])
  /\ request' = [request EXCEPT ![r] = NoHash]
  /\ UNCHANGED <<now, up, crashes, mem, pendingDb, finalizedDb, tail>>

SendUserOperation(r) ==
  \/ \E h \in Hashes : \/ SendRefused(r, h)
                       \/ SendWithoutEffect(r, h)
                       \/ \E complete \in BOOLEAN : SendRequeue(r, h, complete)
                       \/ SendAwaitSimulation(r, h)
                       \/ SendAdmit(r, h)
  \/ SimulationPassed(r)
  \/ SimulationFailed(r)

-----------------------------------------------------------------------------
(* The calls of whoever submits the operations (the submitter, or the       *)
(* bundle endpoints).                                                       *)

Pending == {h \in Hashes : mem[h].state = "pending"}
Submitting == {h \in Hashes : mem[h].state = "submitting"}

NotLater(S, T) == \A s \in S, t \in T : mem[s].receivedAt <= mem[t].receivedAt

\* The sets claimPendingUserOperations may select: the n longest waiting
\* operations of the entry point of the longest waiting one.
Claimable(n) ==
  {S \in SUBSET Pending :
     \E first \in S :
       LET same == {h \in Pending : EntryPointOf[h] = EntryPointOf[first]} IN
       /\ NotLater({first}, Pending)
       /\ S \subseteq same /\ NotLater(S, same \ S)
       /\ Cardinality(S) = n \/ (Cardinality(S) < n /\ S = same)}

Claim(S) ==
  /\ Ready
  /\ mem' = [h \in Hashes |->
               IF h \in S THEN AsSubmitting(mem[h], now) ELSE mem[h]]
  /\ tail' = Then("markSubmitting", S)
  /\ UNCHANGED <<now, reputation, up, crashes, pendingDb, finalizedDb, request>>

Release(S) ==
  /\ Ready
  /\ mem' = [h \in Hashes |->
               IF h \in S \cap Submitting THEN AsPending(mem[h]) ELSE mem[h]]
  /\ tail' = Then("markPending", S \cap Submitting)
  /\ UNCHANGED <<now, reputation, up, crashes, pendingDb, finalizedDb, request>>

RecordTransactionHash(S, t) ==
  /\ Ready
  /\ mem' = [h \in Hashes |->
               IF h \in S \cap Submitting
               THEN [WithTx(mem[h], t) EXCEPT
                       !.submissionStartedAt = IF @ = NoTime THEN now ELSE @]
               ELSE mem[h]]
  /\ tail' = Then("recordTx", S \cap Submitting)
  /\ UNCHANGED <<now, reputation, up, crashes, pendingDb, finalizedDb, request>>

\* Mutant: the pending row goes before the finalized one is written.
FinalizeRemovingFirst(h, t, success) ==
  /\ Ready
  /\ mem[h].state # "none"
  /\ mem' = [mem EXCEPT ![h] = AsFinal(@, IF success THEN "included" ELSE "failed", t)]
  /\ IF success THEN ClearReputation(SenderOf[h]) ELSE UNCHANGED reputation
  /\ tail' = Then("removePending", {h})
  /\ UNCHANGED <<now, up, crashes, pendingDb, finalizedDb, request>>

FinalizeUserOperation(h, t, success) ==
  /\ Ready
  /\ mem[h].state # "none"
  /\ mem' = [mem EXCEPT ![h] = AsFinal(@, IF success THEN "included" ELSE "failed", t)]
  /\ IF success THEN ClearReputation(SenderOf[h]) ELSE UNCHANGED reputation
  /\ tail' = Then("saveFinalized", {h})
  /\ UNCHANGED <<now, up, crashes, pendingDb, finalizedDb, request>>

MarkUserOperationFailed(h) ==
  /\ Ready
  /\ mem[h].state # "none"
  /\ mem' = [mem EXCEPT ![h] = AsFinal(@, "failed", NoTx)]
  /\ RecordDeterministicFailure(SenderOf[h])
  /\ tail' = Then("saveFinalized", {h})
  /\ UNCHANGED <<now, up, crashes, pendingDb, finalizedDb, request>>

-----------------------------------------------------------------------------
(* The statements of BundlerPersistenceStore, one commit each.  A statement *)
(* that is executed once per operation takes the longest waiting one next.  *)

Executes(stmt, h) ==
  /\ up
  /\ tail.stmt = stmt
  /\ h \in tail.ops
  /\ NotLater({h}, tail.ops)
  /\ UNCHANGED <<now, reputation, up, crashes, request>>

Row(h) == pendingDb[h].state # "none"     \* an UPDATE without a row does nothing

SavePending(h) ==
  /\ Executes("savePending", h)
  /\ pendingDb' = [pendingDb EXCEPT ![h] = mem[h]]
  /\ tail' = Idle
  /\ UNCHANGED <<mem, finalizedDb>>

MarkSubmitting(h) ==
  /\ Executes("markSubmitting", h)
  /\ pendingDb' = [pendingDb EXCEPT
       ![h] = IF Row(h) THEN AsSubmitting(@, mem[h].submissionStartedAt) ELSE @]
  /\ tail' = Then("markSubmitting", tail.ops \ {h})
  /\ UNCHANGED <<mem, finalizedDb>>

MarkPending(h) ==
  /\ Executes("markPending", h)
  /\ pendingDb' = [pendingDb EXCEPT ![h] = IF Row(h) THEN AsPending(@) ELSE @]
  /\ tail' = Then("markPending", tail.ops \ {h})
  /\ UNCHANGED <<mem, finalizedDb>>

\* One transaction over all the operations of the bundle.
RecordTx ==
  /\ up /\ tail.stmt = "recordTx"
  /\ pendingDb' =
       [h \in Hashes |->
          IF h \in tail.ops /\ Row(h)
          THEN WithTx(pendingDb[h], mem[h].submissionTxHash)
          ELSE pendingDb[h]]
  /\ tail' = Idle
  /\ UNCHANGED <<now, reputation, up, crashes, request, mem, finalizedDb>>

DeleteFinalized(h) ==
  /\ Executes("deleteFinalized", h)
  /\ finalizedDb' = [finalizedDb EXCEPT ![h] = NoOperation]
  /\ tail' = Then("savePending", {h})
  /\ UNCHANGED <<mem, pendingDb>>

\* Mutant: the pending row is never removed.
SaveFinalizedOnly(h) ==
  /\ Executes("saveFinalized", h)
  /\ finalizedDb' = [finalizedDb EXCEPT ![h] = mem[h]]
  /\ tail' = [stmt |-> "prune", ops |-> {}]
  /\ UNCHANGED <<mem, pendingDb>>

SaveFinalized(h) ==
  /\ Executes("saveFinalized", h)
  /\ finalizedDb' = [finalizedDb EXCEPT ![h] = mem[h]]
  /\ tail' = Then("removePending", {h})
  /\ UNCHANGED <<mem, pendingDb>>

RemovePending(h) ==
  /\ Executes("removePending", h)
  /\ pendingDb' = [pendingDb EXCEPT ![h] = NoOperation]
  /\ tail' = [stmt |-> "prune", ops |-> {}]
  /\ UNCHANGED <<mem, finalizedDb>>

FinalizedRows == {h \in Hashes : finalizedDb[h].state # "none"}

\* Mutant: one row too many.
RetainedOneMore ==
  IF MaxFinalized = 0 \/ Cardinality(FinalizedRows) <= MaxFinalized + 1
  THEN {FinalizedRows}
  ELSE {K \in SUBSET FinalizedRows : Cardinality(K) = MaxFinalized + 1}

\* The sets of rows retention may keep: the newest MaxFinalized of them.
Retained ==
  IF MaxFinalized = 0 \/ Cardinality(FinalizedRows) <= MaxFinalized
  THEN {FinalizedRows}
  ELSE {K \in SUBSET FinalizedRows :
          /\ Cardinality(K) = MaxFinalized
          /\ \A k \in K, d \in FinalizedRows \ K :
               finalizedDb[k].finalizedAt >= finalizedDb[d].finalizedAt}

\* enforceFinalizedRetention: the rows go in one transaction, and memory
\* forgets the pruned operations that are not open again.
PruneFinalized ==
  /\ up /\ tail.stmt = "prune"
  /\ \E K \in Retained :
       LET dropped == FinalizedRows \ K IN
       /\ finalizedDb' = [h \in Hashes |->
                            IF h \in dropped THEN NoOperation ELSE finalizedDb[h]]
       /\ mem' = [h \in Hashes |-> IF h \in dropped /\ Final(h) THEN NoOperation ELSE mem[h]]
  /\ tail' = Idle
  /\ UNCHANGED <<now, reputation, up, crashes, request, pendingDb>>

ExecuteStatement ==
  \/ \E h \in Hashes : \/ SavePending(h) \/ MarkSubmitting(h) \/ MarkPending(h)
                       \/ DeleteFinalized(h) \/ SaveFinalized(h) \/ RemovePending(h)
  \/ RecordTx
  \/ PruneFinalized

-----------------------------------------------------------------------------
(* The process and its clock. *)

Crash ==
  /\ up
  /\ CrashInHandler \/ tail = Idle
  /\ crashes < MaxCrashes
  /\ now < MaxTime              \* the bounded clock leaves time to restart
  /\ up' = FALSE
  /\ crashes' = crashes + 1
  /\ mem' = [h \in Hashes |-> NoOperation]
  /\ request' = [r \in Requests |-> NoHash]
  /\ tail' = Idle
  /\ UNCHANGED <<now, reputation, pendingDb, finalizedDb>>

\* The constructor's loadFromPersistence, some time after the crash.
Restart ==
  /\ ~up
  /\ Tick
  /\ up' = TRUE
  /\ ReloadReputations(now')
  /\ mem' = [h \in Hashes |-> Durable(h)]
  /\ tail' = [stmt |-> "prune", ops |-> {}]
  /\ UNCHANGED <<crashes, pendingDb, finalizedDb, request>>

TimePasses ==
  /\ Ready
  /\ Tick
  /\ UNCHANGED <<reputation, up, crashes, mem, pendingDb, finalizedDb, request, tail>>

MempoolInit ==
  /\ ReputationInit
  /\ up = TRUE
  /\ crashes = 0
  /\ mem = [h \in Hashes |-> NoOperation]
  /\ pendingDb = [h \in Hashes |-> NoOperation]
  /\ finalizedDb = [h \in Hashes |-> NoOperation]
  /\ request = [r \in Requests |-> NoHash]
  /\ tail = Idle

\* A caller that hands back only what is open, which is what the submitter
\* does.
CallerStep ==
  \/ \E n \in 1..Cardinality(Hashes) : \E S \in Claimable(n) : Claim(S)
  \/ \E S \in SUBSET Submitting : S # {} /\ Release(S)
  \/ \E S \in SUBSET Submitting, t \in Txs : S # {} /\ RecordTransactionHash(S, t)
  \/ \E h \in Hashes : /\ Open(h)
                       /\ \/ MarkUserOperationFailed(h)
                          \/ \E t \in Txs, ok \in BOOLEAN : FinalizeUserOperation(h, t, ok)

MempoolNext ==
  \/ \E r \in Requests : SendUserOperation(r)
  \/ CallerStep
  \/ ExecuteStatement
  \/ Crash \/ Restart \/ TimePasses

MempoolSpec == MempoolInit /\ [][MempoolNext]_mempoolVars

-----------------------------------------------------------------------------
(* Properties. *)

\* The variables hold what the code's types say they hold.
TypeOK ==
  /\ ReputationTypeOK
  /\ up \in BOOLEAN /\ crashes \in Nat
  /\ mem \in [Hashes -> StoredUserOperation]
  /\ pendingDb \in [Hashes -> StoredUserOperation]
  /\ finalizedDb \in [Hashes -> StoredUserOperation]
  /\ request \in [Requests -> Hashes \cup {NoHash}]
  /\ tail \in [stmt: Statements, ops: SUBSET Hashes]

\* Whenever no handler is running, a restart would restore every operation
\* the mempool knows exactly as it is: the order of the statements of each
\* handler (index.ts:743-750, 966-968, 1125-1130) and the precedence of
\* finalized rows (index.ts:385-404) lose nothing, wherever earlier crashes
\* fell.  README.md:47 promises receipts that survive restarts.
RestartLosesNothing ==
  Ready => \A h \in Hashes : mem[h].state # "none" => Durable(h) = mem[h]

\* ... and a restart brings back nothing the mempool has forgotten.
RestartInventsNothing ==
  Ready => \A h \in Hashes : mem[h].state = "none" => Durable(h) = NoOperation

\* findOpenOperationBySenderAndNonce keeps one open operation per sender and
\* nonce (index.ts:689-705, index.test.ts:778), restarts included.
OneOpenPerSlot ==
  \A g, h \in Hashes : g # h /\ Open(g) /\ Open(h) => ~SameSlot(g, h)

\* An operation reported included is never reported anything else until
\* retention forgets it or the process stops (finalizeUserOperation and
\* sendUserOperation have no guard of their own on the state they replace).
IncludedStaysIncluded ==
  [][\A h \in Hashes : mem[h].state = "included" =>
        mem'[h] = mem[h] \/ mem'[h] = NoOperation]_mempoolVars

\* What a restart would load never loses an operation that was still open:
\* the finalized row is saved before the pending row is removed
\* (index.ts:966-967), whenever the process dies.
OpenNeverForgotten ==
  [][\A h \in Hashes : Durable(h).state \in OpenStates =>
        Durable(h)'.state # "none"]_mempoolVars

\* README.md:47: exact-hash retries are requeued after failed attempts.  A
\* retry that the submitter cannot pack (entrypoint.ts:98-139) is not queued
\* for anything but another failure.
RetriesArePackable == \A h \in Pending : mem[h].packable

\* Retention holds when no handler is running (index.ts:1157-1190).
RetentionBounded ==
  Ready /\ MaxFinalized > 0 =>
    Cardinality(FinalizedRows \cup {h \in Hashes : Final(h)}) <= MaxFinalized

\* A ban or a throttle ends by time, or by an operation of the sender that is
\* included, and by nothing else: another failure never lifts it, nor does a
\* look at it (reputation.ts:74-114 and 126-164).
PenaltyEndsByTimeOrInclusion ==
  [][\A s \in Senders : Refused(s, now) /\ ~Refused(s, now)' =>
        \/ now' # now
        \/ \E h \in Hashes : /\ SenderOf[h] = s
                             /\ mem[h].state # "included" /\ mem'[h].state = "included"]_mempoolVars

\* A restart neither lifts a ban or a throttle nor prolongs it
\* (persistence.ts:388-394 drops rows, index.ts:406-413 loads the others;
\* index.test.ts:1007).
RestartKeepsPenalties ==
  [][~up => \A s \in Senders : Refused(s, now)' <=> Refused(s, now')]_mempoolVars

-----------------------------------------------------------------------------
(* The mempool implements the ledger. *)

\* What a client sees of an operation; while the process is down, what it will
\* see after the restart.
StatusOf(h) == IF up THEN mem[h].state ELSE Durable(h).state

Promise == INSTANCE Ledger WITH status <- [h \in Hashes |-> StatusOf(h)]

\* Handlers are atomic and restarts invisible: what clients see of the map, the
\* tables, the awaited simulations, and crashes between handlers is a ledger
\* that never stops (README.md:47; index.ts:368-416, 642-969, 1103-1190).
ImplementsLedger == Promise!LedgerSpec
=============================================================================
