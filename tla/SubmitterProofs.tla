-------------------------- MODULE SubmitterProofs --------------------------
(***************************************************************************)
(* The submitter: that every step of the whole bundler is a step of the    *)
(* mempool by itself, and what follows for results and duplicates, for     *)
(* every set of operations and transactions and every configuration.       *)
(***************************************************************************)
EXTENDS Submitter, RefinementProofs, ArithmeticProofs

-----------------------------------------------------------------------------
(* What a tick holds is open, and held once. *)

\* The transaction the tick is handling is known at these points.
InTransaction == {"lookup", "sent", "confirm", "finalizeRecovered", "finalizeConfirmed"}

TickType ==
  /\ pc \in Awaits \cup Loops
  /\ snapshot \subseteq [hash: Hashes, tx: Txs, startedAt: Nat]
  /\ claim \subseteq Hashes /\ rest \subseteq Hashes
  /\ pc \in InTransaction => current \in Txs

\* Nobody but the tick closes an operation, and it closes one only when it
\* takes it off its lists.
HeldOpen ==
  /\ \A h \in claim \cup rest : Open(h)
  /\ \A e \in snapshot : Open(e.hash)

HeldOnce ==
  /\ claim \cap rest = {}
  /\ \A e \in snapshot : e.hash \notin claim \cup rest
  /\ \A e, f \in snapshot : e.hash = f.hash => e.tx = f.tx

\* Which lists are empty where, also when the process is down.
ListsEmpty ==
  /\ pc \in {"sleep", "recover", "lookup", "next"} => claim = {}
  /\ pc \in {"sleep", "recover", "lookup", "finalizeRecovered", "packing"} => rest = {}
  /\ ~up => pc = "sleep" /\ snapshot = {}

TickSound == TickType /\ HeldOpen /\ HeldOnce /\ ListsEmpty

-----------------------------------------------------------------------------
(* What is reported included is on chain, wherever it is kept. *)

BackedBy(op, h) ==
  op.state = "included" =>
    /\ op.transactionHash \in InState({"mined"})
    /\ h \in tx[op.transactionHash].succeeded

Backed ==
  \A h \in Hashes : BackedBy(mem[h], h) /\ BackedBy(pendingDb[h], h) /\ BackedBy(finalizedDb[h], h)

-----------------------------------------------------------------------------
(* What a tick holds is its own, and a waiting transaction's is held. *)

\* A claim of this process that has no transaction.
Fresh(h) ==
  /\ h \in Untracked
  /\ mem[h].submissionStartedAt >= processStartedAt

SubmittedIn(h, t) == h \in Submitting /\ mem[h].submissionTxHash = t

HoldsOwn ==
  /\ pc \in {"packing", "simulate", "send", "sent"} => \A h \in claim : Fresh(h)
  /\ \A h \in rest : Fresh(h)
  /\ pc \in {"confirm", "finalizeRecovered", "finalizeConfirmed"} =>
       \A h \in claim : SubmittedIn(h, current)
  /\ pc \in {"finalizeRecovered", "finalizeConfirmed"} => HasReceipt(current)
  /\ \A e \in snapshot : SubmittedIn(e.hash, e.tx)

StartedBy(op, t) == op.submissionStartedAt <= t

\* Claims start when they are made: nothing is dated in the future.
AllPast ==
  \A h \in Hashes : /\ StartedBy(mem[h], now) /\ StartedBy(pendingDb[h], now)
                    /\ StartedBy(finalizedDb[h], now)

TimesPast == processStartedAt \in Nat /\ processStartedAt <= now /\ AllPast

RowHeld(h, t) ==
  /\ pendingDb[h].state = "submitting" /\ pendingDb[h].submissionTxHash \in {t, NoTx}
  /\ finalizedDb[h] = NoOperation

MemHeld(h, t) ==
  \/ SubmittedIn(h, t)
  \/ SubmittedIn(h, NoTx) /\ ~Fresh(h)
  \/ SubmittedIn(h, NoTx) /\ pc = "sent" /\ current = t /\ h \in claim

\* h would come back after a restart as a claim, and is one now: with the
\* transaction t, or without any because the process stopped, or the answer is
\* awaited, between broadcast and record.
Held(h, t) == RowHeld(h, t) /\ (up => MemHeld(h, t))

WaitingHeld == \A t \in InState({"waiting"}) : \A h \in tx[t].ops : Held(h, t)

\* h is reported included, or was, and its claim or its result is on disk.
Reported(h, t) ==
  /\ up => mem[h].state = "included"
  /\ RowHeld(h, t) \/ finalizedDb[h].state = "included"

\* What succeeded on chain is still claimed, or is reported as it is.
ResultHeld ==
  \A t \in InState({"mined"}) : \A h \in tx[t].succeeded :
    h \in Hashes /\ (Held(h, t) \/ Reported(h, t))

SendClean == pc = "send" => claim \cap Executed = {}

-----------------------------------------------------------------------------
(* Every step of the bundler is one of the mempool. *)

LEMMA ReleaseIsCaller ==
  ASSUME TypeOK, NEW S, Release(S)
  PROVE  CallerStep \/ UNCHANGED mempoolVars
  <1>1. CASE S \cap Submitting = {}
    <2>1. mem' = mem
      BY <1>1 DEF Release, TypeOK
    <2>2. tail' = tail
      BY <1>1 DEF Release, Ready, Then
    <2> QED
      BY <2>1, <2>2 DEF Release, mempoolVars
  <1>2. CASE S \cap Submitting # {}
    <2>1. Release(S \cap Submitting)
      BY DEF Release
    <2> QED
      BY <1>2, <2>1 DEF CallerStep
  <1> QED
    BY <1>1, <1>2

LEMMA RecordIsCaller ==
  ASSUME TypeOK, NEW S, NEW t \in Txs, RecordTransactionHash(S, t)
  PROVE  CallerStep \/ UNCHANGED mempoolVars
  <1>1. CASE S \cap Submitting = {}
    <2>1. mem' = mem
      BY <1>1 DEF RecordTransactionHash, TypeOK
    <2>2. tail' = tail
      BY <1>1 DEF RecordTransactionHash, Ready, Then
    <2> QED
      BY <2>1, <2>2 DEF RecordTransactionHash, mempoolVars
  <1>2. CASE S \cap Submitting # {}
    <2>1. RecordTransactionHash(S \cap Submitting, t)
      BY DEF RecordTransactionHash
    <2> QED
      BY <1>2, <2>1 DEF CallerStep
  <1> QED
    BY <1>1, <1>2

\* A claim of at most n operations is one of exactly as many as it has.
LEMMA ClaimIsCaller ==
  ASSUME FiniteHashes, NEW S \in Claimable(MaxOperationsPerBundle), S # {}, Claim(S)
  PROVE  CallerStep
  <1>1. S \subseteq Hashes
    BY DEF Claimable, Pending
  <1>2. IsFiniteSet(S) /\ Cardinality(S) <= Cardinality(Hashes)
    BY <1>1, FS_Subset DEF FiniteHashes
  <1>3. Cardinality(S) \in Nat /\ Cardinality(S) # 0 /\ Cardinality(Hashes) \in Nat
    BY <1>2, FS_CardinalityType, FS_EmptySet DEF FiniteHashes
  <1>4. Cardinality(S) \in 1..Cardinality(Hashes)
    BY <1>2, <1>3
  <1>5. S \in Claimable(Cardinality(S))
    BY DEF Claimable
  <1> QED
    BY <1>4, <1>5 DEF CallerStep

LEMMA FailIsCaller ==
  ASSUME NEW h \in Hashes, Open(h), MarkUserOperationFailed(h)
  PROVE  CallerStep
  BY DEF CallerStep

LEMMA FinalizeIsCaller ==
  ASSUME NEW h \in Hashes, Open(h), NEW t \in Txs, NEW ok \in BOOLEAN,
         FinalizeUserOperation(h, t, ok)
  PROVE  CallerStep
  BY DEF CallerStep

\* The calls a submitter step makes are those of a caller that hands back only
\* what is open.
LEMMA SubmitterIsCaller ==
  ASSUME FiniteHashes, TypeOK, TickSound, SubmitterStep
  PROVE  CallerStep \/ UNCHANGED mempoolVars
  <1>1. CASE StartTick
    BY <1>1, ReleaseIsCaller DEF StartTick
  <1>2. CASE RecoverLookup
    BY <1>2, ReleaseIsCaller DEF RecoverLookup
  <1>3. CASE FinalizeOne
    <2>1. PICK h \in claim : FinalizeUserOperation(h, current, tx[current].state = "mined"
                                                               /\ h \in tx[current].succeeded)
      BY <1>3 DEF FinalizeOne
    <2>2. h \in Hashes /\ Open(h) /\ current \in Txs
      BY <1>3 DEF FinalizeOne, TickSound, TickType, HeldOpen, InTransaction
    <2>3. (tx[current].state = "mined" /\ h \in tx[current].succeeded) \in BOOLEAN
      OBVIOUS
    <2> QED
      BY <2>1, <2>2, <2>3, FinalizeIsCaller
  <1>4. CASE ClaimNext
    BY <1>4, ClaimIsCaller DEF ClaimNext
  <1>5. CASE PackFails \/ SimulationThrows
    <2>1. \A h \in claim : h \in Hashes /\ Open(h)
      BY DEF TickSound, TickType, HeldOpen
    <2> QED
      BY <1>5, <2>1, FailIsCaller DEF PackFails, SimulationThrows
  <1>6. CASE SendThrows \/ EndTick
    BY <1>6, ReleaseIsCaller DEF SendThrows, EndTick
  <1>7. CASE SendReturns
    <2>1. current \in Txs
      BY <1>7 DEF SendReturns, TickSound, TickType, InTransaction
    <2> QED
      BY <1>7, <2>1, RecordIsCaller DEF SendReturns
  <1>8. CASE \/ \E t \in Txs : RecoverReceipt(t)
             \/ FinalizeDone \/ NothingToClaim \/ PackDone \/ SimulationSucceeds
             \/ BroadcastTx \/ Confirm \/ NextSingle \/ RpcThrows
    BY <1>8 DEF RecoverReceipt, FinalizeDone, NothingToClaim, PackDone, SimulationSucceeds,
                BroadcastTx, Confirm, NextSingle, RpcThrows
  <1> QED
    BY <1>1, <1>2, <1>3, <1>4, <1>5, <1>6, <1>7, <1>8 DEF SubmitterStep

LEMMA BundlerIsMempool ==
  ASSUME FiniteHashes, TypeOK, TickSound, [Next]_vars
  PROVE  [MempoolNext]_mempoolVars
  <1>1. CASE SubmitterStep
    BY <1>1, SubmitterIsCaller DEF MempoolNext
  <1>2. CASE Environment
    BY <1>2 DEF Environment, MempoolNext
  <1>3. CASE CrashProcess \/ RestartProcess
    BY <1>3 DEF CrashProcess, RestartProcess, MempoolNext
  <1>4. CASE UNCHANGED vars
    BY <1>4 DEF vars
  <1> QED
    BY <1>1, <1>2, <1>3, <1>4 DEF Next

-----------------------------------------------------------------------------
(* What a tick holds stays open and held once. *)

LEMMA InitTick == Init => TickSound
  BY DEF Init, TickSound, TickType, HeldOpen, HeldOnce, ListsEmpty, Awaits, InTransaction,
         MempoolInit

\* Neither the calls of clients nor the statements close what is open.
LEMMA OpenStays ==
  ASSUME TypeOK, \/ \E r \in Requests : SendUserOperation(r)
                 \/ TimePasses \/ ExecuteStatement
  PROVE  /\ up /\ up'
         /\ \A h \in Hashes : Open(h) => Open(h)'
  <1>1. ASSUME NEW r \in Requests, SendUserOperation(r)
        PROVE  /\ up /\ up'
               /\ \A h \in Hashes : Open(h) => Open(h)'
    <2> USE DEF Ready, Open, OpenStates
    <2>1. ASSUME NEW h \in Hashes, SendRefused(r, h) \/ SendWithoutEffect(r, h)
                                                    \/ SendAwaitSimulation(r, h)
          PROVE  up /\ up' /\ mem' = mem
      BY <2>1 DEF SendRefused, SendWithoutEffect, SendAwaitSimulation, Checked, mempoolVars
    <2>2. ASSUME NEW h \in Hashes, NEW c \in BOOLEAN, SendRequeue(r, h, c)
          PROVE  up /\ up' /\ mem' = [mem EXCEPT ![h] = PendingOperation(c)]
      BY <2>2 DEF SendRequeue, Checked
    <2>3. ASSUME NEW h \in Hashes, SendAdmit(r, h)
          PROVE  up /\ up' /\ mem' = [mem EXCEPT ![h] = PendingOperation(TRUE)]
      BY <2>3 DEF SendAdmit, Admit, Checked
    <2>4. CASE SimulationPassed(r)
      BY <2>4, PendingColumns DEF SimulationPassed, Admit, TypeOK
    <2>5. CASE SimulationFailed(r)
      BY <2>5 DEF SimulationFailed
    <2> QED
      BY <1>1, <2>1, <2>2, <2>3, <2>4, <2>5, PendingColumns DEF SendUserOperation, TypeOK
  <1>2. CASE TimePasses
    BY <1>2 DEF TimePasses, Ready, Open
  <1>3. CASE PruneFinalized
    <2>1. up /\ up' /\ \A h \in Hashes : ~Final(h) => mem'[h] = mem[h]
      BY <1>3 DEF PruneFinalized
    <2> QED
      BY <2>1 DEF Final, Open, FinalStates, OpenStates
  <1>4. CASE RecordTx \/ \E h \in Hashes : \/ SavePending(h) \/ MarkSubmitting(h)
                                           \/ MarkPending(h) \/ DeleteFinalized(h)
                                           \/ SaveFinalized(h) \/ RemovePending(h)
    <2>1. up /\ up' = up /\ mem' = mem
      <3>1. CASE RecordTx
        BY <3>1 DEF RecordTx
      <3>2. ASSUME NEW h \in Hashes, SavePending(h) \/ MarkSubmitting(h) \/ MarkPending(h)
            PROVE  up /\ up' = up /\ mem' = mem
        BY <3>2 DEF SavePending, MarkSubmitting, MarkPending, Executes
      <3>3. ASSUME NEW h \in Hashes, DeleteFinalized(h) \/ SaveFinalized(h) \/ RemovePending(h)
            PROVE  up /\ up' = up /\ mem' = mem
        BY <3>3 DEF DeleteFinalized, SaveFinalized, RemovePending, Executes
      <3> QED
        BY <1>4, <3>1, <3>2, <3>3
    <2> QED
      BY <2>1 DEF Open
  <1> QED
    BY <1>1, <1>2, <1>3, <1>4 DEF ExecuteStatement

\* Nor does the submitter, but where it takes an operation off its lists.
LEMMA CallsKeepOpen ==
  ASSUME TypeOK
  PROVE  /\ \A S : Claim(S) \/ Release(S) =>
               /\ up /\ up'
               /\ \A h \in Hashes : Open(h) => Open(h)'
         /\ \A S : Claim(S) => \A h \in S \cap Hashes : Open(h)'
         /\ \A S, t : RecordTransactionHash(S, t) =>
               /\ up /\ up'
               /\ \A h \in Hashes : Open(h) => Open(h)'
         /\ \A h, t, ok : MarkUserOperationFailed(h) \/ FinalizeUserOperation(h, t, ok) =>
               /\ up /\ up'
               /\ \A g \in Hashes : g # h /\ Open(g) => Open(g)'
  <1> USE DEF Open, OpenStates, Ready, Submitting, TypeOK
  <1>1. ASSUME NEW S, Claim(S)
        PROVE  /\ up /\ up'
               /\ \A h \in Hashes : Open(h) => Open(h)'
               /\ \A h \in S \cap Hashes : Open(h)'
    <2>1. \A h \in Hashes : AsSubmitting(mem[h], now).state = "submitting"
      BY DEF AsSubmitting, StoredUserOperation
    <2> QED
      BY <1>1, <2>1 DEF Claim
  <1>2. ASSUME NEW S, Release(S)
        PROVE  /\ up /\ up'
               /\ \A h \in Hashes : Open(h) => Open(h)'
    BY <1>2, ReleasedColumns DEF Release
  <1>3. ASSUME NEW S, NEW t, RecordTransactionHash(S, t)
        PROVE  /\ up /\ up'
               /\ \A h \in Hashes : Open(h) => Open(h)'
    <2>1. \A h \in Hashes :
            [WithTx(mem[h], t) EXCEPT !.submissionStartedAt = IF @ = NoTime THEN now ELSE @].state
              = "submitting"
      BY DEF WithTx, StoredUserOperation
    <2> QED
      BY <1>3, <2>1 DEF RecordTransactionHash
  <1>4. ASSUME NEW h, NEW t, NEW ok, MarkUserOperationFailed(h) \/ FinalizeUserOperation(h, t, ok)
        PROVE  /\ up /\ up'
               /\ \A g \in Hashes : g # h /\ Open(g) => Open(g)'
    BY <1>4 DEF MarkUserOperationFailed, FinalizeUserOperation
  <1> QED
    BY <1>1, <1>2, <1>3, <1>4

\* A step that closes nothing the tick goes on holding.
LEMMA TickStep ==
  ASSUME TickSound, up', TickType', HeldOnce', ListsEmpty',
         \A h \in claim' \cup rest' : h \in Hashes => Open(h)',
         \A e \in snapshot' : e.hash \in Hashes => Open(e.hash)'
  PROVE  TickSound'
  BY DEF TickSound, HeldOpen, TickType, Open

\* A step of the surroundings, or one that leaves the lists as they are.
LEMMA TickUntouched ==
  ASSUME TickSound, up', UNCHANGED submitterVars,
         \A h \in Hashes : Open(h) => Open(h)'
  PROVE  TickSound'
  BY DEF TickSound, TickType, HeldOpen, HeldOnce, ListsEmpty, Open, submitterVars, tickVars

LEMMA RecoveryTick ==
  ASSUME TypeOK, TickSound,
         \/ StartTick \/ \E t \in Txs : RecoverReceipt(t)
         \/ RecoverLookup \/ FinalizeOne \/ FinalizeDone
  PROVE  TickSound'
  <1> USE DEF TickSound, TickType, HeldOnce, ListsEmpty, HeldOpen, InTransaction, Awaits, Loops
  <1>1. CASE StartTick
    <2>1. up' /\ \A h \in Hashes : Open(h) => Open(h)'
      BY <1>1, CallsKeepOpen DEF StartTick
    <2>2. \A h \in Tracked : Open(h) /\ mem[h].submissionTxHash \in Txs
                             /\ mem[h].submissionStartedAt \in Nat
      BY DEF Tracked, Untracked, Submitting, Open, OpenStates, TypeOK, StoredUserOperation
    <2>3. Tracked \subseteq Hashes
      BY DEF Tracked, Submitting
    <2>4. TickType'
      BY <1>1, <2>2, <2>3 DEF StartTick
    <2>5. HeldOnce'
      BY <1>1, <2>3 DEF StartTick
    <2>6. ListsEmpty'
      BY <1>1, <2>1 DEF StartTick
    <2>7. \A e \in snapshot' : e.hash \in Tracked
      BY <1>1 DEF StartTick
    <2>8. claim' = {} /\ rest' = {}
      BY <1>1 DEF StartTick
    <2> QED
      BY <2>1, <2>2, <2>3, <2>4, <2>5, <2>6, <2>7, <2>8, TickStep
  <1>2. ASSUME NEW t \in Txs, RecoverReceipt(t)
        PROVE  TickSound'
    <2>1. up /\ up' /\ \A h \in Hashes : Open(h)' = Open(h)
      BY <1>2 DEF RecoverReceipt, mempoolVars, Ready, Open
    <2>2. GroupOps(t) \subseteq Hashes /\ \A h \in GroupOps(t) : Open(h)
      BY DEF GroupOps, Group
    <2>3. \A e \in snapshot \ Group(t) : e.hash \notin GroupOps(t)
      BY DEF GroupOps, Group
    <2>4. claim' \subseteq GroupOps(t) /\ snapshot' \subseteq snapshot /\ rest' = {}
      BY <1>2 DEF RecoverReceipt
    <2>5. TickType'
      BY <1>2, <2>2, <2>4 DEF RecoverReceipt
    <2>6. HeldOnce'
      BY <1>2, <2>3, <2>4 DEF RecoverReceipt
    <2>7. ListsEmpty'
      BY <1>2, <2>1 DEF RecoverReceipt
    <2> QED
      BY <2>1, <2>2, <2>4, <2>5, <2>6, <2>7, TickStep
  <1>3. CASE RecoverLookup
    <2>1. up' /\ \A h \in Hashes : Open(h) => Open(h)'
      BY <1>3, CallsKeepOpen DEF RecoverLookup
    <2>2. TickType'
      BY <1>3 DEF RecoverLookup
    <2>3. HeldOnce'
      BY <1>3 DEF RecoverLookup
    <2>4. ListsEmpty'
      BY <1>3, <2>1 DEF RecoverLookup
    <2>5. claim' = claim /\ rest' = rest /\ snapshot' \subseteq snapshot
      BY <1>3 DEF RecoverLookup
    <2> QED
      BY <2>1, <2>2, <2>3, <2>4, <2>5, TickStep
  <1>4. CASE FinalizeOne
    <2>1. PICK h \in claim : /\ \E ok : FinalizeUserOperation(h, current, ok)
                             /\ claim' = claim \ {h}
      BY <1>4 DEF FinalizeOne
    <2>2. up' /\ \A g \in Hashes : g # h /\ Open(g) => Open(g)'
      BY <2>1, CallsKeepOpen
    <2>3. rest' = rest /\ snapshot' = snapshot /\ pc' = pc /\ current' = current
      BY <1>4 DEF FinalizeOne
    <2>4. TickType'
      BY <2>1, <2>3
    <2>5. HeldOnce'
      BY <2>1, <2>3
    <2>6. ListsEmpty'
      BY <1>4, <2>1, <2>2, <2>3 DEF FinalizeOne
    <2>7. h \notin rest /\ \A e \in snapshot : e.hash # h
      BY <2>1
    <2> QED
      BY <2>1, <2>2, <2>3, <2>4, <2>5, <2>6, <2>7, TickStep
  <1>5. CASE FinalizeDone
    <2>1. up /\ up' /\ \A h \in Hashes : Open(h)' = Open(h)
      BY <1>5 DEF FinalizeDone, mempoolVars, Ready, Open
    <2>2. claim' = {} /\ rest' = rest /\ snapshot' = snapshot
      BY <1>5 DEF FinalizeDone
    <2>3. pc = "finalizeRecovered" => rest = {}
      OBVIOUS
    <2>4. TickType' /\ HeldOnce' /\ ListsEmpty'
      BY <1>5, <2>1, <2>2, <2>3 DEF FinalizeDone
    <2> QED
      BY <2>1, <2>2, <2>4, TickStep
  <1> QED
    BY <1>1, <1>2, <1>3, <1>4, <1>5

LEMMA FreshTxUnsent ==
  ASSUME NEW S, Broadcast(S)
  PROVE  FreshTx \in Txs /\ tx[FreshTx].state = "unsent"
  BY DEF Broadcast, InState, FreshTx

LEMMA ClaimTick ==
  ASSUME TypeOK, TickSound, NothingToClaim \/ ClaimNext \/ PackFails \/ PackDone
  PROVE  TickSound'
  <1> USE DEF TickSound, TickType, HeldOnce, ListsEmpty, HeldOpen, InTransaction, Awaits, Loops
  <1>1. CASE NothingToClaim \/ PackDone
    <2>1. up /\ up' /\ \A h \in Hashes : Open(h)' = Open(h)
      BY <1>1 DEF NothingToClaim, PackDone, mempoolVars, Ready, Open
    <2>2. claim' = claim /\ rest' = rest /\ snapshot' = snapshot /\ current' = current
      BY <1>1 DEF NothingToClaim, PackDone, tickVars
    <2>3. TickType' /\ HeldOnce' /\ ListsEmpty'
      BY <1>1, <2>1, <2>2 DEF NothingToClaim, PackDone
    <2> QED
      BY <2>1, <2>2, <2>3, TickStep
  <1>2. CASE ClaimNext
    <2>1. PICK S \in Claimable(MaxOperationsPerBundle) : Claim(S) /\ claim' = S
      BY <1>2 DEF ClaimNext
    <2>2. S \subseteq Hashes
      BY DEF Claimable, Pending
    <2>3. up' /\ \A h \in S : Open(h)'
      BY <2>1, <2>2, CallsKeepOpen
    <2>4. rest' = {} /\ snapshot' = {} /\ pc' = "packing"
      BY <1>2 DEF ClaimNext
    <2>5. TickType' /\ HeldOnce' /\ ListsEmpty'
      BY <2>1, <2>2, <2>3, <2>4
    <2> QED
      BY <2>1, <2>2, <2>3, <2>4, <2>5, TickStep
  <1>3. CASE PackFails
    <2>1. PICK h \in claim : MarkUserOperationFailed(h) /\ claim' = claim \ {h}
      BY <1>3 DEF PackFails
    <2>2. up' /\ \A g \in Hashes : g # h /\ Open(g) => Open(g)'
      BY <2>1, CallsKeepOpen
    <2>3. rest' = rest /\ snapshot' = snapshot /\ pc' = pc /\ current' = current
      BY <1>3 DEF PackFails
    <2>4. TickType' /\ HeldOnce' /\ ListsEmpty'
      BY <1>3, <2>1, <2>2, <2>3 DEF PackFails
    <2>5. h \notin rest /\ \A e \in snapshot : e.hash # h
      BY <2>1
    <2> QED
      BY <2>1, <2>2, <2>3, <2>4, <2>5, TickStep
  <1> QED
    BY <1>1, <1>2, <1>3

LEMMA SubmissionTick ==
  ASSUME TypeOK, TickSound,
         \/ SimulationSucceeds \/ SimulationThrows \/ BroadcastTx \/ SendThrows \/ SendReturns
  PROVE  TickSound'
  <1> USE DEF TickSound, TickType, HeldOnce, ListsEmpty, HeldOpen, InTransaction, Awaits, Loops
  <1>1. CASE SimulationSucceeds \/ BroadcastTx
    <2>1. up /\ up' /\ \A h \in Hashes : Open(h)' = Open(h)
      BY <1>1 DEF SimulationSucceeds, BroadcastTx, mempoolVars, Ready, Open
    <2>2. claim' = claim /\ rest' = rest /\ snapshot' = snapshot /\ pc' \in {"send", "sent"}
      BY <1>1 DEF SimulationSucceeds, BroadcastTx, tickVars
    <2>3. pc' = "sent" => current' \in Txs
      BY <1>1, FreshTxUnsent DEF SimulationSucceeds, BroadcastTx
    <2>4. TickType' /\ HeldOnce' /\ ListsEmpty'
      BY <2>1, <2>2, <2>3
    <2> QED
      BY <2>1, <2>2, <2>4, TickStep
  <1>2. CASE SimulationThrows
    <2>1. \/ up /\ up' /\ rest' = claim /\ \A h \in Hashes : Open(h)' = Open(h)
          \/ \E h \in claim : /\ up' /\ rest' = rest /\ h \notin rest
                              /\ \A e \in snapshot : e.hash # h
                              /\ \A g \in Hashes : g # h /\ Open(g) => Open(g)'
      BY <1>2, CallsKeepOpen DEF SimulationThrows, mempoolVars, Ready, Open
    <2>2. claim' = {} /\ snapshot' = snapshot /\ pc' = "next" /\ rest' \in {rest, claim}
      BY <1>2, <2>1 DEF SimulationThrows
    <2>3. TickType' /\ HeldOnce' /\ ListsEmpty'
      BY <2>1, <2>2
    <2> QED
      BY <2>1, <2>2, <2>3, TickStep
  <1>3. CASE SendThrows
    <2>1. up' /\ \A h \in Hashes : Open(h) => Open(h)'
      BY <1>3, CallsKeepOpen DEF SendThrows
    <2>2. claim' = {} /\ rest' = rest /\ snapshot' = snapshot /\ pc' = "next"
      BY <1>3 DEF SendThrows
    <2>3. TickType' /\ HeldOnce' /\ ListsEmpty'
      BY <2>1, <2>2
    <2> QED
      BY <2>1, <2>2, <2>3, TickStep
  <1>4. CASE SendReturns
    <2>1. up' /\ \A h \in Hashes : Open(h) => Open(h)'
      BY <1>4, CallsKeepOpen DEF SendReturns
    <2>2. /\ claim' = claim /\ rest' = rest /\ snapshot' = snapshot
          /\ pc = "sent" /\ pc' = "confirm" /\ current' = current
      BY <1>4 DEF SendReturns, tickVars
    <2>3. TickType' /\ HeldOnce' /\ ListsEmpty'
      BY <2>1, <2>2
    <2> QED
      BY <2>1, <2>2, <2>3, TickStep
  <1> QED
    BY <1>1, <1>2, <1>3, <1>4

LEMMA EndingTick ==
  ASSUME TypeOK, TickSound, Confirm \/ NextSingle \/ EndTick \/ RpcThrows
  PROVE  TickSound'
  <1> USE DEF TickSound, TickType, HeldOnce, ListsEmpty, HeldOpen, InTransaction, Awaits, Loops
  <1>1. CASE Confirm \/ NextSingle \/ RpcThrows
    <2>1. up /\ up' /\ \A h \in Hashes : Open(h)' = Open(h)
      BY <1>1 DEF Confirm, NextSingle, RpcThrows, mempoolVars, Ready, Open
    <2>2. claim' \cup rest' \subseteq claim \cup rest /\ snapshot' \subseteq snapshot
      BY <1>1 DEF Confirm, NextSingle, RpcThrows
    <2>3. TickType'
      BY <1>1, <2>2 DEF Confirm, NextSingle, RpcThrows
    <2>4. HeldOnce'
      <3>1. claim' \cap rest' = {}
        BY <1>1 DEF Confirm, NextSingle, RpcThrows
      <3> QED
        BY <2>2, <3>1
    <2>5. ListsEmpty'
      BY <1>1, <2>1 DEF Confirm, NextSingle, RpcThrows
    <2> QED
      BY <2>1, <2>2, <2>3, <2>4, <2>5, TickStep
  <1>2. CASE EndTick
    <2>1. up' /\ \A h \in Hashes : Open(h) => Open(h)'
      BY <1>2, CallsKeepOpen DEF EndTick
    <2>2. claim' = claim /\ claim = {} /\ rest' = {} /\ snapshot' = snapshot /\ pc' = "sleep"
      BY <1>2 DEF EndTick
    <2>3. TickType' /\ HeldOnce' /\ ListsEmpty'
      BY <2>1, <2>2
    <2> QED
      BY <2>1, <2>2, <2>3, TickStep
  <1> QED
    BY <1>1, <1>2

LEMMA NextTick ==
  ASSUME TypeOK, TickSound, [Next]_vars
  PROVE  TickSound'
  <1>1. CASE SubmitterStep
    BY <1>1, RecoveryTick, ClaimTick, SubmissionTick, EndingTick DEF SubmitterStep
  <1>2. CASE Environment
    <2>1. CASE UNCHANGED submitterVars /\ (TimePasses \/ ExecuteStatement
                                           \/ \E r \in Requests : SendUserOperation(r))
      BY <2>1, OpenStays, TickUntouched
    <2>2. CASE UNCHANGED <<mempoolVars, submitterVars>>
      BY <2>2 DEF TickSound, TickType, HeldOpen, HeldOnce, ListsEmpty, Open, mempoolVars,
                  submitterVars, tickVars
    <2> QED
      BY <1>2, <2>1, <2>2 DEF Environment
  <1>3. CASE CrashProcess
    BY <1>3 DEF CrashProcess, Crash, TickSound, TickType, HeldOpen, HeldOnce, ListsEmpty, Awaits,
                InTransaction
  <1>4. CASE RestartProcess
    <2>1. snapshot = {} /\ claim = {} /\ rest = {} /\ pc = "sleep"
      BY <1>4 DEF RestartProcess, Restart, TickSound, ListsEmpty
    <2>2. snapshot' = {} /\ claim' = {} /\ rest' = {} /\ pc' = "sleep"
      BY <1>4, <2>1 DEF RestartProcess, tickVars
    <2> QED
      BY <2>2 DEF TickSound, TickType, HeldOpen, HeldOnce, ListsEmpty, Awaits, InTransaction
  <1>5. CASE UNCHANGED vars
    BY <1>5 DEF vars, TickSound, TickType, HeldOpen, HeldOnce, ListsEmpty, Open, mempoolVars,
                submitterVars, tickVars
  <1> QED
    BY <1>1, <1>2, <1>3, <1>4, <1>5 DEF Next

LEMMA TickInvariant ==
  ASSUME FiniteHashes
  PROVE  Spec => [](TypeOK /\ TickSound)
  <1>1. Init => TypeOK /\ TickSound
    BY InitTick, InitTypeOK DEF Init
  <1>2. TypeOK /\ TickSound /\ [Next]_vars => (TypeOK /\ TickSound)'
    BY BundlerIsMempool, NextTypeOK, NextTick
  <1> QED
    BY <1>1, <1>2, PTL DEF Spec

\* The submitter uses the mempool as its clients must: it finalizes, releases
\* and fails only what is open, and claims what may be claimed, whatever the
\* node and the chain do, wherever crashes fall and however calls of clients
\* interleave (submitter.ts:365-668).
THEOREM BundlerRefinesMempool ==
  ASSUME FiniteHashes
  PROVE  Spec => RefinesMempool
  <1>1. Init => MempoolInit
    BY DEF Init
  <1>2. TypeOK /\ TickSound /\ [Next]_vars => [MempoolNext]_mempoolVars
    BY BundlerIsMempool
  <1> QED
    BY <1>1, <1>2, TickInvariant, PTL DEF Spec, RefinesMempool, MempoolSpec

\* What was proved of the mempool alone is so in the bundler.
THEOREM BundlerKeepsPromises ==
  ASSUME FiniteHashes, SequentialAdmission
  PROVE  Spec => /\ []TypeOK /\ []RestartLosesNothing /\ []RetentionBounded
                 /\ IncludedStaysIncluded /\ OpenNeverForgotten
  BY BundlerRefinesMempool, MempoolTypeCorrect, RestartsAreLossless, RetentionHolds,
     InclusionIsFinal, OpenSurvives, PTL DEF RefinesMempool

\* Bans and throttles last in the whole bundler as in the mempool, with
\* operations that it finalizes or fails itself, and over restarts.
THEOREM BundlerKeepsPenalties ==
  ASSUME FiniteHashes, BansLast
  PROVE  Spec => PenaltyEndsByTimeOrInclusion /\ RestartKeepsPenalties
  BY BundlerRefinesMempool, PenaltiesLast, RestartsKeepPenalties, PTL DEF RefinesMempool

\* Where crashes fall between handlers, clients of the whole bundler see a
\* ledger, with one open operation per sender and nonce.
THEOREM BundlerImplementsLedger ==
  ASSUME FiniteHashes, SequentialAdmission, CrashBetweenHandlers
  PROVE  Spec => ImplementsLedger /\ []OneOpenPerSlot /\ []RestartInventsNothing
  BY BundlerRefinesMempool, MempoolImplementsLedger, OneOpenOperation, RestartsInventNothing,
     PTL DEF RefinesMempool

-----------------------------------------------------------------------------
(* What is reported included is on chain: the proof. *)

\* As much of ChainTypeOK as is needed: NextNonce is left open.
TxShape ==
  /\ tx = [t \in Txs |-> tx[t]]
  /\ \A t \in Txs :
       /\ tx[t] = [state |-> tx[t].state, nonce |-> tx[t].nonce,
                   ops |-> tx[t].ops, succeeded |-> tx[t].succeeded]
       /\ tx[t].ops \subseteq Hashes

\* A mined transaction stays what it is.
MinedStays ==
  \A t \in InState({"mined"}) : t \in InState({"mined"})' /\ tx'[t] = tx[t]

LEMMA MineEffect ==
  ASSUME TxShape, NEW t \in Txs, Mine(t)
  PROVE  /\ tx'[t].state = "mined" /\ tx'[t].ops = tx[t].ops
         /\ tx'[t].succeeded \subseteq tx[t].ops
         /\ \A s \in Txs : s # t => tx'[s] = tx[s]
         /\ TxShape' /\ MinedStays
  <1>1. PICK ok \in SUBSET tx[t].ops :
          tx' = [tx EXCEPT ![t].state = "mined", ![t].succeeded = ok]
    BY DEF Mine
  <1>2. tx[t].state # "mined"
    BY DEF Mine, Minable
  <1>3. tx'[t] = [state |-> "mined", nonce |-> tx[t].nonce, ops |-> tx[t].ops, succeeded |-> ok]
    <2>1. PICK state, n, S, ran : tx[t] = [state |-> state, nonce |-> n, ops |-> S,
                                           succeeded |-> ran]
      BY DEF TxShape
    <2>2. tx'[t] = [tx[t] EXCEPT !.state = "mined", !.succeeded = ok]
      BY <1>1 DEF TxShape
    <2>3. n = tx[t].nonce /\ S = tx[t].ops
      BY <2>1
    <2>4. tx'[t] = [[state |-> state, nonce |-> n, ops |-> S, succeeded |-> ran]
                      EXCEPT !.state = "mined", !.succeeded = ok]
      BY <2>1, <2>2
    <2>5. tx'[t] = [state |-> "mined", nonce |-> n, ops |-> S, succeeded |-> ok]
      BY <2>4
    <2> QED
      BY <2>3, <2>5
  <1>4. \A s \in Txs : s # t => tx'[s] = tx[s]
    BY <1>1 DEF TxShape
  <1>5. tx' = [s \in Txs |-> tx'[s]]
    BY <1>1 DEF TxShape
  <1>6. TxShape'
    BY <1>3, <1>4, <1>5 DEF TxShape
  <1> QED
    BY <1>2, <1>3, <1>4, <1>6 DEF MinedStays, InState

LEMMA EndEffect ==
  ASSUME TxShape, NEW t \in Txs, Revert(t) \/ Drop(t)
  PROVE  /\ tx'[t].state \in {"reverted", "dropped"} /\ tx'[t].ops = tx[t].ops
         /\ \A s \in Txs : s # t => tx'[s] = tx[s]
         /\ TxShape' /\ MinedStays
  <1>1. PICK end \in {"reverted", "dropped"} : tx' = [tx EXCEPT ![t].state = end]
    <2>1. CASE Revert(t)
      BY <2>1 DEF Revert
    <2>2. CASE Drop(t)
      BY <2>2 DEF Drop
    <2> QED
      BY <2>1, <2>2
  <1>2. tx[t].state # "mined"
    BY DEF Revert, Minable, Drop
  <1>3. tx'[t] = [state |-> end, nonce |-> tx[t].nonce, ops |-> tx[t].ops,
                  succeeded |-> tx[t].succeeded]
    BY <1>1 DEF TxShape
  <1>4. \A s \in Txs : s # t => tx'[s] = tx[s]
    BY <1>1 DEF TxShape
  <1>5. tx' = [s \in Txs |-> tx'[s]]
    BY <1>1 DEF TxShape
  <1>6. TxShape'
    BY <1>3, <1>4, <1>5 DEF TxShape
  <1> QED
    BY <1>2, <1>3, <1>4, <1>6 DEF MinedStays, InState

LEMMA BroadcastEffect ==
  ASSUME TxShape, NEW S \in SUBSET Hashes, Broadcast(S)
  PROVE  /\ FreshTx \in Txs /\ tx[FreshTx].state = "unsent"
         /\ tx'[FreshTx].state = "waiting" /\ tx'[FreshTx].ops = S
         /\ \A s \in Txs : s # FreshTx => tx'[s] = tx[s]
         /\ TxShape' /\ MinedStays
  <1>1. FreshTx \in Txs /\ tx[FreshTx].state = "unsent"
    BY FreshTxUnsent
  <1>2. tx' = [tx EXCEPT ![FreshTx] =
                 [state |-> "waiting", nonce |-> NextNonce, ops |-> S, succeeded |-> {}]]
    BY DEF Broadcast
  <1>3. tx'[FreshTx] = [state |-> "waiting", nonce |-> NextNonce, ops |-> S, succeeded |-> {}]
    BY <1>1, <1>2 DEF TxShape
  <1>4. \A s \in Txs : s # FreshTx => tx'[s] = tx[s]
    BY <1>1, <1>2 DEF TxShape
  <1>5. tx' = [s \in Txs |-> tx'[s]]
    BY <1>1, <1>2 DEF TxShape
  <1>6. TxShape'
    BY <1>3, <1>4, <1>5 DEF TxShape
  <1> QED
    BY <1>1, <1>3, <1>4, <1>6 DEF MinedStays, InState

LEMMA ChainCases ==
  ASSUME [Next]_vars
  PROVE  ChainStep \/ BroadcastTx \/ UNCHANGED chainVars
  <1>1. CASE SubmitterStep
    BY <1>1
    DEF SubmitterStep, StartTick, RecoverReceipt, RecoverLookup, FinalizeOne, FinalizeDone,
        NothingToClaim, ClaimNext, PackFails, PackDone, SimulationSucceeds, SimulationThrows,
        SendThrows, SendReturns, Confirm, NextSingle, EndTick, RpcThrows
  <1>2. CASE Environment
    BY <1>2 DEF Environment
  <1>3. CASE CrashProcess \/ RestartProcess
    BY <1>3 DEF CrashProcess, RestartProcess
  <1>4. CASE UNCHANGED vars
    BY <1>4 DEF vars
  <1> QED
    BY <1>1, <1>2, <1>3, <1>4 DEF Next

\* What every step of the bundler does to the chain.
LEMMA ChainEffect ==
  ASSUME TickSound, TxShape, [Next]_vars
  PROVE  TxShape' /\ MinedStays
  <1>1. CASE UNCHANGED chainVars
    BY <1>1 DEF chainVars, TxShape, MinedStays, InState
  <1>2. CASE ChainStep
    BY <1>2, MineEffect, EndEffect DEF ChainStep
  <1>3. CASE BroadcastTx
    <2>1. claim \subseteq Hashes
      BY DEF TickSound, TickType
    <2> QED
      BY <1>3, <2>1, BroadcastEffect DEF BroadcastTx
  <1> QED
    BY <1>1, <1>2, <1>3, ChainCases

\* An operation as it was kept somewhere, or not an included one.
Kept(op, h) == op \in {mem[h], pendingDb[h], finalizedDb[h]} \/ op.state # "included"

AllKept ==
  \A h \in Hashes : Kept(mem'[h], h) /\ Kept(pendingDb'[h], h) /\ Kept(finalizedDb'[h], h)

LEMMA SendKeeps ==
  ASSUME TypeOK, NEW r \in Requests, SendUserOperation(r)
  PROVE  AllKept
  <1>1. UNCHANGED <<pendingDb, finalizedDb>>
    BY DEF SendUserOperation, SendRefused, SendWithoutEffect, SendRequeue, SendAwaitSimulation,
           SendAdmit, SimulationPassed, SimulationFailed, mempoolVars
  <1>2. \/ UNCHANGED mem
        \/ \E h \in Hashes, c \in BOOLEAN : mem' = [mem EXCEPT ![h] = PendingOperation(c)]
    BY DEF SendUserOperation, SendRefused, SendWithoutEffect, SendRequeue, SendAwaitSimulation,
           SendAdmit, SimulationPassed, SimulationFailed, mempoolVars, Admit, TypeOK
  <1>3. \A h \in Hashes : mem'[h] = mem[h] \/ mem'[h].state = "pending"
    BY <1>2, PendingColumns DEF TypeOK
  <1> QED
    BY <1>1, <1>3 DEF AllKept, Kept

LEMMA CallsKeep ==
  ASSUME TypeOK, \/ \E S : Claim(S) \/ Release(S)
                 \/ \E S, t : RecordTransactionHash(S, t)
                 \/ \E h \in Hashes : MarkUserOperationFailed(h)
  PROVE  AllKept
  <1> USE DEF TypeOK
  <1>1. UNCHANGED <<pendingDb, finalizedDb>>
    BY DEF Claim, Release, RecordTransactionHash, MarkUserOperationFailed
  <1>2. \A h \in Hashes : /\ AsSubmitting(mem[h], now).state = "submitting"
                          /\ AsPending(mem[h]).state = "pending"
                          /\ AsFinal(mem[h], "failed", NoTx).state = "failed"
    BY DEF AsSubmitting, AsPending, AsFinal, StoredUserOperation
  <1>3. \A h \in Hashes : mem'[h] = mem[h] \/ mem'[h].state \in {"submitting", "pending", "failed"}
    <2>1. ASSUME NEW S, Claim(S) \/ Release(S)
          PROVE  \A h \in Hashes : mem'[h] = mem[h] \/ mem'[h].state \in {"submitting", "pending"}
      BY <1>2, <2>1 DEF Claim, Release
    <2>2. ASSUME NEW S, NEW t, RecordTransactionHash(S, t)
          PROVE  \A h \in Hashes : mem'[h] = mem[h] \/ mem'[h].state = "submitting"
      <3>1. \A h \in Hashes :
              [WithTx(mem[h], t) EXCEPT !.submissionStartedAt = IF @ = NoTime THEN now ELSE @].state
                = "submitting"
        BY DEF WithTx, StoredUserOperation
      <3> QED
        BY <2>2, <3>1 DEF RecordTransactionHash
    <2>3. ASSUME NEW g \in Hashes, MarkUserOperationFailed(g)
          PROVE  \A h \in Hashes : mem'[h] = mem[h] \/ mem'[h].state = "failed"
      BY <1>2, <2>3 DEF MarkUserOperationFailed
    <2> QED
      BY <2>1, <2>2, <2>3
  <1> QED
    BY <1>1, <1>3 DEF AllKept, Kept

LEMMA StatementsKeep ==
  ASSUME TypeOK, ExecuteStatement
  PROVE  AllKept
  <1> USE DEF TypeOK, AllKept, Kept
  <1>0. \A h \in Hashes : \A at \in Nat : \A t \in Txs \cup {NoTx} :
          /\ AsSubmitting(pendingDb[h], at).state = "submitting"
          /\ AsPending(pendingDb[h]).state = "pending"
          /\ WithTx(pendingDb[h], t).state = "submitting"
    BY DEF AsSubmitting, AsPending, WithTx, StoredUserOperation
  <1>1. \A h \in Hashes : /\ mem[h].submissionStartedAt \in Nat
                          /\ mem[h].submissionTxHash \in Txs \cup {NoTx}
    BY DEF StoredUserOperation
  <1>2. ASSUME NEW h \in Hashes, SavePending(h)
        PROVE  AllKept
    BY <1>2 DEF SavePending
  <1>3. ASSUME NEW h \in Hashes, MarkSubmitting(h) \/ MarkPending(h)
        PROVE  AllKept
    <2>1. \A g \in Hashes : \/ pendingDb'[g] = pendingDb[g]
                            \/ pendingDb'[g].state \in {"submitting", "pending"}
      <3>1. CASE MarkSubmitting(h)
        BY <1>0, <1>1, <3>1 DEF MarkSubmitting
      <3>2. CASE MarkPending(h)
        <4>1. AsPending(pendingDb[h]).state = "pending"
          BY DEF AsPending, StoredUserOperation
        <4> QED
          BY <3>2, <4>1 DEF MarkPending
      <3> QED
        BY <1>3, <3>1, <3>2
    <2> QED
      BY <1>3, <2>1 DEF MarkSubmitting, MarkPending
  <1>4. ASSUME NEW h \in Hashes, DeleteFinalized(h) \/ SaveFinalized(h) \/ RemovePending(h)
        PROVE  AllKept
    BY <1>4 DEF DeleteFinalized, SaveFinalized, RemovePending, NoOperation
  <1>5. CASE RecordTx
    <2>1. \A g \in Hashes : pendingDb'[g] = pendingDb[g] \/ pendingDb'[g].state = "submitting"
      BY <1>0, <1>1, <1>5 DEF RecordTx
    <2> QED
      BY <1>5, <2>1 DEF RecordTx
  <1>6. CASE PruneFinalized
    BY <1>6 DEF PruneFinalized, NoOperation
  <1> QED
    BY <1>2, <1>3, <1>4, <1>5, <1>6 DEF ExecuteStatement

LEMMA ProcessKeeps ==
  ASSUME TypeOK, Crash \/ Restart \/ TimePasses
  PROVE  AllKept
  BY DEF Crash, Restart, TimePasses, AllKept, Kept, NoOperation, Durable

LEMMA KeptBacked ==
  ASSUME Backed, MinedStays, AllKept
  PROVE  Backed'
  BY DEF Backed, BackedBy, MinedStays, AllKept, Kept

\* The one action that makes an operation included looks at its transaction.
LEMMA FinalizeBacked ==
  ASSUME TypeOK, TickSound, Backed, MinedStays, FinalizeOne
  PROVE  Backed'
  <1>1. PICK h \in claim : FinalizeUserOperation(h, current, tx[current].state = "mined"
                                                             /\ h \in tx[current].succeeded)
    BY DEF FinalizeOne
  <1>2. h \in Hashes /\ current \in Txs
    BY DEF FinalizeOne, TickSound, TickType, InTransaction
  <1>3. UNCHANGED <<pendingDb, finalizedDb>> /\ \A g \in Hashes : g # h => mem'[g] = mem[g]
    BY <1>1 DEF FinalizeUserOperation, TypeOK
  <1>4. CASE tx[current].state = "mined" /\ h \in tx[current].succeeded
    <2>1. mem'[h].transactionHash = current
      BY <1>1, <1>2, <1>4 DEF FinalizeUserOperation, AsFinal, TypeOK, StoredUserOperation
    <2>2. current \in InState({"mined"})
      BY <1>2, <1>4 DEF InState
    <2> QED
      BY <1>3, <1>4, <2>1, <2>2 DEF Backed, BackedBy, MinedStays
  <1>5. CASE ~(tx[current].state = "mined" /\ h \in tx[current].succeeded)
    <2>1. mem'[h].state = "failed"
      BY <1>1, <1>2, <1>5 DEF FinalizeUserOperation, AsFinal, TypeOK, StoredUserOperation
    <2> QED
      BY <1>3, <2>1 DEF Backed, BackedBy, MinedStays
  <1> QED
    BY <1>4, <1>5

LEMMA NextBacked ==
  ASSUME TypeOK, TickSound, TxShape, Backed, [Next]_vars
  PROVE  Backed'
  <1>0. MinedStays
    BY ChainEffect
  <1>1. CASE UNCHANGED mempoolVars
    BY <1>0, <1>1 DEF mempoolVars, Backed, BackedBy, MinedStays
  <1>2. CASE AllKept
    BY <1>0, <1>2, KeptBacked
  <1>3. CASE SubmitterStep
    <2>1. CASE FinalizeOne
      BY <1>0, <2>1, FinalizeBacked
    <2>2. CASE \/ StartTick \/ RecoverLookup \/ ClaimNext \/ SendThrows \/ SendReturns \/ EndTick
               \/ PackFails
      <3>1. claim \subseteq Hashes
        BY DEF TickSound, TickType
      <3> QED
        BY <1>2, <2>2, <3>1, CallsKeep DEF StartTick, RecoverLookup, ClaimNext, SendThrows,
                                           SendReturns, EndTick, PackFails
    <2>3. CASE SimulationThrows
      <3>1. claim \subseteq Hashes
        BY DEF TickSound, TickType
      <3> QED
        BY <1>1, <1>2, <2>3, <3>1, CallsKeep DEF SimulationThrows
    <2>4. CASE \/ \E t \in Txs : RecoverReceipt(t)
               \/ FinalizeDone \/ NothingToClaim \/ PackDone \/ SimulationSucceeds
               \/ BroadcastTx \/ Confirm \/ NextSingle \/ RpcThrows
      BY <1>1, <2>4 DEF RecoverReceipt, FinalizeDone, NothingToClaim, PackDone, SimulationSucceeds,
                        BroadcastTx, Confirm, NextSingle, RpcThrows
    <2> QED
      BY <1>3, <2>1, <2>2, <2>3, <2>4 DEF SubmitterStep
  <1>4. CASE Environment
    BY <1>1, <1>2, <1>4, SendKeeps, StatementsKeep, ProcessKeeps DEF Environment
  <1>5. CASE CrashProcess \/ RestartProcess
    BY <1>2, <1>5, ProcessKeeps DEF CrashProcess, RestartProcess
  <1>6. CASE UNCHANGED vars
    BY <1>1, <1>6 DEF vars
  <1> QED
    BY <1>3, <1>4, <1>5, <1>6 DEF Next

\* Every operation reported included did succeed, in the transaction its
\* receipt names: whatever the node loses, returns or answers late, wherever
\* crashes fall, and although simulations overlap (submitter.ts:639-668).
THEOREM InclusionsAreReal ==
  ASSUME FiniteHashes
  PROVE  Spec => []InclusionSound
  <1>1. Init => TxShape /\ Backed
    BY DEF Init, ChainInit, MempoolInit, Unsent, TxShape, Backed, BackedBy, NoOperation
  <1>2. TypeOK /\ TickSound /\ TxShape /\ Backed /\ [Next]_vars => (TxShape /\ Backed)'
    BY ChainEffect, NextBacked
  <1>3. Backed => InclusionSound
    BY DEF Backed, BackedBy, InclusionSound
  <1> QED
    BY <1>1, <1>2, <1>3, TickInvariant, PTL DEF Spec

-----------------------------------------------------------------------------
(* What a tick holds is its own: the proof. *)

\* A transaction the node forgot is gone, and a send that threw did not reach
\* the node: without either, a second submission is the code's own doing.  See
\* the runs SubmitterLostAck and SubmitterHostile for what happens otherwise.
FaithfulNode == ~DroppedMayReturn /\ ~AckMayBeLost

\* What calls leave alone.
LEMMA CallsTouch ==
  ASSUME TypeOK
  PROVE  /\ \A S : Claim(S) => /\ \A h \in Hashes \ S : mem'[h] = mem[h]
                               /\ \A h \in Hashes \cap S : mem'[h] = AsSubmitting(mem[h], now)
         /\ \A S : Release(S) => \A h \in Hashes : h \notin S \cap Submitting => mem'[h] = mem[h]
         /\ \A S, t : RecordTransactionHash(S, t) =>
               /\ \A h \in Hashes \ S : mem'[h] = mem[h]
               /\ \A h \in S \cap Submitting : SubmittedIn(h, t)'
         /\ \A h, t, ok : MarkUserOperationFailed(h) \/ FinalizeUserOperation(h, t, ok) =>
               \A g \in Hashes : g # h => mem'[g] = mem[g]
  <1> USE DEF TypeOK
  <1>1. ASSUME NEW S, Claim(S)
        PROVE  /\ \A h \in Hashes \ S : mem'[h] = mem[h]
               /\ \A h \in Hashes \cap S : mem'[h] = AsSubmitting(mem[h], now)
    BY <1>1 DEF Claim
  <1>2. ASSUME NEW S, Release(S)
        PROVE  \A h \in Hashes : h \notin S \cap Submitting => mem'[h] = mem[h]
    BY <1>2 DEF Release
  <1>3. ASSUME NEW S, NEW t, RecordTransactionHash(S, t)
        PROVE  /\ \A h \in Hashes \ S : mem'[h] = mem[h]
               /\ \A h \in S \cap Submitting : SubmittedIn(h, t)'
    <2>1. \A h \in Hashes :
            LET op == [WithTx(mem[h], t) EXCEPT !.submissionStartedAt =
                                                  IF @ = NoTime THEN now ELSE @]
            IN  op.state = "submitting" /\ op.submissionTxHash = t
      BY DEF WithTx, StoredUserOperation
    <2>2. Submitting \subseteq Hashes
      BY DEF Submitting
    <2>3. \A h \in S \cap Submitting :
            mem'[h].state = "submitting" /\ mem'[h].submissionTxHash = t
      BY <1>3, <2>1, <2>2 DEF RecordTransactionHash
    <2> QED
      BY <1>3, <2>2, <2>3 DEF RecordTransactionHash, SubmittedIn, Submitting
  <1>4. ASSUME NEW h, NEW t, NEW ok, MarkUserOperationFailed(h) \/ FinalizeUserOperation(h, t, ok)
        PROVE  \A g \in Hashes : g # h => mem'[g] = mem[g]
    BY <1>4 DEF MarkUserOperationFailed, FinalizeUserOperation
  <1> QED
    BY <1>1, <1>2, <1>3, <1>4

\* Neither clients nor statements touch what is being submitted.
LEMMA SubmittingStays ==
  ASSUME TypeOK, Durability, \/ \E r \in Requests : SendUserOperation(r)
                             \/ TimePasses \/ ExecuteStatement
  PROVE  \A h \in Submitting : mem'[h] = mem[h]
  <1> USE DEF Submitting
  <1>1. ASSUME NEW r \in Requests, SendUserOperation(r)
        PROVE  \A h \in Submitting : mem'[h] = mem[h]
    <2>1. ASSUME NEW h \in Hashes, SendRefused(r, h) \/ SendWithoutEffect(r, h)
                                                    \/ SendAwaitSimulation(r, h)
          PROVE  mem' = mem
      BY <2>1 DEF SendRefused, SendWithoutEffect, SendAwaitSimulation, mempoolVars
    <2>2. ASSUME NEW h \in Hashes, NEW c \in BOOLEAN, SendRequeue(r, h, c)
          PROVE  mem[h].state = "failed" /\ mem' = [mem EXCEPT ![h] = PendingOperation(c)]
      BY <2>2 DEF SendRequeue
    <2>3. ASSUME NEW h \in Hashes, SendAdmit(r, h)
          PROVE  mem[h].state = "none" /\ mem' = [mem EXCEPT ![h] = PendingOperation(TRUE)]
      BY <2>3 DEF SendAdmit, Admit
    <2>4. CASE SimulationPassed(r)
      <3>1. mem[request[r]].state = "none" /\ request[r] \in Hashes
        BY <2>4 DEF SimulationPassed, Durability, SimulatedUnknown, TypeOK
      <3> QED
        BY <2>4, <3>1 DEF SimulationPassed, Admit, TypeOK
    <2>5. CASE SimulationFailed(r)
      BY <2>5 DEF SimulationFailed
    <2> QED
      BY <1>1, <2>1, <2>2, <2>3, <2>4, <2>5 DEF SendUserOperation, TypeOK
  <1>2. CASE TimePasses
    BY <1>2 DEF TimePasses
  <1>3. CASE PruneFinalized
    BY <1>3 DEF PruneFinalized, Final, FinalStates
  <1>4. CASE RecordTx \/ \E h \in Hashes : \/ SavePending(h) \/ MarkSubmitting(h)
                                           \/ MarkPending(h) \/ DeleteFinalized(h)
                                           \/ SaveFinalized(h) \/ RemovePending(h)
    <2>1. mem' = mem
      <3>1. CASE RecordTx
        BY <3>1 DEF RecordTx
      <3>2. ASSUME NEW h \in Hashes, SavePending(h) \/ MarkSubmitting(h) \/ MarkPending(h)
            PROVE  mem' = mem
        BY <3>2 DEF SavePending, MarkSubmitting, MarkPending
      <3>3. ASSUME NEW h \in Hashes, DeleteFinalized(h) \/ SaveFinalized(h) \/ RemovePending(h)
            PROVE  mem' = mem
        BY <3>3 DEF DeleteFinalized, SaveFinalized, RemovePending
      <3> QED
        BY <1>4, <3>1, <3>2, <3>3
    <2> QED
      BY <2>1
  <1> QED
    BY <1>1, <1>2, <1>3, <1>4 DEF ExecuteStatement

LEMMA SameClaim ==
  ASSUME NEW h \in Hashes, mem'[h] = mem[h], processStartedAt' = processStartedAt
  PROVE  /\ Fresh(h)' <=> Fresh(h)
         /\ \A t : SubmittedIn(h, t)' <=> SubmittedIn(h, t)
  BY DEF Fresh, SubmittedIn, Untracked, Submitting

\* A receipt stays a receipt.
LEMMA ReceiptStays ==
  ASSUME TickSound, TxShape, [Next]_vars, NEW t \in Txs, HasReceipt(t)
  PROVE  HasReceipt(t)'
  <1> USE DEF HasReceipt
  <1>1. ASSUME NEW s \in Txs, Mine(s)
        PROVE  HasReceipt(t)'
    BY <1>1, MineEffect
  <1>2. ASSUME NEW s \in Txs, Revert(s) \/ Drop(s)
        PROVE  HasReceipt(t)'
    <2>1. s # t
      BY <1>2 DEF Revert, Minable, Drop
    <2> QED
      BY <1>2, <2>1, EndEffect
  <1>3. CASE BroadcastTx
    <2>1. claim \subseteq Hashes
      BY DEF TickSound, TickType
    <2> QED
      BY <1>3, <2>1, BroadcastEffect DEF BroadcastTx
  <1>4. CASE UNCHANGED chainVars
    BY <1>4 DEF chainVars
  <1> QED
    BY <1>1, <1>2, <1>3, <1>4, ChainCases DEF ChainStep

\* Lists that get no new entry, and operations on them that are not touched.
LEMMA OwnUntouched ==
  ASSUME TickSound, HoldsOwn, processStartedAt' = processStartedAt,
         claim' \subseteq claim, rest' \subseteq rest, snapshot' \subseteq snapshot,
         \A h \in claim' \cup rest' : mem'[h] = mem[h],
         \A e \in snapshot' : mem'[e.hash] = mem[e.hash],
         \/ claim' = {}
         \/ /\ current' = current
            /\ pc' \in {"packing", "simulate", "send", "sent"} =>
                 pc \in {"packing", "simulate", "send", "sent"}
            /\ pc' \in {"confirm", "finalizeRecovered", "finalizeConfirmed"} =>
                 pc \in {"confirm", "finalizeRecovered", "finalizeConfirmed"},
         pc' \in {"finalizeRecovered", "finalizeConfirmed"} => HasReceipt(current)'
  PROVE  HoldsOwn'
  <1>1. claim \subseteq Hashes /\ rest \subseteq Hashes /\ \A e \in snapshot : e.hash \in Hashes
    BY DEF TickSound, TickType
  <1>2. \A h \in rest' : Fresh(h)'
    BY <1>1, SameClaim DEF HoldsOwn
  <1>3. \A e \in snapshot' : SubmittedIn(e.hash, e.tx)'
    <2> SUFFICES ASSUME NEW e \in snapshot'
                 PROVE  SubmittedIn(e.hash, e.tx)'
      OBVIOUS
    <2>1. e \in snapshot /\ e.hash \in Hashes /\ mem'[e.hash] = mem[e.hash]
      BY <1>1
    <2> QED
      BY <2>1, SameClaim DEF HoldsOwn
  <1>4. pc' \in {"packing", "simulate", "send", "sent"} => \A h \in claim' : Fresh(h)'
    BY <1>1, SameClaim DEF HoldsOwn
  <1>5. pc' \in {"confirm", "finalizeRecovered", "finalizeConfirmed"} =>
          \A h \in claim' : SubmittedIn(h, current)'
    <2> SUFFICES ASSUME pc' \in {"confirm", "finalizeRecovered", "finalizeConfirmed"},
                        NEW h \in claim'
                 PROVE  SubmittedIn(h, current)'
      OBVIOUS
    <2>1. SubmittedIn(h, current) /\ h \in Hashes /\ current' = current /\ mem'[h] = mem[h]
      BY <1>1 DEF HoldsOwn
    <2> QED
      BY <2>1, SameClaim DEF SubmittedIn, Submitting
  <1> QED
    BY <1>2, <1>3, <1>4, <1>5 DEF HoldsOwn

LEMMA RecoveryOwn ==
  ASSUME TypeOK, TickSound, TxShape, HoldsOwn,
         \/ StartTick \/ \E t \in Txs : RecoverReceipt(t)
         \/ RecoverLookup \/ FinalizeOne \/ FinalizeDone
  PROVE  HoldsOwn'
  <1> USE DEF TickSound, ListsEmpty
  <1>0. UNCHANGED <<chainVars, processStartedAt>>
    BY DEF StartTick, RecoverReceipt, RecoverLookup, FinalizeOne, FinalizeDone
  <1>1. CASE StartTick
    <2>1. claim' = {} /\ rest' = {} /\ pc' = "recover"
      BY <1>1 DEF StartTick
    <2>2. \A h \in Tracked : mem'[h] = mem[h] /\ SubmittedIn(h, mem[h].submissionTxHash)
                             /\ h \in Hashes
      <3>1. Tracked \cap StaleUntracked = {} /\ Tracked \subseteq Hashes
        BY DEF Tracked, StaleUntracked, Submitting
      <3>2. \A h \in Tracked : mem'[h] = mem[h]
        BY <1>1, <3>1, CallsTouch DEF StartTick
      <3> QED
        BY <3>1, <3>2 DEF SubmittedIn, Tracked
    <2>3. \A e \in snapshot' : e.hash \in Tracked /\ e.tx = mem[e.hash].submissionTxHash
      BY <1>1 DEF StartTick
    <2>4. \A e \in snapshot' : SubmittedIn(e.hash, e.tx)'
      BY <1>0, <2>2, <2>3, SameClaim
    <2> QED
      BY <2>1, <2>4 DEF HoldsOwn
  <1>2. ASSUME NEW t \in Txs, RecoverReceipt(t)
        PROVE  HoldsOwn'
    <2>1. mem' = mem /\ rest' = {} /\ snapshot' \subseteq snapshot /\ current' = t
      BY <1>2 DEF RecoverReceipt, mempoolVars
    <2>2. \A h \in GroupOps(t) : SubmittedIn(h, t)
      BY DEF GroupOps, Group, HoldsOwn
    <2>3. \A h \in GroupOps(t) : SubmittedIn(h, t)'
      BY <2>1, <2>2 DEF SubmittedIn, Submitting
    <2>4. \A e \in snapshot' : SubmittedIn(e.hash, e.tx)'
      BY <2>1 DEF HoldsOwn, SubmittedIn, Submitting
    <2>5. HasReceipt(t)' <=> HasReceipt(t)
      BY <1>0 DEF HasReceipt, chainVars
    <2>6. \/ pc' = "finalizeRecovered" /\ claim' = GroupOps(t) /\ HasReceipt(t)
          \/ pc' = "lookup" /\ claim' = claim
      BY <1>2 DEF RecoverReceipt
    <2>7. HasReceipt(t)' => HasReceipt(current)'
      BY <2>1 DEF HasReceipt
    <2>8. \A h \in GroupOps(t) : SubmittedIn(h, current)'
      BY <2>1, <2>3 DEF SubmittedIn
    <2> QED
      BY <2>1, <2>4, <2>5, <2>6, <2>7, <2>8 DEF HoldsOwn
  <1>3. CASE RecoverLookup
    <2>1. PICK S : /\ Release(S) /\ S \subseteq GroupOps(current)
      <3>1. CASE ~Found(current) /\ TimedOut(current)
        BY <1>3, <3>1 DEF RecoverLookup
      <3>2. CASE ~(~Found(current) /\ TimedOut(current))
        BY <1>3, <3>2 DEF RecoverLookup
      <3> QED
        BY <3>1, <3>2
    <2>2. claim' = {} /\ claim = {} /\ rest' = {} /\ rest = {} /\ pc' = "recover"
          /\ snapshot' = snapshot \ Group(current)
      BY <1>3 DEF RecoverLookup
    <2>3. \A e \in snapshot' : e.hash \in Hashes /\ e.hash \notin GroupOps(current)
      BY <2>2 DEF GroupOps, Group, HeldOnce, TickType
    <2>4. \A e \in snapshot' : mem'[e.hash] = mem[e.hash]
      BY <2>1, <2>3, CallsTouch
    <2> QED
      BY <1>0, <2>2, <2>4, OwnUntouched
  <1>4. CASE FinalizeOne
    <2>1. PICK h \in claim : /\ \E ok : FinalizeUserOperation(h, current, ok)
                             /\ claim' = claim \ {h}
      BY <1>4 DEF FinalizeOne
    <2>2. \A g \in Hashes : g # h => mem'[g] = mem[g]
      BY <2>1, CallsTouch
    <2>3. rest' = rest /\ snapshot' = snapshot /\ pc' = pc /\ current' = current
      BY <1>4 DEF FinalizeOne
    <2>4. /\ \A g \in claim' \cup rest' : mem'[g] = mem[g]
          /\ \A e \in snapshot' : mem'[e.hash] = mem[e.hash]
      BY <2>1, <2>2, <2>3 DEF HeldOnce, TickType
    <2>5. HasReceipt(current)' <=> HasReceipt(current)
      BY <1>0, <2>3 DEF HasReceipt, chainVars
    <2>6. pc \in {"finalizeRecovered", "finalizeConfirmed"} => HasReceipt(current)
      BY DEF HoldsOwn
    <2> QED
      BY <1>0, <2>1, <2>3, <2>4, <2>5, <2>6, OwnUntouched
  <1>5. CASE FinalizeDone
    <2>1. claim' = {} /\ rest' = rest /\ snapshot' = snapshot /\ mem' = mem
          /\ pc' \in {"recover", "next"}
      BY <1>5 DEF FinalizeDone, mempoolVars
    <2> QED
      BY <1>0, <2>1, OwnUntouched
  <1> QED
    BY <1>1, <1>2, <1>3, <1>4, <1>5

LEMMA ClaimOwn ==
  ASSUME TypeOK, TickSound, HoldsOwn, TimesPast,
         NothingToClaim \/ ClaimNext \/ PackFails \/ PackDone
  PROVE  HoldsOwn'
  <1> USE DEF TickSound, ListsEmpty
  <1>0. processStartedAt' = processStartedAt
    BY DEF NothingToClaim, ClaimNext, PackFails, PackDone
  <1>1. CASE NothingToClaim \/ PackDone
    <2>1. claim' = claim /\ rest' = rest /\ snapshot' = snapshot /\ mem' = mem
          /\ current' = current
      BY <1>1 DEF NothingToClaim, PackDone, mempoolVars, tickVars
    <2>2. \/ claim' = {}
          \/ pc = "packing" /\ pc' \in {"simulate"}
      BY <1>1, <2>1 DEF NothingToClaim, PackDone
    <2>3. pc' \notin {"finalizeRecovered", "finalizeConfirmed"}
      BY <1>1 DEF NothingToClaim, PackDone
    <2> QED
      BY <1>0, <2>1, <2>2, <2>3, OwnUntouched
  <1>2. CASE ClaimNext
    <2>1. PICK S \in Claimable(MaxOperationsPerBundle) : Claim(S) /\ claim' = S
      BY <1>2 DEF ClaimNext
    <2>2. S \subseteq Hashes /\ rest' = {} /\ snapshot' = {} /\ pc' = "packing"
      BY <1>2 DEF Claimable, Pending, ClaimNext
    <2>3. ASSUME NEW h \in S
          PROVE  Fresh(h)'
      <3>1. mem'[h] = AsSubmitting(mem[h], now) /\ mem[h] \in StoredUserOperation
        BY <2>1, <2>2, CallsTouch DEF TypeOK
      <3>2. /\ mem'[h].state = "submitting" /\ mem'[h].submissionTxHash = NoTx
            /\ mem'[h].submissionStartedAt = now
        BY <3>1 DEF AsSubmitting, StoredUserOperation
      <3>3. now >= processStartedAt
        BY DEF TimesPast, TypeOK, ReputationTypeOK
      <3> QED
        BY <1>0, <2>2, <3>2, <3>3 DEF Fresh, Untracked, Submitting
    <2> QED
      BY <2>1, <2>2, <2>3 DEF HoldsOwn
  <1>3. CASE PackFails
    <2>1. PICK h \in claim : MarkUserOperationFailed(h) /\ claim' = claim \ {h}
      BY <1>3 DEF PackFails
    <2>2. \A g \in Hashes : g # h => mem'[g] = mem[g]
      BY <2>1, CallsTouch
    <2>3. rest' = rest /\ snapshot' = snapshot /\ pc' = pc /\ current' = current /\ pc = "packing"
      BY <1>3 DEF PackFails
    <2>4. /\ \A g \in claim' \cup rest' : mem'[g] = mem[g]
          /\ \A e \in snapshot' : mem'[e.hash] = mem[e.hash]
      BY <2>1, <2>2, <2>3 DEF HeldOnce, TickType
    <2> QED
      BY <1>0, <2>1, <2>3, <2>4, OwnUntouched
  <1> QED
    BY <1>1, <1>2, <1>3

LEMMA SubmissionOwn ==
  ASSUME TypeOK, TickSound, HoldsOwn,
         \/ SimulationSucceeds \/ SimulationThrows \/ BroadcastTx \/ SendThrows \/ SendReturns
  PROVE  HoldsOwn'
  <1> USE DEF TickSound, HeldOnce, TickType
  <1>0. processStartedAt' = processStartedAt
    BY DEF SimulationSucceeds, SimulationThrows, BroadcastTx, SendThrows, SendReturns
  <1>1. CASE SimulationSucceeds \/ BroadcastTx
    <2>1. /\ claim' = claim /\ rest' = rest /\ snapshot' = snapshot /\ mem' = mem
          /\ pc \in {"simulate", "send"} /\ pc' \in {"send", "sent"}
      BY <1>1 DEF SimulationSucceeds, BroadcastTx, mempoolVars, tickVars
    <2>2. /\ \A h \in claim' \cup rest' : Fresh(h)'
          /\ \A e \in snapshot' : SubmittedIn(e.hash, e.tx)'
      BY <1>0, <2>1 DEF HoldsOwn, Fresh, SubmittedIn, Untracked, Submitting
    <2> QED
      BY <2>1, <2>2 DEF HoldsOwn
  <1>2. CASE SimulationThrows
    <2>1. /\ claim' = {} /\ snapshot' = snapshot /\ pc' = "next" /\ rest' \in {rest, claim}
          /\ pc = "simulate"
      BY <1>2 DEF SimulationThrows
    <2>2. \/ mem' = mem
          \/ rest' = rest /\ \E h \in claim : \A g \in Hashes : g # h => mem'[g] = mem[g]
      BY <1>2, CallsTouch DEF SimulationThrows, mempoolVars
    <2>3. /\ \A h \in rest' : Fresh(h) /\ h \in Hashes /\ mem'[h] = mem[h]
          /\ \A e \in snapshot' : e.hash \in Hashes /\ mem'[e.hash] = mem[e.hash]
      BY <2>1, <2>2 DEF HoldsOwn
    <2>4. \A h \in rest' : Fresh(h)'
      BY <1>0, <2>3, SameClaim
    <2>5. \A e \in snapshot' : SubmittedIn(e.hash, e.tx)'
      <3> SUFFICES ASSUME NEW e \in snapshot'
                   PROVE  SubmittedIn(e.hash, e.tx)'
        OBVIOUS
      <3>1. SubmittedIn(e.hash, e.tx) /\ e.hash \in Hashes /\ mem'[e.hash] = mem[e.hash]
        BY <2>1, <2>3 DEF HoldsOwn
      <3> QED
        BY <1>0, <3>1, SameClaim
    <2> QED
      BY <2>1, <2>4, <2>5 DEF HoldsOwn
  <1>3. CASE SendThrows
    <2>1. /\ claim' = {} /\ rest' = rest /\ snapshot' = snapshot /\ pc' = "next"
          /\ Release(claim)
      BY <1>3 DEF SendThrows
    <2>2. \A h \in Hashes \ claim : mem'[h] = mem[h]
      BY <2>1, CallsTouch
    <2> QED
      BY <1>0, <2>1, <2>2, OwnUntouched
  <1>4. CASE SendReturns
    <2>1. /\ claim' = claim /\ rest' = rest /\ snapshot' = snapshot /\ current' = current
          /\ pc = "sent" /\ pc' = "confirm" /\ RecordTransactionHash(claim, current)
      BY <1>4 DEF SendReturns, tickVars
    <2>2. claim \subseteq Submitting
      BY <2>1 DEF HoldsOwn, Fresh, Untracked
    <2>3. \A h \in claim : SubmittedIn(h, current)'
      <3>1. \A h \in claim : h \in Submitting' /\ mem'[h].submissionTxHash = current
        BY <2>1, <2>2, CallsTouch DEF SubmittedIn
      <3> QED
        BY <2>1, <3>1 DEF SubmittedIn
    <2>4. \A h \in Hashes \ claim : mem'[h] = mem[h]
      BY <2>1, CallsTouch
    <2>5. \A h \in rest' : Fresh(h)'
      BY <1>0, <2>1, <2>4, SameClaim DEF HoldsOwn
    <2>6. \A e \in snapshot' : SubmittedIn(e.hash, e.tx)'
      <3> SUFFICES ASSUME NEW e \in snapshot'
                   PROVE  SubmittedIn(e.hash, e.tx)'
        OBVIOUS
      <3>1. SubmittedIn(e.hash, e.tx) /\ e.hash \in Hashes /\ mem'[e.hash] = mem[e.hash]
        BY <2>1, <2>4 DEF HoldsOwn
      <3> QED
        BY <1>0, <3>1, SameClaim
    <2> QED
      BY <2>1, <2>3, <2>5, <2>6 DEF HoldsOwn
  <1> QED
    BY <1>1, <1>2, <1>3, <1>4

LEMMA EndingOwn ==
  ASSUME TypeOK, TickSound, HoldsOwn, Confirm \/ NextSingle \/ EndTick \/ RpcThrows
  PROVE  HoldsOwn'
  <1> USE DEF TickSound, HeldOnce, TickType
  <1>0. UNCHANGED <<chainVars, processStartedAt>>
    BY DEF Confirm, NextSingle, EndTick, RpcThrows
  <1>1. CASE Confirm
    <2>1. /\ rest' = rest /\ snapshot' = snapshot /\ mem' = mem /\ pc = "confirm"
          /\ \/ HasReceipt(current) /\ current' = current /\ claim' = claim
                /\ pc' = "finalizeConfirmed"
             \/ claim' = {} /\ pc' = "next"
      BY <1>1 DEF Confirm, mempoolVars
    <2>2. HasReceipt(current) /\ current' = current => HasReceipt(current)'
      BY <1>0 DEF HasReceipt, chainVars
    <2> QED
      BY <1>0, <2>1, <2>2, OwnUntouched
  <1>2. CASE NextSingle
    <2>1. /\ claim' \subseteq rest /\ rest' \subseteq rest /\ snapshot' = snapshot
          /\ mem' = mem /\ pc' = "simulate"
      BY <1>2 DEF NextSingle, mempoolVars
    <2>2. /\ \A h \in claim' \cup rest' : Fresh(h)'
          /\ \A e \in snapshot' : SubmittedIn(e.hash, e.tx)'
      BY <1>0, <2>1 DEF HoldsOwn, Fresh, SubmittedIn, Untracked, Submitting
    <2> QED
      BY <2>1, <2>2 DEF HoldsOwn
  <1>3. CASE EndTick
    <2>1. /\ claim' = {} /\ rest' = {} /\ snapshot' = snapshot /\ pc' = "sleep"
          /\ Release(rest)
      BY <1>3 DEF EndTick, ListsEmpty
    <2>2. \A h \in Hashes \ rest : mem'[h] = mem[h]
      BY <2>1, CallsTouch
    <2> QED
      BY <1>0, <2>1, <2>2, OwnUntouched
  <1>4. CASE RpcThrows
    <2>1. claim' = {} /\ rest' = {} /\ snapshot' = {} /\ pc' = "sleep"
      BY <1>4 DEF RpcThrows
    <2> QED
      BY <2>1 DEF HoldsOwn
  <1> QED
    BY <1>1, <1>2, <1>3, <1>4

LEMMA EnvironmentOwn ==
  ASSUME TypeOK, Durability, TickSound, TxShape, HoldsOwn, Environment
  PROVE  HoldsOwn'
  <1>1. UNCHANGED submitterVars
    BY DEF Environment
  <1>2. \A h \in Submitting : mem'[h] = mem[h]
    BY SubmittingStays DEF Environment, mempoolVars
  <1>3. /\ pc \in {"packing", "simulate", "send", "sent", "confirm", "finalizeRecovered",
                   "finalizeConfirmed"} => claim \subseteq Submitting
        /\ rest \subseteq Submitting /\ \A e \in snapshot : e.hash \in Submitting
    BY DEF HoldsOwn, Fresh, Untracked, SubmittedIn
  <1>4. pc \notin {"packing", "simulate", "send", "sent", "confirm", "finalizeRecovered",
                  "finalizeConfirmed"} => claim = {}
    BY DEF TickSound, TickType, ListsEmpty, Awaits, Loops
  <1>5. HasReceipt(current) /\ current \in Txs => HasReceipt(current)'
    <2> SUFFICES ASSUME HasReceipt(current), current \in Txs
                 PROVE  HasReceipt(current)'
      OBVIOUS
    <2>1. [Next]_vars
      BY DEF Next
    <2>2. \A t \in Txs : HasReceipt(t) => tx'[t].state \in {"mined", "reverted"}
      BY <2>1, ReceiptStays DEF HasReceipt
    <2> QED
      BY <1>1, <2>2 DEF HasReceipt, submitterVars, tickVars
  <1>6. pc \in {"finalizeRecovered", "finalizeConfirmed"} => HasReceipt(current)'
    BY <1>5 DEF HoldsOwn, TickSound, TickType, InTransaction
  <1> QED
    BY <1>1, <1>2, <1>3, <1>4, <1>6, OwnUntouched DEF submitterVars, tickVars

LEMMA NextOwn ==
  ASSUME TypeOK, Durability, TickSound, TxShape, HoldsOwn, TimesPast, [Next]_vars
  PROVE  HoldsOwn'
  <1>1. CASE SubmitterStep
    BY <1>1, RecoveryOwn, ClaimOwn, SubmissionOwn, EndingOwn DEF SubmitterStep
  <1>2. CASE CrashProcess
    BY <1>2 DEF CrashProcess, HoldsOwn
  <1>3. CASE RestartProcess
    <2>1. snapshot = {} /\ claim = {} /\ rest = {} /\ pc = "sleep"
      BY <1>3 DEF RestartProcess, Restart, TickSound, ListsEmpty
    <2>2. snapshot' = {} /\ claim' = {} /\ rest' = {} /\ pc' = "sleep"
      BY <1>3, <2>1 DEF RestartProcess, tickVars
    <2> QED
      BY <2>2 DEF HoldsOwn
  <1>4. CASE UNCHANGED vars
    BY <1>4 DEF vars, mempoolVars, chainVars, submitterVars, tickVars, HoldsOwn, Fresh,
                SubmittedIn, Untracked, Submitting, HasReceipt
  <1> QED
    BY <1>1, <1>2, <1>3, <1>4, EnvironmentOwn DEF Next

LEMMA StartsPast ==
  ASSUME TypeOK
  PROVE  \A op \in StoredUserOperation : \A t \in Txs \cup {NoTx} :
           /\ AsSubmitting(op, now).submissionStartedAt = now
           /\ \A at : AsSubmitting(op, at).submissionStartedAt = at
           /\ AsPending(op).submissionStartedAt = 0
           /\ WithTx(op, t).submissionStartedAt = op.submissionStartedAt
           /\ [WithTx(op, t) EXCEPT !.submissionStartedAt = IF @ = NoTime THEN now ELSE @]
                .submissionStartedAt \in {now, op.submissionStartedAt}
  BY DEF AsSubmitting, AsPending, WithTx, StoredUserOperation, NoTime

LEMMA SendPast ==
  ASSUME TypeOK, AllPast, NEW r \in Requests, SendUserOperation(r)
  PROVE  AllPast'
  <1>1. UNCHANGED <<pendingDb, finalizedDb, now>>
    BY DEF SendUserOperation, SendRefused, SendWithoutEffect, SendRequeue, SendAwaitSimulation,
           SendAdmit, SimulationPassed, SimulationFailed, mempoolVars
  <1>2. \/ UNCHANGED mem
        \/ \E h \in Hashes, c \in BOOLEAN : mem' = [mem EXCEPT ![h] = PendingOperation(c)]
    BY DEF SendUserOperation, SendRefused, SendWithoutEffect, SendRequeue, SendAwaitSimulation,
           SendAdmit, SimulationPassed, SimulationFailed, mempoolVars, Admit, TypeOK
  <1>3. \A c \in BOOLEAN : PendingOperation(c).submissionStartedAt = 0
    BY DEF PendingOperation, NoOperation, NoTime
  <1>4. \A h \in Hashes : mem'[h] = mem[h] \/ mem'[h].submissionStartedAt = 0
    BY <1>2, <1>3 DEF TypeOK
  <1> QED
    BY <1>1, <1>4 DEF AllPast, StartedBy, TypeOK, ReputationTypeOK

LEMMA CallsPast ==
  ASSUME TypeOK, AllPast, CallerStep
  PROVE  AllPast'
  <1>1. UNCHANGED <<pendingDb, finalizedDb, now>>
    BY DEF CallerStep, Claim, Release, RecordTransactionHash, MarkUserOperationFailed,
           FinalizeUserOperation
  <1>2. \A h \in Hashes : mem[h] \in StoredUserOperation /\ mem[h].submissionStartedAt \in Nat
    BY DEF TypeOK, StoredUserOperation
  <1>3. \A h \in Hashes :
          mem'[h] = mem[h] \/ mem'[h].submissionStartedAt \in {0, now, mem[h].submissionStartedAt}
    <2>1. ASSUME NEW S, Claim(S) \/ Release(S)
          PROVE  \A h \in Hashes : mem'[h] = mem[h] \/ mem'[h].submissionStartedAt \in {0, now}
      BY <1>2, <2>1, StartsPast, NoTxAssumption DEF Claim, Release
    <2>2. ASSUME NEW S, NEW t \in Txs, RecordTransactionHash(S, t)
          PROVE  \A h \in Hashes :
                   mem'[h] = mem[h] \/ mem'[h].submissionStartedAt \in {now, mem[h].submissionStartedAt}
      <3>1. \A h \in Hashes :
              [WithTx(mem[h], t) EXCEPT !.submissionStartedAt = IF @ = NoTime THEN now ELSE @]
                .submissionStartedAt \in {now, mem[h].submissionStartedAt}
        BY <1>2, StartsPast
      <3> QED
        BY <2>2, <3>1 DEF RecordTransactionHash
    <2>3. \A g \in Hashes : \A state, u : AsFinal(mem[g], state, u).submissionStartedAt = 0
      BY <1>2 DEF AsFinal, StoredUserOperation, NoTime
    <2>4. ASSUME NEW g \in Hashes, NEW t, NEW ok,
                 MarkUserOperationFailed(g) \/ FinalizeUserOperation(g, t, ok)
          PROVE  \A h \in Hashes : mem'[h] = mem[h] \/ mem'[h].submissionStartedAt = 0
      <3>1. \E state, u : mem' = [mem EXCEPT ![g] = AsFinal(mem[g], state, u)]
        BY <2>4 DEF MarkUserOperationFailed, FinalizeUserOperation
      <3> QED
        BY <2>3, <3>1 DEF TypeOK
    <2> QED
      BY <2>1, <2>2, <2>4 DEF CallerStep
  <1> QED
    BY <1>1, <1>2, <1>3 DEF AllPast, StartedBy, TypeOK, ReputationTypeOK

LEMMA StatementsPast ==
  ASSUME TypeOK, AllPast, ExecuteStatement
  PROVE  AllPast'
  <1> USE DEF AllPast, StartedBy
  <1>0. /\ \A h \in Hashes : /\ mem[h] \in StoredUserOperation /\ pendingDb[h] \in StoredUserOperation
                             /\ mem[h].submissionTxHash \in Txs \cup {NoTx}
        /\ now \in Nat
    BY DEF TypeOK, StoredUserOperation, ReputationTypeOK
  <1>1. NoOperation.submissionStartedAt = 0
    BY DEF NoOperation, NoTime
  <1> USE DEF TypeOK
  <1>2. ASSUME NEW h \in Hashes, SavePending(h)
        PROVE  AllPast'
    BY <1>2 DEF SavePending, Executes
  <1>3. ASSUME NEW h \in Hashes, MarkSubmitting(h)
        PROVE  AllPast'
    <2>1. AsSubmitting(pendingDb[h], mem[h].submissionStartedAt).submissionStartedAt
            = mem[h].submissionStartedAt
      BY <1>0, StartsPast
    <2> QED
      BY <1>3, <2>1 DEF MarkSubmitting, Executes
  <1>4. ASSUME NEW h \in Hashes, MarkPending(h)
        PROVE  AllPast'
    <2>1. AsPending(pendingDb[h]).submissionStartedAt = 0
      BY <1>0, StartsPast
    <2> QED
      BY <1>0, <1>4, <2>1 DEF MarkPending, Executes
  <1>5. ASSUME NEW h \in Hashes, DeleteFinalized(h) \/ SaveFinalized(h) \/ RemovePending(h)
        PROVE  AllPast'
    BY <1>0, <1>1, <1>5 DEF DeleteFinalized, SaveFinalized, RemovePending, Executes
  <1>6. CASE RecordTx
    <2>1. \A h \in Hashes : WithTx(pendingDb[h], mem[h].submissionTxHash).submissionStartedAt
                              = pendingDb[h].submissionStartedAt
      BY <1>0, StartsPast
    <2> QED
      BY <1>6, <2>1 DEF RecordTx
  <1>7. CASE PruneFinalized
    BY <1>0, <1>1, <1>7 DEF PruneFinalized
  <1> QED
    BY <1>2, <1>3, <1>4, <1>5, <1>6, <1>7 DEF ExecuteStatement

LEMMA ProcessPast ==
  ASSUME TypeOK, AllPast, Crash \/ Restart \/ TimePasses
  PROVE  AllPast'
  <1>1. NoOperation.submissionStartedAt = 0
    BY DEF NoOperation, NoTime
  <1>2. /\ \A h \in Hashes : /\ mem[h].submissionStartedAt \in Nat
                             /\ pendingDb[h].submissionStartedAt \in Nat
                             /\ finalizedDb[h].submissionStartedAt \in Nat
        /\ now \in Nat
    BY DEF TypeOK, StoredUserOperation, ReputationTypeOK
  <1>3. UNCHANGED <<pendingDb, finalizedDb>> /\ now' \in {now, now + 1}
    BY DEF Crash, Restart, TimePasses, Tick
  <1>4. \A h \in Hashes : mem'[h] \in {mem[h], pendingDb[h], finalizedDb[h], NoOperation}
    BY DEF Crash, Restart, TimePasses, Durable
  <1> QED
    BY <1>1, <1>2, <1>3, <1>4 DEF AllPast, StartedBy

LEMMA NextPast ==
  ASSUME FiniteHashes, TypeOK, TickSound, TimesPast, [Next]_vars
  PROVE  TimesPast'
  <1>1. AllPast
    BY DEF AllPast, TimesPast
  <1>2. AllPast'
    <2>1. CASE UNCHANGED mempoolVars
      BY <1>1, <2>1 DEF AllPast, mempoolVars, StartedBy
    <2> QED
      BY <1>1, <2>1, BundlerIsMempool, SendPast, CallsPast, StatementsPast, ProcessPast
      DEF MempoolNext
  <1>3. processStartedAt' \in Nat /\ processStartedAt' <= now'
    <2>1. now \in Nat /\ now' \in {now, now + 1}
      <3>1. now' \in {now, now + 1}
        <4>1. ASSUME NEW r \in Requests, SendUserOperation(r)
              PROVE  now' = now
          <5>1. ASSUME NEW h \in Hashes, SendRefused(r, h) \/ SendWithoutEffect(r, h)
                                         \/ SendAwaitSimulation(r, h) \/ SendAdmit(r, h)
                PROVE  now' = now
            BY <5>1 DEF SendRefused, SendWithoutEffect, SendAwaitSimulation, SendAdmit, mempoolVars
          <5>2. ASSUME NEW h \in Hashes, NEW c \in BOOLEAN, SendRequeue(r, h, c)
                PROVE  now' = now
            BY <5>2 DEF SendRequeue
          <5>3. CASE SimulationPassed(r) \/ SimulationFailed(r)
            BY <5>3 DEF SimulationPassed, SimulationFailed
          <5> QED
            BY <4>1, <5>1, <5>2, <5>3 DEF SendUserOperation
        <4>2. CASE CallerStep
          BY <4>2 DEF CallerStep, Claim, Release, RecordTransactionHash, MarkUserOperationFailed,
                      FinalizeUserOperation
        <4>3. CASE ExecuteStatement
          <5>1. ASSUME NEW h \in Hashes, SavePending(h) \/ MarkSubmitting(h) \/ MarkPending(h)
                PROVE  now' = now
            BY <5>1 DEF SavePending, MarkSubmitting, MarkPending, Executes
          <5>2. ASSUME NEW h \in Hashes, DeleteFinalized(h) \/ SaveFinalized(h) \/ RemovePending(h)
                PROVE  now' = now
            BY <5>2 DEF DeleteFinalized, SaveFinalized, RemovePending, Executes
          <5>3. CASE RecordTx \/ PruneFinalized
            BY <5>3 DEF RecordTx, PruneFinalized
          <5> QED
            BY <4>3, <5>1, <5>2, <5>3 DEF ExecuteStatement
        <4>4. CASE Crash \/ Restart \/ TimePasses
          BY <4>4 DEF Crash, Restart, TimePasses, Tick
        <4>5. CASE UNCHANGED mempoolVars
          BY <4>5 DEF mempoolVars
        <4> QED
          BY <4>1, <4>2, <4>3, <4>4, <4>5, BundlerIsMempool DEF MempoolNext
      <3> QED
        BY <3>1 DEF TypeOK, ReputationTypeOK
    <2>2. CASE processStartedAt' = processStartedAt
      BY <2>1, <2>2 DEF TimesPast
    <2>3. CASE processStartedAt' = now'
      BY <2>1, <2>3
    <2>4. processStartedAt' = processStartedAt \/ processStartedAt' = now'
      <3>1. CASE SubmitterStep
        BY <3>1 DEF SubmitterStep, StartTick, RecoverReceipt, RecoverLookup, FinalizeOne,
               FinalizeDone, NothingToClaim, ClaimNext, PackFails, PackDone, SimulationSucceeds,
               SimulationThrows, BroadcastTx, SendThrows, SendReturns, Confirm, NextSingle,
               EndTick, RpcThrows
      <3>2. CASE Environment \/ CrashProcess \/ RestartProcess
        BY <3>2 DEF Environment, CrashProcess, RestartProcess, submitterVars
      <3>3. CASE UNCHANGED vars
        BY <3>3 DEF vars, submitterVars
      <3> QED
        BY <3>1, <3>2, <3>3 DEF Next
    <2> QED
      BY <2>2, <2>3, <2>4
  <1> QED
    BY <1>2, <1>3 DEF AllPast, TimesPast

\* Without a broadcast no transaction comes back to life, and none changes
\* what it carries.
ChainShrinks ==
  \A t \in Txs : /\ tx'[t].ops = tx[t].ops
                 /\ tx'[t].state = "waiting" => tx[t].state = "waiting"
                 /\ tx'[t].state = "mined" => tx[t].state \in {"waiting", "mined"}

LEMMA ShrinkEffect ==
  ASSUME FaithfulNode, TxShape, ChainStep \/ UNCHANGED chainVars
  PROVE  ChainShrinks
  <1>1. ASSUME NEW t \in Txs, Mine(t)
        PROVE  ChainShrinks
    <2>1. tx[t].state = "waiting"
      BY <1>1 DEF Mine, Minable, FaithfulNode
    <2> QED
      BY <1>1, <2>1, MineEffect DEF ChainShrinks
  <1>2. ASSUME NEW t \in Txs, Revert(t) \/ Drop(t)
        PROVE  ChainShrinks
    BY <1>2, EndEffect DEF ChainShrinks
  <1>3. CASE UNCHANGED chainVars
    BY <1>3 DEF chainVars, ChainShrinks
  <1> QED
    BY <1>1, <1>2, <1>3 DEF ChainStep

-----------------------------------------------------------------------------
(* What is in a transaction stays held until the transaction decides. *)

Waits(h) == \E t \in InState({"waiting"}) : h \in tx[t].ops

\* The tick takes h off its list with the result the chain has for t.
Concluded(h, t) ==
  /\ HasReceipt(t)
  /\ FinalizeUserOperation(h, t, tx[t].state = "mined" /\ h \in tx[t].succeeded)

LEMMA FreshIsNotHeld ==
  ASSUME pc # "sent", NEW t \in Txs, NEW h, MemHeld(h, t)
  PROVE  ~Fresh(h)
  BY NoTxAssumption DEF MemHeld, Fresh, Untracked, SubmittedIn

LEMMA FreshDoesNotWait ==
  ASSUME WaitingHeld, up, pc # "sent", NEW h \in Hashes, Fresh(h)
  PROVE  ~Waits(h)
  <1>1. \A t \in Txs : ~MemHeld(h, t)
    BY FreshIsNotHeld
  <1> QED
    BY <1>1 DEF Waits, WaitingHeld, Held, InState

LEMMA HeldUntouched ==
  ASSUME NEW t \in Txs, NEW h \in Hashes, MemHeld(h, t), mem'[h] = mem[h],
         processStartedAt' = processStartedAt, pc = "sent" => UNCHANGED <<pc, current, claim>>
  PROVE  MemHeld(h, t)'
  <1>1. (Fresh(h)' <=> Fresh(h)) /\ \A u : SubmittedIn(h, u)' <=> SubmittedIn(h, u)
    BY SameClaim
  <1> QED
    BY <1>1 DEF MemHeld

\* The statements write what is held back as it is.
LEMMA StatementHeld ==
  ASSUME TypeOK, Durability, ExecuteStatement, UNCHANGED submitterVars,
         NEW t \in Txs, NEW h \in Hashes, RowHeld(h, t), MemHeld(h, t)
  PROVE  RowHeld(h, t)' /\ MemHeld(h, t)'
  <1>1. /\ h \in Submitting /\ mem[h].submissionTxHash \in {t, NoTx}
        /\ mem[h].state = "submitting"
    BY DEF MemHeld, SubmittedIn, Submitting
  <1>2. mem'[h] = mem[h]
    BY <1>1, SubmittingStays
  <1>3. MemHeld(h, t)'
    BY <1>2, HeldUntouched DEF submitterVars, tickVars
  <1>4. RowHeld(h, t)'
    <2> USE DEF RowHeld, TypeOK
    <2>0. /\ pendingDb[h] \in StoredUserOperation
          /\ mem[h].submissionStartedAt \in Nat /\ mem[h].submissionTxHash \in Txs \cup {NoTx}
      BY DEF StoredUserOperation
    <2>1. ASSUME NEW g \in Hashes, SavePending(g)
          PROVE  RowHeld(h, t)'
      BY <1>1, <2>1 DEF SavePending
    <2>2. ASSUME NEW g \in Hashes, MarkSubmitting(g)
          PROVE  RowHeld(h, t)'
      <3>1. /\ AsSubmitting(pendingDb[h], mem[h].submissionStartedAt).state = "submitting"
            /\ AsSubmitting(pendingDb[h], mem[h].submissionStartedAt).submissionTxHash = NoTx
        BY <2>0 DEF AsSubmitting, StoredUserOperation
      <3> QED
        BY <2>2, <3>1 DEF MarkSubmitting
    <2>3. ASSUME NEW g \in Hashes, MarkPending(g)
          PROVE  RowHeld(h, t)'
      <3>1. g # h
        <4>1. mem[g] = AsPending(pendingDb[g])
          BY <2>3 DEF MarkPending, Executes, Durability, TailSound
        <4>2. mem[g].state = "pending"
          BY <4>1, ReleasedColumns
        <4> QED
          BY <1>1, <4>2
      <3> QED
        BY <2>3, <3>1 DEF MarkPending
    <2>4. ASSUME NEW g \in Hashes, DeleteFinalized(g)
          PROVE  RowHeld(h, t)'
      BY <2>4 DEF DeleteFinalized
    <2>5. ASSUME NEW g \in Hashes, SaveFinalized(g) \/ RemovePending(g)
          PROVE  RowHeld(h, t)'
      <3>1. g # h
        BY <1>1, <2>5 DEF SaveFinalized, RemovePending, Executes, Durability, TailSound, Final,
                          FinalStates
      <3> QED
        BY <2>5, <3>1 DEF SaveFinalized, RemovePending
    <2>6. CASE RecordTx
      <3>1. /\ WithTx(pendingDb[h], mem[h].submissionTxHash).state = "submitting"
            /\ WithTx(pendingDb[h], mem[h].submissionTxHash).submissionTxHash
                 = mem[h].submissionTxHash
        BY <2>0, RecordedColumns
      <3> QED
        BY <1>1, <2>6, <3>1 DEF RecordTx
    <2>7. CASE PruneFinalized
      BY <2>7 DEF PruneFinalized
    <2> QED
      BY <2>1, <2>2, <2>3, <2>4, <2>5, <2>6, <2>7 DEF ExecuteStatement
  <1> QED
    BY <1>3, <1>4

\* Recovery finds the transaction, and ends the claim only with its result.
LEMMA RecoveryHeld ==
  ASSUME TypeOK, TickSound, HoldsOwn, TimesPast,
         NEW t \in Txs, NEW h \in Hashes, MemHeld(h, t), tx[t].state \in {"waiting", "mined"},
         \/ StartTick \/ \E s \in Txs : RecoverReceipt(s)
         \/ RecoverLookup \/ FinalizeOne \/ FinalizeDone
  PROVE  MemHeld(h, t)' \/ Concluded(h, t)
  <1>0. processStartedAt' = processStartedAt /\ pc # "sent"
    BY DEF StartTick, RecoverReceipt, RecoverLookup, FinalizeOne, FinalizeDone
  <1>1. \A u \in Txs : SubmittedIn(h, u) => u = t
    BY NoTxAssumption DEF MemHeld, SubmittedIn
  <1>2. CASE StartTick
    <2>1. Release(StaleUntracked)
      BY <1>2 DEF StartTick
    <2>2. h \notin StaleUntracked
      <3> SUFFICES ASSUME h \in StaleUntracked
                   PROVE  Fresh(h)
        BY <1>0, FreshIsNotHeld
      <3>1. h \in Untracked /\ ~(mem[h].submissionStartedAt < processStartedAt)
        BY DEF StaleUntracked, Orphaned
      <3>2. mem[h].submissionStartedAt \in Nat
        BY DEF TypeOK, StoredUserOperation
      <3> QED
        BY <3>1, <3>2 DEF Fresh, TimesPast
    <2>3. mem'[h] = mem[h]
      BY <2>1, <2>2, CallsTouch
    <2> QED
      BY <1>0, <2>3, HeldUntouched
  <1>3. CASE FinalizeDone \/ \E s \in Txs : RecoverReceipt(s)
    <2>1. mem' = mem
      BY <1>3 DEF FinalizeDone, RecoverReceipt, mempoolVars
    <2> QED
      BY <1>0, <2>1, HeldUntouched
  <1>4. CASE RecoverLookup
    <2>1. /\ pc = "lookup"
          /\ Release(IF ~Found(current) /\ TimedOut(current) THEN GroupOps(current) ELSE {})
      BY <1>4 DEF RecoverLookup
    <2>2. current \in Txs
      BY <2>1 DEF TickSound, TickType, InTransaction
    <2>3. h \in GroupOps(current) => Found(current)
      <3>1. h \in GroupOps(current) => SubmittedIn(h, current)
        BY DEF GroupOps, Group, HoldsOwn
      <3> QED
        BY <1>1, <2>2, <3>1 DEF Found
    <2>4. h \notin (IF ~Found(current) /\ TimedOut(current) THEN GroupOps(current) ELSE {})
      BY <2>3
    <2>5. mem'[h] = mem[h]
      BY <2>1, <2>4, CallsTouch
    <2> QED
      BY <1>0, <2>5, HeldUntouched
  <1>5. CASE FinalizeOne
    <2>1. PICK g \in claim :
            FinalizeUserOperation(g, current, tx[current].state = "mined"
                                              /\ g \in tx[current].succeeded)
      BY <1>5 DEF FinalizeOne
    <2>2. SubmittedIn(g, current) /\ HasReceipt(current) /\ current \in Txs
      BY <1>5 DEF FinalizeOne, HoldsOwn, TickSound, TickType, InTransaction
    <2>3. CASE g = h
      BY <1>1, <2>1, <2>2, <2>3 DEF Concluded
    <2>4. CASE g # h
      <3>1. mem'[h] = mem[h]
        BY <2>1, <2>4, CallsTouch
      <3> QED
        BY <1>0, <3>1, HeldUntouched
    <2> QED
      BY <2>3, <2>4
  <1> QED
    BY <1>2, <1>3, <1>4, <1>5

\* Steps up to the broadcast, and after the record: what they close or
\* release is a claim of this process that has no transaction.
LEMMA ClaimHeld ==
  ASSUME FaithfulNode, TypeOK, HoldsOwn, NEW t \in Txs, NEW h \in Hashes, MemHeld(h, t),
         \/ NothingToClaim \/ ClaimNext \/ PackFails \/ PackDone \/ SimulationSucceeds
         \/ SimulationThrows \/ BroadcastTx \/ SendThrows \/ Confirm \/ NextSingle \/ EndTick
         \/ RpcThrows
  PROVE  MemHeld(h, t)'
  <1>1. processStartedAt' = processStartedAt /\ pc # "sent"
    BY DEF NothingToClaim, ClaimNext, PackFails, PackDone, SimulationSucceeds, SimulationThrows,
           BroadcastTx, SendThrows, Confirm, NextSingle, EndTick, RpcThrows, FaithfulNode
  <1>2. ~Fresh(h) /\ h \in Submitting
    BY <1>1, FreshIsNotHeld DEF MemHeld, SubmittedIn
  <1> SUFFICES mem'[h] = mem[h]
    BY <1>1, HeldUntouched
  <1>3. CASE \/ NothingToClaim \/ PackDone \/ SimulationSucceeds \/ BroadcastTx
             \/ Confirm \/ NextSingle \/ RpcThrows
    BY <1>3 DEF NothingToClaim, PackDone, SimulationSucceeds, BroadcastTx, Confirm, NextSingle,
                RpcThrows, mempoolVars
  <1>4. CASE ClaimNext
    <2>1. PICK S \in Claimable(MaxOperationsPerBundle) : Claim(S)
      BY <1>4 DEF ClaimNext
    <2>2. h \notin S
      BY <1>2 DEF Claimable, Pending, Submitting
    <2> QED
      BY <2>1, <2>2, CallsTouch
  <1>5. CASE PackFails \/ SimulationThrows
    <2>1. h \notin claim
      BY <1>2, <1>5 DEF PackFails, SimulationThrows, HoldsOwn
    <2>2. mem' = mem \/ \E g \in claim : MarkUserOperationFailed(g)
      BY <1>5 DEF PackFails, SimulationThrows, mempoolVars
    <2> QED
      BY <2>1, <2>2, CallsTouch
  <1>6. CASE SendThrows
    <2>1. Release(claim) /\ h \notin claim
      BY <1>2, <1>6 DEF SendThrows, FaithfulNode, HoldsOwn
    <2> QED
      BY <2>1, CallsTouch
  <1>7. CASE EndTick
    <2>1. Release(rest) /\ h \notin rest
      BY <1>2, <1>7 DEF EndTick, HoldsOwn
    <2> QED
      BY <2>1, CallsTouch
  <1> QED
    BY <1>3, <1>4, <1>5, <1>6, <1>7

\* The answer to a broadcast is recorded: what it sent is held by its hash.
LEMMA ReturnHeld ==
  ASSUME TypeOK, HoldsOwn, NEW t \in Txs, NEW h \in Hashes, MemHeld(h, t), SendReturns
  PROVE  MemHeld(h, t)'
  <1>1. /\ pc = "sent" /\ RecordTransactionHash(claim, current)
        /\ UNCHANGED <<claim, current, processStartedAt>>
    BY DEF SendReturns, tickVars
  <1>2. CASE h \in claim
    <2>1. Fresh(h)
      BY <1>1, <1>2 DEF HoldsOwn
    <2>2. current = t
      BY <2>1, NoTxAssumption DEF MemHeld, Fresh, Untracked, SubmittedIn
    <2>3. SubmittedIn(h, t)'
      BY <1>1, <1>2, <2>1, <2>2, CallsTouch DEF Fresh, Untracked
    <2> QED
      BY <2>3 DEF MemHeld
  <1>3. CASE h \notin claim
    <2>1. mem'[h] = mem[h]
      BY <1>1, <1>3, CallsTouch
    <2>2. (Fresh(h)' <=> Fresh(h)) /\ \A u : SubmittedIn(h, u)' <=> SubmittedIn(h, u)
      BY <1>1, <2>1, SameClaim
    <2> QED
      BY <1>3, <2>2 DEF MemHeld
  <1> QED
    BY <1>2, <1>3

LEMMA SubmitterRows ==
  ASSUME SubmitterStep
  PROVE  up /\ UNCHANGED <<pendingDb, finalizedDb>>
  <1>1. ASSUME NEW S, Claim(S) \/ Release(S)
        PROVE  up /\ UNCHANGED <<pendingDb, finalizedDb>>
    BY <1>1 DEF Claim, Release, Ready
  <1>2. ASSUME NEW S, NEW t, RecordTransactionHash(S, t)
        PROVE  up /\ UNCHANGED <<pendingDb, finalizedDb>>
    BY <1>2 DEF RecordTransactionHash, Ready
  <1>3. ASSUME NEW h, NEW t, NEW ok, MarkUserOperationFailed(h) \/ FinalizeUserOperation(h, t, ok)
        PROVE  up /\ UNCHANGED <<pendingDb, finalizedDb>>
    BY <1>3 DEF MarkUserOperationFailed, FinalizeUserOperation, Ready
  <1>4. ASSUME Ready, UNCHANGED mempoolVars
        PROVE  up /\ UNCHANGED <<pendingDb, finalizedDb>>
    BY <1>4 DEF Ready, mempoolVars
  <1> QED
    BY <1>1, <1>2, <1>3, <1>4
    DEF SubmitterStep, StartTick, RecoverReceipt, RecoverLookup, FinalizeOne, FinalizeDone,
        NothingToClaim, ClaimNext, PackFails, PackDone, SimulationSucceeds, SimulationThrows,
        BroadcastTx, SendThrows, SendReturns, Confirm, NextSingle, EndTick, RpcThrows

LEMMA EnvironmentHeld ==
  ASSUME TypeOK, Durability, NEW t \in Txs, NEW h \in Hashes, Held(h, t), Environment
  PROVE  Held(h, t)'
  <1>1. /\ UNCHANGED submitterVars
        /\ UNCHANGED <<pc, current, claim, processStartedAt>>
    BY DEF Environment, submitterVars, tickVars
  <1>2. CASE ExecuteStatement
    <2>1. up /\ up' = up
      BY <1>2, OpenStays DEF ExecuteStatement, SavePending, MarkSubmitting, MarkPending,
           DeleteFinalized, SaveFinalized, RemovePending, Executes, RecordTx, PruneFinalized
    <2> QED
      BY <1>1, <1>2, <2>1, StatementHeld DEF Held
  <1>3. CASE UNCHANGED mempoolVars
    <2>1. UNCHANGED <<up, mem, pendingDb, finalizedDb>>
      BY <1>3 DEF mempoolVars
    <2> QED
      BY <1>1, <2>1, HeldUntouched DEF Held, RowHeld
  <1>4. CASE (\E r \in Requests : SendUserOperation(r)) \/ TimePasses
    <2>1. up /\ UNCHANGED <<pendingDb, finalizedDb>>
      <3>1. ASSUME NEW r \in Requests, SendUserOperation(r)
            PROVE  up /\ UNCHANGED <<pendingDb, finalizedDb>>
        BY <3>1 DEF SendUserOperation, SendRefused, SendWithoutEffect, SendRequeue,
                    SendAwaitSimulation, SendAdmit, SimulationPassed, SimulationFailed, Checked,
                    Ready, mempoolVars
      <3>2. CASE TimePasses
        BY <3>2 DEF TimePasses, Ready
      <3> QED
        BY <1>4, <3>1, <3>2
    <2>2. MemHeld(h, t) /\ h \in Submitting
      BY <2>1 DEF Held, MemHeld, SubmittedIn
    <2>3. mem'[h] = mem[h]
      BY <1>4, <2>2, SubmittingStays
    <2> QED
      BY <1>1, <2>1, <2>2, <2>3, HeldUntouched DEF Held, RowHeld
  <1> QED
    BY <1>2, <1>3, <1>4 DEF Environment

\* A crash leaves the row on disk, and a restart finds it there, dated before
\* the new process: it is an orphan, or has its transaction.
LEMMA ProcessHeld ==
  ASSUME TypeOK, TimesPast, NEW t \in Txs, NEW h \in Hashes, RowHeld(h, t),
         CrashProcess \/ RestartProcess
  PROVE  Held(h, t)'
  <1>1. UNCHANGED <<pendingDb, finalizedDb>>
    BY DEF CrashProcess, RestartProcess, Crash, Restart
  <1>2. CASE CrashProcess
    BY <1>1, <1>2 DEF CrashProcess, Crash, Held, RowHeld
  <1>3. CASE RestartProcess
    <2>1. mem'[h] = pendingDb[h]
      BY <1>3 DEF RestartProcess, Restart, Durable, RowHeld
    <2>2. pendingDb[h].submissionStartedAt \in Nat /\ pendingDb[h].submissionStartedAt <= now
      BY DEF TimesPast, AllPast, StartedBy, TypeOK, StoredUserOperation
    <2>3. processStartedAt' = now + 1 /\ now \in Nat
      BY <1>3 DEF RestartProcess, Restart, Tick, TypeOK, ReputationTypeOK
    <2>4. ~Fresh(h)'
      BY <2>1, <2>2, <2>3 DEF Fresh
    <2>5. SubmittedIn(h, t)' \/ SubmittedIn(h, NoTx)'
      BY <2>1 DEF RowHeld, SubmittedIn, Submitting
    <2> QED
      BY <1>1, <2>4, <2>5 DEF Held, RowHeld, MemHeld
  <1> QED
    BY <1>2, <1>3

LEMMA HeldStep ==
  ASSUME FaithfulNode, TypeOK, Durability, TickSound, HoldsOwn, TimesPast, [Next]_vars,
         NEW t \in Txs, NEW h \in Hashes, tx[t].state \in {"waiting", "mined"}, Held(h, t)
  PROVE  Held(h, t)' \/ Concluded(h, t)
  <1>1. CASE SubmitterStep
    <2>1. up /\ UNCHANGED <<pendingDb, finalizedDb>>
      BY <1>1, SubmitterRows
    <2>2. MemHeld(h, t)' \/ Concluded(h, t)
      BY <1>1, <2>1, RecoveryHeld, ClaimHeld, ReturnHeld DEF SubmitterStep, Held
    <2> QED
      BY <2>1, <2>2 DEF Held, RowHeld
  <1>2. CASE Environment
    BY <1>2, EnvironmentHeld
  <1>3. CASE CrashProcess \/ RestartProcess
    BY <1>3, ProcessHeld DEF Held
  <1>4. CASE UNCHANGED vars
    BY <1>4 DEF vars, mempoolVars, submitterVars, tickVars, Held, RowHeld, MemHeld, SubmittedIn,
                Fresh, Untracked, Submitting
  <1> QED
    BY <1>1, <1>2, <1>3, <1>4 DEF Next

-----------------------------------------------------------------------------
(* No duplicates: the proof. *)

\* A broadcast sends claims of this process that are on disk as such.
LEMMA BroadcastWaiting ==
  ASSUME TypeOK, Durability, TickSound, TxShape, HoldsOwn, BroadcastTx,
         NEW t \in Txs, t = FreshTx, NEW h \in tx'[t].ops
  PROVE  Held(h, t)'
  <1>1. /\ Ready /\ up /\ pc = "send" /\ pc' = "sent" /\ Broadcast(claim) /\ claim \subseteq Hashes
        /\ current' = t
        /\ UNCHANGED <<mem, pendingDb, finalizedDb, claim, processStartedAt>>
    BY DEF BroadcastTx, Ready, mempoolVars, TickSound, TickType
  <1>2. h \in claim /\ h \in Hashes /\ Fresh(h)
    BY <1>1, BroadcastEffect DEF HoldsOwn
  <1>3. SubmittedIn(h, NoTx) /\ mem[h].state = "submitting" /\ mem[h].submissionTxHash = NoTx
    BY <1>2 DEF Fresh, Untracked, SubmittedIn, Submitting
  <1>4. pendingDb[h] = mem[h] /\ finalizedDb[h] = NoOperation
    BY <1>1, <1>2, <1>3, Settled DEF Open, OpenStates
  <1>5. \A u : SubmittedIn(h, u)' <=> SubmittedIn(h, u)
    BY <1>1, <1>2, SameClaim
  <1> QED
    BY <1>1, <1>2, <1>3, <1>4, <1>5 DEF Held, RowHeld, MemHeld

LEMMA NextWaiting ==
  ASSUME FaithfulNode, TypeOK, Durability, TickSound, TxShape, HoldsOwn, TimesPast, WaitingHeld,
         [Next]_vars
  PROVE  WaitingHeld'
  <1> SUFFICES ASSUME NEW t \in InState({"waiting"})', NEW h \in tx'[t].ops
               PROVE  Held(h, t)'
    BY DEF WaitingHeld
  <1>1. CASE BroadcastTx /\ t = FreshTx
    BY <1>1, BroadcastWaiting DEF InState
  <1>2. CASE ~(BroadcastTx /\ t = FreshTx)
    <2>1. t \in Txs /\ tx'[t].state = "waiting"
      BY DEF InState
    <2>2. tx[t].state = "waiting" /\ tx'[t].ops = tx[t].ops
      <3>1. CASE BroadcastTx
        <4>1. Broadcast(claim) /\ claim \subseteq Hashes
          BY <3>1 DEF BroadcastTx, TickSound, TickType
        <4> QED
          BY <1>2, <2>1, <3>1, <4>1, BroadcastEffect
      <3>2. CASE ChainStep \/ UNCHANGED chainVars
        BY <2>1, <3>2, ShrinkEffect DEF ChainShrinks
      <3> QED
        BY <3>1, <3>2, ChainCases
    <2>3. h \in Hashes /\ Held(h, t)
      BY <2>1, <2>2 DEF TxShape, WaitingHeld, InState
    <2> QED
      BY <2>1, <2>2, <2>3, HeldStep DEF Concluded, HasReceipt
  <1> QED
    BY <1>1, <1>2

\* What the simulation let pass is sent before any of it runs elsewhere.
LEMMA NextSendClean ==
  ASSUME FaithfulNode, TypeOK, TickSound, TxShape, HoldsOwn, WaitingHeld, SendClean, [Next]_vars
  PROVE  SendClean'
  <1> SUFFICES ASSUME pc' = "send"
               PROVE  claim' \cap Executed' = {}
    BY DEF SendClean
  <1>1. CASE SimulationSucceeds
    <2>1. Executable(claim) /\ claim' = claim /\ tx' = tx
      BY <1>1 DEF SimulationSucceeds, tickVars, chainVars
    <2>2. \A h : SameSlot(h, h)
      BY DEF SameSlot
    <2> QED
      BY <2>1, <2>2 DEF Executable, Executed, InState
  <1>2. CASE Environment \/ UNCHANGED vars
    <2>1. pc = "send" /\ claim' = claim
      BY <1>2 DEF Environment, submitterVars, tickVars, vars
    <2>2. up /\ claim \subseteq Hashes
      BY <2>1 DEF TickSound, ListsEmpty, TickType
    <2>3. ChainShrinks
      BY <1>2, ShrinkEffect DEF Environment, vars
    <2>4. \A h \in claim : h \notin Executed /\ ~Waits(h)
      BY <2>1, <2>2, FreshDoesNotWait DEF HoldsOwn, SendClean
    <2>5. \A h \in Executed' : h \in Executed \/ Waits(h)
      BY <2>3 DEF Executed, InState, Waits, ChainShrinks
    <2> QED
      BY <2>1, <2>4, <2>5
  <1>3. CASE CrashProcess \/ RestartProcess
    BY <1>3 DEF CrashProcess, RestartProcess, Restart, TickSound, ListsEmpty
  <1>4. CASE SubmitterStep /\ ~SimulationSucceeds
    BY <1>4 DEF SubmitterStep, StartTick, RecoverReceipt, RecoverLookup, FinalizeOne, FinalizeDone,
                NothingToClaim, ClaimNext, PackFails, PackDone, SimulationThrows, BroadcastTx,
                SendThrows, SendReturns, Confirm, NextSingle, EndTick, RpcThrows
  <1> QED
    BY <1>1, <1>2, <1>3, <1>4 DEF Next

LEMMA NextNoDuplicate ==
  ASSUME FaithfulNode, TypeOK, TickSound, TxShape, HoldsOwn, WaitingHeld, SendClean,
         NoDuplicateSubmission, [Next]_vars
  PROVE  NoDuplicateSubmission'
  <1>1. CASE ChainStep \/ UNCHANGED chainVars
    <2>1. ChainShrinks
      BY <1>1, ShrinkEffect
    <2> QED
      BY <2>1 DEF ChainShrinks, NoDuplicateSubmission, InState
  <1>2. CASE BroadcastTx
    <2>1. up /\ pc = "send" /\ Broadcast(claim) /\ claim \subseteq Hashes
      BY <1>2 DEF BroadcastTx, Ready, TickSound, TickType
    <2>2. /\ tx'[FreshTx].ops = claim
          /\ \A s \in Txs : s # FreshTx => tx'[s] = tx[s]
      BY <2>1, BroadcastEffect
    <2>3. \A h \in claim : h \notin Executed /\ ~Waits(h)
      BY <2>1, FreshDoesNotWait DEF HoldsOwn, SendClean
    <2>4. \A t \in InState({"waiting", "mined"}) : tx[t].ops \cap claim = {}
      BY <2>3 DEF Executed, InState, Waits
    <2>5. \A t \in InState({"waiting", "mined"})' :
            t # FreshTx => t \in InState({"waiting", "mined"}) /\ tx'[t] = tx[t]
      BY <2>2 DEF InState
    <2> QED
      BY <2>2, <2>4, <2>5 DEF NoDuplicateSubmission
  <1> QED
    BY <1>1, <1>2, ChainCases

LEMMA InitHeld ==
  Init => TxShape /\ HoldsOwn /\ TimesPast /\ WaitingHeld /\ SendClean /\ NoDuplicateSubmission
  <1> SUFFICES ASSUME Init
               PROVE  /\ TxShape /\ HoldsOwn /\ TimesPast /\ WaitingHeld /\ SendClean
                      /\ NoDuplicateSubmission
    OBVIOUS
  <1>1. TxShape /\ \A t \in Txs : tx[t].state = "unsent"
    BY DEF Init, ChainInit, Unsent, TxShape
  <1>2. HoldsOwn /\ SendClean
    BY DEF Init, HoldsOwn, SendClean
  <1>3. WaitingHeld /\ NoDuplicateSubmission
    BY <1>1 DEF InState, WaitingHeld, NoDuplicateSubmission
  <1>4. TimesPast
    BY DEF Init, MempoolInit, ReputationInit, NoOperation, NoTime, TimesPast, AllPast, StartedBy
  <1> QED
    BY <1>1, <1>2, <1>3, <1>4

LEMMA BundlerDurability ==
  ASSUME FiniteHashes, SequentialAdmission
  PROVE  Spec => [](TypeOK /\ Durability)
  BY BundlerRefinesMempool, DurabilityInvariant, PTL DEF RefinesMempool

\* No operation is in two transactions that wait or went through, wherever
\* crashes fall: recovery leaves alone what a stopped process may have sent
\* (submitter.ts:404-421), and releases only what the node does not know
\* (submitter.ts:464-486).
THEOREM NothingIsSentTwice ==
  ASSUME FiniteHashes, SequentialAdmission, FaithfulNode
  PROVE  Spec => []NoDuplicateSubmission
  <1> DEFINE Sound == /\ TxShape /\ HoldsOwn /\ TimesPast /\ WaitingHeld /\ SendClean
                      /\ NoDuplicateSubmission
  <1>1. Init => Sound
    BY InitHeld
  <1>2. TypeOK /\ Durability /\ TickSound /\ Sound /\ [Next]_vars => Sound'
    BY ChainEffect, NextOwn, NextPast, NextWaiting, NextSendClean, NextNoDuplicate
  <1>3. Sound => NoDuplicateSubmission
    OBVIOUS
  <1> HIDE DEF Sound
  <1> QED
    BY <1>1, <1>2, <1>3, BundlerDurability, TickInvariant, PTL DEF Spec

-----------------------------------------------------------------------------
(* Failures are real: the proof. *)

\* Retention has room for every operation: it forgets no result.  A result it
\* forgot could be reported again as the failure of a second submission.
NothingPruned == MaxFinalized = 0 \/ Cardinality(Hashes) <= MaxFinalized

LEMMA PruneIdle ==
  ASSUME FiniteHashes, NothingPruned, TypeOK, PruneFinalized
  PROVE  UNCHANGED <<mem, pendingDb, finalizedDb>>
  <1>1. Retained = {FinalizedRows}
    <2>1. CASE MaxFinalized = 0
      BY <2>1 DEF Retained
    <2>2. CASE Cardinality(Hashes) <= MaxFinalized
      <3>1. FinalizedRows \in SUBSET Hashes
        BY DEF FinalizedRows
      <3>2. Cardinality(FinalizedRows) <= Cardinality(Hashes)
        BY <3>1, FS_Subset DEF FiniteHashes
      <3>3. Cardinality(FinalizedRows) \in Nat /\ Cardinality(Hashes) \in Nat
        BY <3>1, FS_Subset, FS_CardinalityType DEF FiniteHashes
      <3> QED
        BY <2>2, <3>2, <3>3, MempoolAssumption DEF Retained
    <2> QED
      BY <2>1, <2>2 DEF NothingPruned
  <1>2. /\ mem' = [h \in Hashes |-> mem[h]]
        /\ finalizedDb' = [h \in Hashes |-> finalizedDb[h]] /\ pendingDb' = pendingDb
    BY <1>1 DEF PruneFinalized
  <1> QED
    BY <1>2 DEF TypeOK

\* A reported inclusion stays one, and its row becomes the finalized one.
LEMMA StatementReported ==
  ASSUME FiniteHashes, NothingPruned, TypeOK, Durability, ExecuteStatement,
         NEW t \in Txs, NEW h \in Hashes, Reported(h, t)
  PROVE  Reported(h, t)'
  <1>1. up
    BY OpenStays
  <1>2. mem[h].state = "included" /\ ~Open(h) /\ Final(h)
    BY <1>1 DEF Reported, Open, OpenStates, Final, FinalStates
  <1> USE DEF Reported, RowHeld, TypeOK
  <1>3. ASSUME NEW g \in Hashes, SavePending(g) \/ DeleteFinalized(g)
        PROVE  Reported(h, t)'
    <2>1. g # h /\ mem' = mem
      BY <1>2, <1>3 DEF SavePending, DeleteFinalized, Executes, Durability, TailSound
    <2> QED
      BY <1>2, <1>3, <2>1 DEF SavePending, DeleteFinalized
  <1>4. ASSUME NEW g \in Hashes, MarkSubmitting(g)
        PROVE  Reported(h, t)'
    <2>1. mem[g] = AsSubmitting(pendingDb[g], mem[g].submissionStartedAt)
      BY <1>4 DEF MarkSubmitting, Executes, Durability, TailSound
    <2>2. pendingDb[g] \in StoredUserOperation /\ mem[g].submissionStartedAt \in Nat
      BY DEF StoredUserOperation
    <2>3. mem[g].state = "submitting"
      BY <2>1, <2>2, SubmittingColumns
    <2> QED
      BY <1>2, <1>4, <2>3 DEF MarkSubmitting
  <1>5. ASSUME NEW g \in Hashes, MarkPending(g)
        PROVE  Reported(h, t)'
    <2>1. mem[g] = AsPending(pendingDb[g])
      BY <1>5 DEF MarkPending, Executes, Durability, TailSound
    <2>2. mem[g].state = "pending"
      BY <2>1, ReleasedColumns
    <2> QED
      BY <1>2, <1>5, <2>2 DEF MarkPending
  <1>6. ASSUME NEW g \in Hashes, SaveFinalized(g)
        PROVE  Reported(h, t)'
    BY <1>2, <1>6 DEF SaveFinalized
  <1>7. ASSUME NEW g \in Hashes, RemovePending(g)
        PROVE  Reported(h, t)'
    <2>1. g = h => finalizedDb[h] = mem[h]
      BY <1>2, <1>7 DEF RemovePending, Executes, Durability, FinalKept, Due
    <2> QED
      BY <1>2, <1>7, <2>1 DEF RemovePending
  <1>8. CASE RecordTx
    <2>1. h \notin tail.ops
      <3> SUFFICES ASSUME h \in tail.ops
                   PROVE  FALSE
        OBVIOUS
      <3>1. mem[h] = WithTx(pendingDb[h], mem[h].submissionTxHash)
        BY <1>8 DEF RecordTx, Durability, TailSound
      <3>2. pendingDb[h] \in StoredUserOperation /\ mem[h].submissionTxHash \in Txs \cup {NoTx}
        BY DEF StoredUserOperation
      <3>3. mem[h].state = "submitting"
        BY <3>1, <3>2, RecordedColumns
      <3> QED
        BY <1>2, <3>3
    <2> QED
      BY <1>2, <1>8, <2>1 DEF RecordTx
  <1>9. CASE PruneFinalized
    BY <1>2, <1>9, PruneIdle
  <1> QED
    BY <1>3, <1>4, <1>5, <1>6, <1>7, <1>8, <1>9 DEF ExecuteStatement

LEMMA ReportedStep ==
  ASSUME FiniteHashes, NothingPruned, SequentialAdmission, TypeOK, Durability,
         [MempoolNext]_mempoolVars, NEW t \in Txs, NEW h \in Hashes, Reported(h, t),
         up \/ finalizedDb[h].state = "included"
  PROVE  Reported(h, t)'
  <1> USE DEF Reported, RowHeld
  <1>1. CASE \/ CallerStep \/ TimePasses
             \/ \E r \in Requests : SendUserOperation(r)
    <2>1. up /\ UNCHANGED <<pendingDb, finalizedDb>>
      <3>1. ASSUME NEW r \in Requests, SendUserOperation(r)
            PROVE  up /\ UNCHANGED <<pendingDb, finalizedDb>>
        BY <3>1 DEF SendUserOperation, SendRefused, SendWithoutEffect, SendRequeue,
                    SendAwaitSimulation, SendAdmit, SimulationPassed, SimulationFailed, Checked,
                    Ready, mempoolVars
      <3>2. CASE CallerStep
        BY <3>2 DEF CallerStep, Claim, Release, RecordTransactionHash, MarkUserOperationFailed,
                    FinalizeUserOperation, Ready
      <3>3. CASE TimePasses
        BY <3>3 DEF TimePasses, Ready
      <3> QED
        BY <1>1, <3>1, <3>2, <3>3
    <2>2. mem[h].state = "included" /\ ~Open(h)
      BY <2>1 DEF Open, OpenStates
    <2>3. mem'[h] = mem[h]
      <3>1. ASSUME NEW r \in Requests, SendUserOperation(r)
            PROVE  mem'[h] = mem[h]
        <4>1. request[r] # NoHash => request[r] # h
          BY <2>2 DEF Durability, SimulatedUnknown
        <4> QED
          BY <2>2, <3>1, <4>1
          DEF SendUserOperation, SendRefused, SendWithoutEffect, SendRequeue, SendAwaitSimulation,
              SendAdmit, SimulationPassed, SimulationFailed, Admit, mempoolVars, TypeOK
      <3>2. CASE CallerStep
        BY <2>2, <3>2
        DEF CallerStep, Claimable, Claim, Pending, Release, Submitting, RecordTransactionHash,
            MarkUserOperationFailed, FinalizeUserOperation, Open, OpenStates, TypeOK
      <3>3. CASE TimePasses
        BY <3>3 DEF TimePasses
      <3> QED
        BY <1>1, <3>1, <3>2, <3>3
    <2> QED
      BY <2>1, <2>2, <2>3
  <1>2. CASE ExecuteStatement
    BY <1>2, StatementReported
  <1>3. CASE Crash
    BY <1>3 DEF Crash
  <1>4. CASE Restart
    <2>1. mem'[h] = finalizedDb[h]
      BY <1>4 DEF Restart, Durable, NoOperation
    <2> QED
      BY <1>4, <2>1 DEF Restart
  <1>5. CASE UNCHANGED mempoolVars
    BY <1>5 DEF mempoolVars
  <1> QED
    BY <1>1, <1>2, <1>3, <1>4, <1>5 DEF MempoolNext

LEMMA NextResult ==
  ASSUME FiniteHashes, SequentialAdmission, NothingPruned, FaithfulNode,
         TypeOK, Durability, TickSound, TxShape, HoldsOwn, TimesPast, WaitingHeld, ResultHeld,
         [Next]_vars
  PROVE  ResultHeld'
  <1> SUFFICES ASSUME NEW t \in InState({"mined"})', NEW h \in tx'[t].succeeded
               PROVE  h \in Hashes /\ (Held(h, t)' \/ Reported(h, t)')
    BY DEF ResultHeld
  <1>1. t \in Txs /\ tx'[t].state = "mined"
    BY DEF InState
  <1>2. CASE tx[t].state = "mined"
    <2>1. tx'[t] = tx[t] /\ h \in tx[t].succeeded
      BY <1>1, <1>2, ChainEffect DEF MinedStays, InState
    <2>2. h \in Hashes /\ (Held(h, t) \/ Reported(h, t))
      BY <1>1, <1>2, <2>1 DEF ResultHeld, InState
    <2>3. CASE Held(h, t)
      <3>1. CASE Concluded(h, t)
        <4>1. FinalizeUserOperation(h, t, TRUE) /\ up
          BY <1>2, <2>1, <3>1 DEF Concluded, FinalizeUserOperation, Ready
        <4>2. UNCHANGED <<pendingDb, finalizedDb>> /\ mem'[h] = AsFinal(mem[h], "included", t)
          BY <2>2, <4>1 DEF FinalizeUserOperation, TypeOK
        <4>3. mem'[h].state = "included"
          BY <2>2, <4>2 DEF AsFinal, TypeOK, StoredUserOperation
        <4> QED
          BY <2>2, <2>3, <4>2, <4>3 DEF Held, RowHeld, Reported
      <3>2. CASE ~Concluded(h, t)
        BY <1>1, <1>2, <2>2, <2>3, <3>2, HeldStep
      <3> QED
        BY <3>1, <3>2
    <2>4. CASE ~Held(h, t)
      <3>1. Reported(h, t) /\ (up \/ finalizedDb[h].state = "included")
        BY <2>2, <2>4 DEF Reported, Held
      <3>2. [MempoolNext]_mempoolVars
        BY BundlerIsMempool
      <3> QED
        BY <1>1, <2>2, <3>1, <3>2, ReportedStep
    <2> QED
      BY <2>3, <2>4
  <1>3. CASE tx[t].state # "mined"
    <2>1. tx[t].state = "waiting" /\ h \in tx[t].ops
      <3>1. CASE BroadcastTx
        <4>1. Broadcast(claim) /\ claim \subseteq Hashes
          BY <3>1 DEF BroadcastTx, TickSound, TickType
        <4> QED
          BY <1>1, <1>3, <4>1, BroadcastEffect
      <3>2. ASSUME NEW s \in Txs, Mine(s)
            PROVE  tx[t].state = "waiting" /\ h \in tx[t].ops
        <4>1. s = t
          BY <1>1, <1>3, <3>2, MineEffect
        <4> QED
          BY <3>2, <4>1, MineEffect DEF Mine, Minable, FaithfulNode
      <3>3. ASSUME NEW s \in Txs, Revert(s) \/ Drop(s)
            PROVE  FALSE
        BY <1>1, <1>3, <3>3, EndEffect
      <3>4. CASE UNCHANGED chainVars
        BY <1>1, <1>3, <3>4 DEF chainVars
      <3> QED
        BY <3>1, <3>2, <3>3, <3>4, ChainCases DEF ChainStep
    <2>2. h \in Hashes /\ Held(h, t)
      BY <1>1, <2>1 DEF TxShape, WaitingHeld, InState
    <2> QED
      BY <1>1, <2>1, <2>2, HeldStep DEF Concluded, HasReceipt
  <1> QED
    BY <1>2, <1>3

LEMMA HeldIsNoFailure ==
  ASSUME TypeOK, Durability, TxShape, WaitingHeld, ResultHeld
  PROVE  FailureSound
  <1> SUFFICES ASSUME NEW h \in Hashes, mem[h].state = "failed"
               PROVE  /\ h \notin Succeeded
                      /\ \A t \in InState({"waiting"}) : h \notin tx[t].ops
    BY DEF FailureSound
  <1>1. up
    BY DEF Durability, DownIdle, NoOperation
  <1>2. \A t : ~Held(h, t) /\ ~Reported(h, t)
    BY <1>1 DEF Held, MemHeld, SubmittedIn, Submitting, Reported
  <1> QED
    BY <1>2 DEF WaitingHeld, ResultHeld, Succeeded

\* An operation reported failed has not run, and cannot run any more: where
\* the process stops between the broadcast, the receipt and the result, the
\* claim survives and ends with what the chain says (submitter.ts:464-486 and
\* 639-668).
THEOREM FailuresAreReal ==
  ASSUME FiniteHashes, SequentialAdmission, FaithfulNode, NothingPruned
  PROVE  Spec => []FailureSound
  <1> DEFINE Sound == /\ TxShape /\ HoldsOwn /\ TimesPast /\ WaitingHeld /\ ResultHeld
  <1>1. Init => Sound
    <2>1. Init => ResultHeld
      BY DEF Init, ChainInit, Unsent, InState, ResultHeld
    <2> QED
      BY <2>1, InitHeld
  <1>2. TypeOK /\ Durability /\ TickSound /\ Sound /\ [Next]_vars => Sound'
    BY ChainEffect, NextOwn, NextPast, NextWaiting, NextResult
  <1>3. TypeOK /\ Durability /\ Sound => FailureSound
    BY HeldIsNoFailure
  <1> HIDE DEF Sound
  <1> QED
    BY <1>1, <1>2, <1>3, BundlerDurability, TickInvariant, PTL DEF Spec

-----------------------------------------------------------------------------
(* The in-flight limit: the proof. *)

\* The limit is that of one process: claims it leaves without a transaction
\* are not counted by the next one.
NoCrash == MaxCrashes = 0

FirstProcess == up /\ processStartedAt = 1

\* A bundle that is sent is not empty, and there is room for it when it is.
SendsInTurn ==
  /\ pc \in {"simulate", "send", "sent"} => claim # {}
  /\ pc \in {"packing", "simulate", "send", "sent"} => ~InflightFull
  /\ \A t \in InState({"waiting"}) : tx[t].ops # {}

InflightCounted == Cardinality(InflightTransactions) <= MaxInflight

\* No operation comes to be tracked.
TracksNoMore ==
  \A h \in Hashes : \/ mem'[h] = mem[h] \/ mem'[h].state # "submitting"
                    \/ mem'[h].submissionTxHash = NoTx

LEMMA InflightFinite ==
  ASSUME FiniteHashes
  PROVE  IsFiniteSet(InflightTransactions) /\ Cardinality(InflightTransactions) \in Nat
  <1> DEFINE f == [h \in Tracked |-> mem[h].submissionTxHash]
  <1>1. IsFiniteSet(Tracked)
    BY FS_Subset DEF FiniteHashes, Tracked, Submitting
  <1>2. f \in Surjection(Tracked, InflightTransactions)
    BY DEF Surjection, InflightTransactions
  <1> HIDE DEF f
  <1> QED
    BY <1>1, <1>2, FS_Surjection, FS_CardinalityType

LEMMA FewerInflight ==
  ASSUME FiniteHashes, TracksNoMore
  PROVE  /\ InflightTransactions' \subseteq InflightTransactions
         /\ Cardinality(InflightTransactions') \in Nat
         /\ Cardinality(InflightTransactions') <= Cardinality(InflightTransactions)
  <1>1. ASSUME NEW h \in Tracked'
        PROVE  h \in Tracked /\ mem'[h] = mem[h]
    BY DEF TracksNoMore, Tracked, Untracked, Submitting
  <1>2. InflightTransactions' \subseteq InflightTransactions
    BY <1>1 DEF InflightTransactions
  <1> QED
    BY <1>2, InflightFinite, FS_Subset, FS_CardinalityType

LEMMA StepTracks ==
  ASSUME NoCrash, FirstProcess, TypeOK, Durability, [Next]_vars, ~SendReturns
  PROVE  TracksNoMore
  <1> USE DEF TypeOK
  <1>1. \A h \in Hashes : mem[h] \in StoredUserOperation
    OBVIOUS
  <1>2. ASSUME NEW S, Claim(S) \/ Release(S)
        PROVE  TracksNoMore
    <2>1. \A h \in Hashes : /\ AsSubmitting(mem[h], now).submissionTxHash = NoTx
                            /\ AsPending(mem[h]).submissionTxHash = NoTx
      BY DEF AsSubmitting, AsPending, StoredUserOperation
    <2> QED
      BY <1>2, <2>1 DEF Claim, Release, TracksNoMore
  <1>3. ASSUME NEW g, NEW t, NEW ok, MarkUserOperationFailed(g) \/ FinalizeUserOperation(g, t, ok)
        PROVE  TracksNoMore
    <2>1. \A h \in Hashes : \A state, u : AsFinal(mem[h], state, u).submissionTxHash = NoTx
      BY DEF AsFinal, StoredUserOperation
    <2>2. \E state, u : mem' = [mem EXCEPT ![g] = AsFinal(mem[g], state, u)]
      BY <1>3 DEF MarkUserOperationFailed, FinalizeUserOperation
    <2> QED
      BY <2>1, <2>2 DEF TracksNoMore
  <1>4. CASE mem' = mem
    BY <1>4 DEF TracksNoMore
  <1>5. CASE SubmitterStep
    BY <1>2, <1>3, <1>4, <1>5
    DEF SubmitterStep, StartTick, RecoverReceipt, RecoverLookup, FinalizeOne, FinalizeDone,
        NothingToClaim, ClaimNext, PackFails, PackDone, SimulationSucceeds, SimulationThrows,
        BroadcastTx, SendThrows, Confirm, NextSingle, EndTick, RpcThrows, mempoolVars
  <1>6. CASE Environment
    <2>1. ASSUME NEW r \in Requests, SendUserOperation(r)
          PROVE  TracksNoMore
      <3>1. \/ UNCHANGED mem
            \/ \E h \in Hashes, c \in BOOLEAN : mem' = [mem EXCEPT ![h] = PendingOperation(c)]
        BY <2>1 DEF SendUserOperation, SendRefused, SendWithoutEffect, SendRequeue,
             SendAwaitSimulation, SendAdmit, SimulationPassed, SimulationFailed, mempoolVars, Admit
      <3> QED
        BY <3>1, PendingColumns DEF TracksNoMore
    <2>2. CASE ExecuteStatement
      <3>1. \A h \in Hashes : mem'[h] = mem[h] \/ mem'[h] = NoOperation
        <4>1. CASE PruneFinalized
          BY <4>1 DEF PruneFinalized
        <4>2. CASE RecordTx
          BY <4>2 DEF RecordTx
        <4>3. ASSUME NEW g \in Hashes, SavePending(g) \/ MarkSubmitting(g) \/ MarkPending(g)
              PROVE  mem' = mem
          BY <4>3 DEF SavePending, MarkSubmitting, MarkPending
        <4>4. ASSUME NEW g \in Hashes, DeleteFinalized(g) \/ SaveFinalized(g) \/ RemovePending(g)
              PROVE  mem' = mem
          BY <4>4 DEF DeleteFinalized, SaveFinalized, RemovePending
        <4> QED
          BY <2>2, <4>1, <4>2, <4>3, <4>4 DEF ExecuteStatement
      <3> QED
        BY <3>1 DEF TracksNoMore, NoOperation
    <2> QED
      BY <1>4, <1>6, <2>1, <2>2 DEF Environment, TimePasses, mempoolVars
  <1>7. ~CrashProcess /\ ~RestartProcess
    BY MempoolAssumption DEF NoCrash, FirstProcess, CrashProcess, Crash, RestartProcess, Restart
  <1>8. CASE UNCHANGED vars
    BY <1>4, <1>8 DEF vars, mempoolVars
  <1> QED
    BY <1>5, <1>6, <1>7, <1>8 DEF Next

LEMMA NextFirst ==
  ASSUME NoCrash, FirstProcess, TypeOK, [Next]_vars
  PROVE  FirstProcess'
  <1>1. CASE SubmitterStep
    BY <1>1
    DEF SubmitterStep, StartTick, RecoverReceipt, RecoverLookup, FinalizeOne, FinalizeDone,
        NothingToClaim, ClaimNext, PackFails, PackDone, SimulationSucceeds, SimulationThrows,
        BroadcastTx, SendThrows, SendReturns, Confirm, NextSingle, EndTick, RpcThrows, FirstProcess,
        Claim, Release, RecordTransactionHash, MarkUserOperationFailed, FinalizeUserOperation,
        mempoolVars
  <1>2. CASE Environment
    BY <1>2, OpenStays DEF Environment, FirstProcess, submitterVars, mempoolVars
  <1>3. ~CrashProcess /\ ~RestartProcess
    BY MempoolAssumption DEF NoCrash, FirstProcess, CrashProcess, Crash, RestartProcess, Restart,
                             TypeOK
  <1>4. CASE UNCHANGED vars
    BY <1>4 DEF vars, mempoolVars, submitterVars, FirstProcess
  <1> QED
    BY <1>1, <1>2, <1>3, <1>4 DEF Next

LEMMA NextInTurn ==
  ASSUME FiniteHashes, NoCrash, FirstProcess, TypeOK, Durability, TickSound, TxShape, SendsInTurn,
         [Next]_vars
  PROVE  SendsInTurn'
  <1>1. pc' \in {"simulate", "send", "sent"} => claim' # {}
    <2>1. CASE PackDone \/ NextSingle
      BY <2>1 DEF PackDone, NextSingle, tickVars
    <2>2. CASE SimulationSucceeds \/ BroadcastTx
      BY <2>2 DEF SimulationSucceeds, BroadcastTx, tickVars, SendsInTurn
    <2>3. CASE SubmitterStep /\ ~(PackDone \/ NextSingle \/ SimulationSucceeds \/ BroadcastTx)
      BY <2>3 DEF SubmitterStep, StartTick, RecoverReceipt, RecoverLookup, FinalizeOne,
           FinalizeDone, NothingToClaim, ClaimNext, PackFails, SimulationThrows, SendThrows,
           SendReturns, Confirm, EndTick, RpcThrows
    <2>4. CASE Environment \/ UNCHANGED vars
      BY <2>4 DEF Environment, vars, submitterVars, tickVars, SendsInTurn
    <2>5. CASE CrashProcess \/ RestartProcess
      BY <2>5 DEF CrashProcess, RestartProcess, Restart, FirstProcess
    <2> QED
      BY <2>1, <2>2, <2>3, <2>4, <2>5 DEF Next
  <1>2. ASSUME pc' \in {"packing", "simulate", "send", "sent"}
        PROVE  ~InflightFull'
    <2>1. ~InflightFull /\ ~SendReturns
      <3>1. CASE ClaimNext \/ NextSingle
        BY <3>1 DEF ClaimNext, NextSingle, SendReturns
      <3>2. CASE PackFails \/ PackDone \/ SimulationSucceeds \/ BroadcastTx
        BY <3>2 DEF PackFails, PackDone, SimulationSucceeds, BroadcastTx, SendReturns, SendsInTurn
      <3>3. CASE SubmitterStep /\ ~(\/ ClaimNext \/ NextSingle \/ PackFails \/ PackDone
                                    \/ SimulationSucceeds \/ BroadcastTx)
        BY <1>2, <3>3 DEF SubmitterStep, StartTick, RecoverReceipt, RecoverLookup, FinalizeOne,
             FinalizeDone, NothingToClaim, SimulationThrows, SendThrows, SendReturns, Confirm,
             EndTick, RpcThrows
      <3>4. CASE Environment \/ UNCHANGED vars
        BY <1>2, <3>4 DEF Environment, vars, submitterVars, SendsInTurn, SendReturns
      <3>5. CASE CrashProcess \/ RestartProcess
        BY <1>2, <3>5 DEF CrashProcess, RestartProcess, Restart, FirstProcess
      <3> QED
        BY <3>1, <3>2, <3>3, <3>4, <3>5 DEF Next
    <2>2. Cardinality(InflightTransactions') <= Cardinality(InflightTransactions)
          /\ Cardinality(InflightTransactions') \in Nat
          /\ Cardinality(InflightTransactions) \in Nat
      BY <2>1, StepTracks, FewerInflight, InflightFinite
    <2> QED
      BY <2>1, <2>2, SubmitterAssumption DEF InflightFull
  <1>3. \A t \in InState({"waiting"})' : tx'[t].ops # {}
    <2>1. ASSUME NEW s \in Txs, Mine(s)
          PROVE  \A t \in Txs : tx'[t].state = "waiting" => tx'[t] = tx[t]
      BY <2>1, MineEffect
    <2>2. ASSUME NEW s \in Txs, Revert(s) \/ Drop(s)
          PROVE  \A t \in Txs : tx'[t].state = "waiting" => tx'[t] = tx[t]
      BY <2>2, EndEffect
    <2>3. CASE BroadcastTx
      <3>1. Broadcast(claim) /\ claim \subseteq Hashes /\ claim # {}
        BY <2>3 DEF BroadcastTx, TickSound, TickType, SendsInTurn
      <3>2. \A t \in Txs : tx'[t].ops = claim \/ tx'[t] = tx[t]
        BY <3>1, BroadcastEffect
      <3> QED
        BY <3>1, <3>2 DEF SendsInTurn, InState
    <2>4. CASE UNCHANGED chainVars
      BY <2>4 DEF chainVars, SendsInTurn, InState
    <2>5. CASE ChainStep
      BY <2>1, <2>2, <2>5 DEF ChainStep, SendsInTurn, InState
    <2> QED
      BY <2>3, <2>4, <2>5, ChainCases
  <1> QED
    BY <1>1, <1>2, <1>3 DEF SendsInTurn

LEMMA NextCounted ==
  ASSUME FiniteHashes, NoCrash, FirstProcess, TypeOK, Durability, TickSound, SendsInTurn,
         InflightCounted, [Next]_vars
  PROVE  InflightCounted'
  <1>1. CASE ~SendReturns
    <2>1. /\ Cardinality(InflightTransactions') <= Cardinality(InflightTransactions)
          /\ Cardinality(InflightTransactions') \in Nat
          /\ Cardinality(InflightTransactions) \in Nat
      BY <1>1, StepTracks, FewerInflight, InflightFinite
    <2> QED
      BY <2>1, SubmitterAssumption DEF InflightCounted
  <1>2. CASE SendReturns
    <2>1. /\ pc = "sent" /\ RecordTransactionHash(claim, current)
          /\ ~InflightFull /\ claim \subseteq Hashes
      BY <1>2 DEF SendReturns, SendsInTurn, TickSound, TickType
    <2>2. InflightTransactions' \subseteq InflightTransactions \cup {current}
      <3> SUFFICES ASSUME NEW h \in Tracked'
                   PROVE  mem'[h].submissionTxHash \in InflightTransactions \cup {current}
        BY DEF InflightTransactions
      <3>1. h \in Hashes
        BY DEF Tracked, Submitting
      <3>2. CASE h \in claim \cap Submitting
        BY <2>1, <3>2, CallsTouch DEF SubmittedIn
      <3>3. CASE h \notin claim \cap Submitting
        <4>1. mem'[h] = mem[h]
          BY <2>1, <3>1, <3>3 DEF RecordTransactionHash
        <4> QED
          BY <3>1, <4>1 DEF InflightTransactions, Tracked, Untracked, Submitting
      <3> QED
        BY <3>2, <3>3
    <2>3. /\ IsFiniteSet(InflightTransactions) /\ Cardinality(InflightTransactions) \in Nat
          /\ IsFiniteSet(InflightTransactions \cup {current})
          /\ Cardinality(InflightTransactions \cup {current})
               <= Cardinality(InflightTransactions) + 1
      BY InflightFinite, FS_AddElement
    <2>4. Cardinality(InflightTransactions') <= Cardinality(InflightTransactions \cup {current})
          /\ Cardinality(InflightTransactions') \in Nat
          /\ Cardinality(InflightTransactions \cup {current}) \in Nat
      BY <2>2, <2>3, FS_Subset, FS_CardinalityType
    <2> QED
      BY <2>1, <2>3, <2>4, SubmitterAssumption DEF InflightFull, InflightCounted
  <1> QED
    BY <1>1, <1>2

\* What waits is counted, or is what the tick has just sent.
LEMMA CountedIsBounded ==
  ASSUME FiniteHashes, FirstProcess, TypeOK, Durability, TxShape, WaitingHeld, SendsInTurn,
         InflightCounted
  PROVE  InflightBounded
  <1>1. ASSUME NEW t \in InState({"waiting"})
        PROVE  t \in InflightTransactions \/ (pc = "sent" /\ t = current)
    <2>1. PICK h \in tx[t].ops : MemHeld(h, t)
      BY DEF SendsInTurn, WaitingHeld, Held, FirstProcess
    <2>2. h \in Hashes /\ h \in Submitting /\ t \in Txs
      BY <2>1 DEF TxShape, InState, MemHeld, SubmittedIn
    <2>3. CASE SubmittedIn(h, t)
      BY <2>2, <2>3, NoTxAssumption DEF SubmittedIn, InflightTransactions, Tracked, Untracked
    <2>4. CASE SubmittedIn(h, NoTx) /\ ~Fresh(h)
      <3>1. mem[h].submissionStartedAt \in Nat \ {0}
        BY <2>2 DEF Durability, RowsSound, MayBe, Submitting, NoTime, TypeOK, StoredUserOperation
      <3>2. Fresh(h)
        BY <2>2, <2>4, <3>1 DEF Fresh, Untracked, SubmittedIn, FirstProcess
      <3> QED
        BY <2>4, <3>2
    <2> QED
      BY <2>1, <2>3, <2>4 DEF MemHeld
  <1>2. IsFiniteSet(InflightTransactions) /\ Cardinality(InflightTransactions) \in Nat
    BY InflightFinite
  <1>3. CASE pc = "sent"
    <2>1. InState({"waiting"}) \subseteq InflightTransactions \cup {current}
      BY <1>1
    <2>2. /\ IsFiniteSet(InflightTransactions \cup {current})
          /\ Cardinality(InflightTransactions \cup {current})
               <= Cardinality(InflightTransactions) + 1
      <3>1. /\ IsFiniteSet(InflightTransactions \cup {current})
            /\ Cardinality(InflightTransactions \cup {current}) =
                 IF current \in InflightTransactions THEN Cardinality(InflightTransactions)
                 ELSE Cardinality(InflightTransactions) + 1
        BY <1>2, FS_AddElement, Zenon
      <3> QED
        BY <1>2, <3>1
    <2>3. /\ Cardinality(InState({"waiting"})) <= Cardinality(InflightTransactions \cup {current})
          /\ Cardinality(InState({"waiting"})) \in Nat
          /\ Cardinality(InflightTransactions \cup {current}) \in Nat
      BY <2>1, <2>2, FS_Subset, FS_CardinalityType
    <2>4. ~InflightFull
      BY <1>3 DEF SendsInTurn
    <2> QED
      BY <1>2, <2>2, <2>3, <2>4, SubmitterAssumption DEF InflightFull, InflightBounded
  <1>4. CASE pc # "sent"
    <2>1. InState({"waiting"}) \subseteq InflightTransactions
      BY <1>1, <1>4
    <2>2. /\ Cardinality(InState({"waiting"})) <= Cardinality(InflightTransactions)
          /\ Cardinality(InState({"waiting"})) \in Nat
      BY <1>2, <2>1, FS_Subset, FS_CardinalityType
    <2> QED
      BY <1>2, <2>2, SubmitterAssumption DEF InflightCounted, InflightBounded
  <1> QED
    BY <1>3, <1>4

\* As long as the process runs, no more transactions wait than the limit
\* allows: it is checked before each claim and before each operation of a
\* failed bundle (submitter.ts:370-375 and 555-564), and nothing else sends.
THEOREM InflightIsBounded ==
  ASSUME FiniteHashes, SequentialAdmission, FaithfulNode, NoCrash
  PROVE  Spec => []InflightBounded
  <1> DEFINE Sound == /\ TxShape /\ HoldsOwn /\ TimesPast /\ WaitingHeld
                      /\ FirstProcess /\ SendsInTurn /\ InflightCounted
  <1>1. Init => Sound
    <2> SUFFICES ASSUME Init
                 PROVE  Sound
      OBVIOUS
    <2>1. FirstProcess /\ SendsInTurn
      BY DEF Init, MempoolInit, ChainInit, Unsent, InState, FirstProcess, SendsInTurn
    <2>2. InflightTransactions = {}
      BY DEF Init, MempoolInit, NoOperation, InflightTransactions, Tracked, Submitting
    <2>3. InflightCounted
      BY <2>2, FS_EmptySet, SubmitterAssumption DEF InflightCounted
    <2> QED
      BY <2>1, <2>3, InitHeld
  <1>2. TypeOK /\ Durability /\ TickSound /\ Sound /\ [Next]_vars => Sound'
    BY ChainEffect, NextOwn, NextPast, NextWaiting, NextFirst, NextInTurn, NextCounted
  <1>3. TypeOK /\ Durability /\ Sound => InflightBounded
    BY CountedIsBounded
  <1> HIDE DEF Sound
  <1> QED
    BY <1>1, <1>2, <1>3, BundlerDurability, TickInvariant, PTL DEF Spec

-----------------------------------------------------------------------------
(* Orphans: the proof. *)

\* Only a claim of another process, and one without a transaction, is one.
LEMMA OrphanIsNobodys ==
  ASSUME TypeOK, Durability, TimesPast, NEW h \in Orphaned
  PROVE  /\ h \in Hashes /\ h \in Submitting /\ up
         /\ ~Fresh(h) /\ \A t \in Txs : ~SubmittedIn(h, t)
  <1>1. h \in Untracked /\ h \in Hashes /\ h \in Submitting /\ mem[h].state = "submitting"
    BY DEF Orphaned, Untracked, Submitting
  <1>2. up
    BY <1>1 DEF Durability, DownIdle, NoOperation
  <1>3. \A t \in Txs : ~SubmittedIn(h, t)
    BY <1>1, NoTxAssumption DEF Untracked, SubmittedIn
  <1>4. mem[h].submissionStartedAt # NoTime
    BY <1>1 DEF Durability, RowsSound, MayBe
  <1>5. mem[h].submissionStartedAt < processStartedAt
    BY <1>4 DEF Orphaned
  <1>6. mem[h].submissionStartedAt \in Nat /\ processStartedAt \in Nat
    BY <1>1 DEF TypeOK, StoredUserOperation, TimesPast
  <1>7. ~Fresh(h)
    BY <1>5, <1>6 DEF Fresh
  <1> QED
    BY <1>1, <1>2, <1>3, <1>7

LEMMA SubmitterSparesOrphans ==
  ASSUME TypeOK, Durability, TickSound, HoldsOwn, TimesPast, SubmitterStep, NEW h \in Orphaned
  PROVE  mem'[h] = mem[h]
  <1> USE DEF TickSound, TickType
  <1>1. /\ h \in Hashes /\ h \in Submitting /\ mem[h].state = "submitting"
        /\ ~Fresh(h) /\ \A t \in Txs : ~SubmittedIn(h, t)
    BY OrphanIsNobodys DEF Submitting
  <1>2. CASE StartTick
    <2>1. Release(StaleUntracked) /\ h \notin StaleUntracked
      BY <1>2 DEF StartTick, StaleUntracked
    <2> QED
      BY <1>1, <2>1, CallsTouch
  <1>3. CASE RecoverLookup
    <2>1. /\ Release(IF ~Found(current) /\ TimedOut(current) THEN GroupOps(current) ELSE {})
          /\ current \in Txs
      BY <1>3 DEF RecoverLookup, InTransaction
    <2>2. h \notin GroupOps(current)
      BY <1>1, <2>1 DEF GroupOps, Group, HoldsOwn
    <2>3. h \notin (IF ~Found(current) /\ TimedOut(current) THEN GroupOps(current) ELSE {})
      BY <2>2
    <2> QED
      BY <1>1, <2>1, <2>3, CallsTouch
  <1>4. CASE FinalizeOne
    <2>1. PICK g \in claim : \E ok : FinalizeUserOperation(g, current, ok)
      BY <1>4 DEF FinalizeOne
    <2>2. pc \in {"finalizeRecovered", "finalizeConfirmed"} /\ current \in Txs
      BY <1>4 DEF FinalizeOne, InTransaction
    <2>3. g # h
      BY <1>1, <2>1, <2>2 DEF HoldsOwn
    <2> QED
      BY <1>1, <2>1, <2>3, CallsTouch
  <1>5. CASE ClaimNext
    <2>1. PICK S \in Claimable(MaxOperationsPerBundle) : Claim(S)
      BY <1>5 DEF ClaimNext
    <2>2. h \notin S
      BY <1>1 DEF Claimable, Pending
    <2> QED
      BY <1>1, <2>1, <2>2, CallsTouch
  <1>6. CASE SendReturns
    <2>1. pc = "sent" /\ RecordTransactionHash(claim, current)
      BY <1>6 DEF SendReturns
    <2>2. h \notin claim
      BY <1>1, <2>1 DEF HoldsOwn
    <2> QED
      BY <1>1, <2>1, <2>2, CallsTouch
  <1>7. CASE SendThrows
    <2>1. pc \in {"send", "sent"} /\ Release(claim)
      BY <1>7 DEF SendThrows
    <2>2. h \notin claim
      BY <1>1, <2>1 DEF HoldsOwn
    <2> QED
      BY <1>1, <2>1, <2>2, CallsTouch
  <1>8. CASE EndTick
    <2>1. Release(rest) /\ h \notin rest
      BY <1>1, <1>8 DEF EndTick, HoldsOwn
    <2> QED
      BY <1>1, <2>1, CallsTouch
  <1>9. CASE PackFails \/ SimulationThrows
    <2>1. pc \in {"packing", "simulate"} /\ h \notin claim
      BY <1>1, <1>9 DEF PackFails, SimulationThrows, HoldsOwn
    <2>2. mem' = mem \/ \E g \in claim : MarkUserOperationFailed(g)
      BY <1>9 DEF PackFails, SimulationThrows, mempoolVars
    <2> QED
      BY <1>1, <2>1, <2>2, CallsTouch
  <1>10. CASE \/ \E t \in Txs : RecoverReceipt(t)
              \/ FinalizeDone \/ NothingToClaim \/ PackDone \/ SimulationSucceeds \/ BroadcastTx
              \/ Confirm \/ NextSingle \/ RpcThrows
    BY <1>10 DEF RecoverReceipt, FinalizeDone, NothingToClaim, PackDone, SimulationSucceeds,
                 BroadcastTx, Confirm, NextSingle, RpcThrows, mempoolVars
  <1> QED
    BY <1>2, <1>3, <1>4, <1>5, <1>6, <1>7, <1>8, <1>9, <1>10 DEF SubmitterStep

LEMMA NextSparesOrphans ==
  ASSUME TypeOK, Durability, TickSound, HoldsOwn, TimesPast, [Next]_vars, up', NEW h \in Orphaned
  PROVE  mem'[h] = mem[h]
  <1>1. CASE Environment
    BY <1>1, OrphanIsNobodys, SubmittingStays DEF Environment, mempoolVars
  <1>2. CASE CrashProcess \/ RestartProcess
    BY <1>2, OrphanIsNobodys DEF CrashProcess, Crash, RestartProcess, Restart
  <1>3. CASE UNCHANGED vars
    BY <1>3 DEF vars, mempoolVars
  <1> QED
    BY <1>1, <1>2, <1>3, SubmitterSparesOrphans DEF Next

\* What a stopped process claimed and may have sent stays as it is for as long
\* as the next one runs: the timeout releases only claims this process dated
\* (submitter.ts:404-421).
THEOREM OrphansStay ==
  ASSUME FiniteHashes, SequentialAdmission
  PROVE  Spec => OrphansUntouched
  <1> DEFINE Own == TxShape /\ HoldsOwn /\ TimesPast
             Spares == \A h \in Orphaned : up' => mem'[h] = mem[h]
  <1>1. Init => Own
    BY InitHeld
  <1>2. TypeOK /\ Durability /\ TickSound /\ Own /\ [Next]_vars => Own'
    BY ChainEffect, NextOwn, NextPast
  <1>3. TypeOK /\ Durability /\ TickSound /\ Own /\ [Next]_vars => [Spares]_vars
    BY NextSparesOrphans
  <1>4. OrphansUntouched <=> [][Spares]_vars
    BY DEF OrphansUntouched
  <1> HIDE DEF Own, Spares
  <1> QED
    BY <1>1, <1>2, <1>3, <1>4, BundlerDurability, TickInvariant, PTL DEF Spec

-----------------------------------------------------------------------------
(* Type correctness. *)

FiniteTxs == IsFiniteSet(Txs)

\* The gap that eth_getTransactionCount answers exists: fewer transactions wait
\* than there are numbers to look at.
LEMMA NonceType ==
  ASSUME FiniteTxs, ChainTypeOK
  PROVE  NextNonce \in Nat
  <1> DEFINE waiting == InState({"waiting"})
             nonce == [t \in waiting |-> tx[t].nonce]
             W == {nonce[t] : t \in waiting}
             IsNext(n) == /\ \A t \in waiting : tx[t].nonce # n
                          /\ \A m \in height..(n - 1) : \E t \in waiting : tx[t].nonce = m
  <1>1. waiting \subseteq Txs /\ height \in Nat
    BY DEF InState, ChainTypeOK
  <1>2. /\ IsFiniteSet(waiting) /\ Cardinality(waiting) <= Cardinality(Txs)
        /\ Cardinality(waiting) \in Nat /\ Cardinality(Txs) \in Nat
    BY <1>1, FS_Subset, FS_CardinalityType DEF FiniteTxs
  <1> HIDE DEF waiting
  <1>3. IsFiniteSet(W) /\ Cardinality(W) <= Cardinality(waiting) /\ Cardinality(W) \in Nat
    <2>1. nonce \in Surjection(waiting, W)
      BY DEF Surjection
    <2> QED
      BY <1>2, <2>1, FS_Surjection, FS_CardinalityType
  <1>4. Cardinality(W) <= Cardinality(Txs)
    BY <1>2, <1>3
  <1>5. PICK n \in height..(height + Cardinality(Txs)) :
          n \notin W /\ \A m \in height..(n - 1) : m \in W
    <2> HIDE DEF W
    <2> QED
      BY <1>1, <1>2, <1>3, <1>4, FirstGap
  <1>6. IsNext(n)
    BY <1>5
  <1>7. NextNonce \in height..(height + Cardinality(Txs))
    <2>1. \E i \in height..(height + Cardinality(Txs)) : IsNext(i)
      BY <1>6
    <2> QED
      BY <2>1 DEF NextNonce, waiting
  <1> QED
    BY <1>1, <1>2, <1>7

LEMMA FreshType == InState({"unsent"}) # {} => FreshTx \in Txs
  BY DEF FreshTx, InState

LEMMA ChainTypeStep ==
  ASSUME FiniteTxs, ChainTypeOK, TickSound, [Next]_vars
  PROVE  ChainTypeOK'
  <1>1. CASE UNCHANGED chainVars
    BY <1>1 DEF chainVars, ChainTypeOK
  <1>2. ASSUME NEW t \in Txs, Mine(t) \/ Revert(t) \/ Drop(t)
        PROVE  ChainTypeOK'
    <2>1. tx \in [Txs -> Transactions] /\ height \in Nat
      BY DEF ChainTypeOK
    <2>2. CASE Mine(t)
      <3>1. PICK ok \in SUBSET tx[t].ops :
              tx' = [tx EXCEPT ![t].state = "mined", ![t].succeeded = ok]
        BY <2>2 DEF Mine
      <3>2. ok \subseteq Hashes /\ "mined" \in TxStates
        BY <2>1, <3>1 DEF Transactions, TxStates
      <3>3. tx' \in [Txs -> Transactions]
        BY <2>1, <3>1, <3>2 DEF Transactions
      <3> QED
        BY <2>1, <2>2, <3>3 DEF Mine, ChainTypeOK
    <2>3. CASE Revert(t) \/ Drop(t)
      BY <2>1, <2>3 DEF Revert, Drop, ChainTypeOK, Transactions, TxStates
    <2> QED
      BY <1>2, <2>2, <2>3
  <1>3. CASE BroadcastTx
    <2>1. claim \subseteq Hashes /\ NextNonce \in Nat
      BY NonceType DEF TickSound, TickType
    <2>2. Broadcast(claim)
      BY <1>3 DEF BroadcastTx
    <2> QED
      BY <2>1, <2>2, FreshType DEF Broadcast, ChainTypeOK, Transactions, TxStates
  <1> QED
    BY <1>1, <1>2, <1>3, ChainCases DEF ChainStep

\* The variables that TickSound says nothing of.
ProcessType ==
  current \in Txs \cup {NoTx} /\ processStartedAt \in Nat /\ recoveryError \in BOOLEAN

LEMMA NextProcess ==
  ASSUME ProcessType, TypeOK', [Next]_vars
  PROVE  ProcessType'
  <1>1. processStartedAt' \in {processStartedAt, now'}
    BY DEF Next, SubmitterStep, StartTick, RecoverReceipt, RecoverLookup, FinalizeOne, FinalizeDone,
           NothingToClaim, ClaimNext, PackFails, PackDone, SimulationSucceeds, SimulationThrows,
           BroadcastTx, SendThrows, SendReturns, Confirm, NextSingle, EndTick, RpcThrows,
           Environment, CrashProcess, RestartProcess, submitterVars, vars
  <1>2. recoveryError' \in {recoveryError, TRUE, FALSE}
    BY DEF Next, SubmitterStep, StartTick, RecoverReceipt, RecoverLookup, FinalizeOne, FinalizeDone,
           NothingToClaim, ClaimNext, PackFails, PackDone, SimulationSucceeds, SimulationThrows,
           BroadcastTx, SendThrows, SendReturns, Confirm, NextSingle, EndTick, RpcThrows,
           Environment, CrashProcess, RestartProcess, submitterVars, vars
  <1>3. current' \in {current, NoTx} \cup Txs
    BY FreshType
    DEF Next, SubmitterStep, StartTick, RecoverReceipt, RecoverLookup, FinalizeOne, FinalizeDone,
        NothingToClaim, ClaimNext, PackFails, PackDone, SimulationSucceeds, SimulationThrows,
        BroadcastTx, Broadcast, SendThrows, SendReturns, Confirm, NextSingle, EndTick, RpcThrows,
        Environment, CrashProcess, RestartProcess, submitterVars, tickVars, vars
  <1> QED
    BY <1>1, <1>2, <1>3 DEF ProcessType, TypeOK, ReputationTypeOK

\* What the tick, the process and the chain keep have their types: in
\* particular the node always has a nonce to answer with, and a tick's lists
\* name operations and transactions that exist.
THEOREM SubmitterTypesHold ==
  ASSUME FiniteHashes, FiniteTxs
  PROVE  Spec => []SubmitterTypeOK
  <1>1. Init => ChainTypeOK /\ ProcessType
    <2>1. Unsent \in Transactions
      BY DEF Unsent, Transactions, TxStates
    <2>2. Init => ChainTypeOK
      BY <2>1 DEF Init, ChainInit, ChainTypeOK
    <2>3. Init => current = NoTx /\ processStartedAt = 1
      BY DEF Init
    <2>4. Init => recoveryError \in BOOLEAN
      BY DEF Init
    <2>5. Init => ProcessType
      BY <2>3, <2>4 DEF ProcessType
    <2> QED
      BY <2>2, <2>5
  <1>2. TypeOK /\ TickSound /\ ChainTypeOK /\ [Next]_vars => ChainTypeOK'
    BY ChainTypeStep
  <1>3. TypeOK' /\ ProcessType /\ [Next]_vars => ProcessType'
    BY NextProcess
  <1>4. TypeOK /\ TickSound /\ ChainTypeOK /\ ProcessType => SubmitterTypeOK
    BY DEF TickSound, TickType, ProcessType, SubmitterTypeOK
  <1> QED
    BY <1>1, <1>2, <1>3, <1>4, TickInvariant, PTL DEF Spec
=============================================================================
