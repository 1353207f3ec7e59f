--------------------------- MODULE MempoolProofs ---------------------------
(***************************************************************************)
(* What is true of the mempool for every set of operations, every          *)
(* configuration and every number of crashes.                              *)
(***************************************************************************)
EXTENDS Mempool, TLAPS, FiniteSetTheorems

USE DEF NoTime

LEMMA NoOperationType == NoOperation \in StoredUserOperation
  BY DEF NoOperation, StoredUserOperation

LEMMA PendingType ==
  ASSUME now \in Nat, NEW c \in BOOLEAN
  PROVE  /\ PendingOperation(c) \in StoredUserOperation
         /\ PendingOperation(c).state = "pending"
  BY DEF PendingOperation, NoOperation, StoredUserOperation, OpenStates

\* The operators that set columns keep an operation an operation.
LEMMA ColumnsType ==
  ASSUME NEW op \in StoredUserOperation, NEW at \in Nat, NEW t \in Txs \cup {NoTx},
         NEW state \in FinalStates, now \in Nat
  PROVE  /\ AsSubmitting(op, at) \in StoredUserOperation
         /\ AsPending(op) \in StoredUserOperation
         /\ WithTx(op, t) \in StoredUserOperation
         /\ [WithTx(op, t) EXCEPT !.submissionStartedAt = IF @ = NoTime THEN now ELSE @]
              \in StoredUserOperation
         /\ AsFinal(op, state, t) \in StoredUserOperation
  <1> USE DEF StoredUserOperation, OpenStates, FinalStates
  <1>1. AsSubmitting(op, at) \in StoredUserOperation
    BY DEF AsSubmitting
  <1>2. AsPending(op) \in StoredUserOperation
    BY DEF AsPending
  <1>3. WithTx(op, t) \in StoredUserOperation
    BY DEF WithTx
  <1>4. [WithTx(op, t) EXCEPT !.submissionStartedAt = IF @ = NoTime THEN now ELSE @]
          \in StoredUserOperation
    BY <1>3
  <1>5. AsFinal(op, state, t) \in StoredUserOperation
    BY DEF AsFinal
  <1> QED
    BY <1>1, <1>2, <1>3, <1>4, <1>5

LEMMA ThenType ==
  ASSUME NEW stmt \in Statements, NEW ops \in SUBSET Hashes
  PROVE  Then(stmt, ops) \in [stmt: Statements, ops: SUBSET Hashes]
  BY DEF Then, Idle, Statements

LEMMA ResolveType ==
  ASSUME ReputationTypeOK, NEW s \in Senders
  PROVE  Resolve(s, now) \in Reputations
  BY DEF ReputationTypeOK, Reputations, Resolve, NoReputation, Lapse

LEMMA AfterFailureType ==
  ASSUME ReputationTypeOK, NEW s \in Senders
  PROVE  AfterFailure(s) \in Reputations
  <1>1. Resolve(s, now) \in Reputations
    BY ResolveType
  <1> QED
    BY <1>1, ReputationAssumption DEF ReputationTypeOK, Reputations, AfterFailure

LEMMA EnsureCanSubmitType ==
  ASSUME ReputationTypeOK, NEW s \in Senders, EnsureCanSubmit(s)
  PROVE  reputation' \in [Senders -> Reputations]
  BY ResolveType DEF EnsureCanSubmit, ReputationTypeOK

LEMMA RecordFailureType ==
  ASSUME ReputationTypeOK, NEW s \in Senders, RecordDeterministicFailure(s)
  PROVE  reputation' \in [Senders -> Reputations]
  BY AfterFailureType DEF RecordDeterministicFailure, ReputationTypeOK

LEMMA ClearType ==
  ASSUME ReputationTypeOK, NEW s \in Senders, ClearReputation(s)
  PROVE  reputation' \in [Senders -> Reputations]
  BY DEF ClearReputation, ReputationTypeOK, NoReputation, Reputations

-----------------------------------------------------------------------------
(* Type correctness. *)

LEMMA InitTypeOK == MempoolInit => TypeOK
  BY NoOperationType
  DEF MempoolInit, ReputationInit, TypeOK, ReputationTypeOK, Reputations, NoReputation,
      Statements, Idle

\* What every step that leaves the clock and the counters alone must show.
LEMMA TypeOKStep ==
  ASSUME TypeOK,
         now' = now, up' = up, crashes' = crashes,
         reputation' \in [Senders -> Reputations],
         mem' \in [Hashes -> StoredUserOperation],
         pendingDb' \in [Hashes -> StoredUserOperation],
         finalizedDb' \in [Hashes -> StoredUserOperation],
         request' \in [Requests -> Hashes \cup {NoHash}],
         tail' \in [stmt: Statements, ops: SUBSET Hashes]
  PROVE  TypeOK'
  BY DEF TypeOK, ReputationTypeOK

LEMMA CheckedType ==
  ASSUME TypeOK, NEW r \in Requests, NEW h \in Hashes, Checked(r, h)
  PROVE  reputation' \in [Senders -> Reputations]
  BY EnsureCanSubmitType, MempoolAssumption DEF Checked, TypeOK

LEMMA AdmitType ==
  ASSUME TypeOK, NEW h \in Hashes, Admit(h)
  PROVE  /\ mem' \in [Hashes -> StoredUserOperation]
         /\ tail' \in [stmt: Statements, ops: SUBSET Hashes]
  <1>1. PendingOperation(TRUE) \in StoredUserOperation
    BY PendingType DEF TypeOK, ReputationTypeOK
  <1>2. "savePending" \in Statements
    BY DEF Statements
  <1> QED
    BY <1>1, <1>2, ThenType DEF Admit, TypeOK

LEMMA SendTypeOK ==
  ASSUME TypeOK, NEW r \in Requests, SendUserOperation(r)
  PROVE  TypeOK'
  <1>1. ASSUME NEW h \in Hashes, SendRefused(r, h)
        PROVE  TypeOK'
    BY <1>1 DEF SendRefused, mempoolVars, TypeOK, ReputationTypeOK
  <1>2. ASSUME NEW h \in Hashes, SendWithoutEffect(r, h)
        PROVE  TypeOK'
    BY <1>2, CheckedType, TypeOKStep DEF SendWithoutEffect, TypeOK
  <1>3. ASSUME NEW h \in Hashes, NEW c \in BOOLEAN, SendRequeue(r, h, c)
        PROVE  TypeOK'
    <2>1. PendingOperation(c) \in StoredUserOperation
      BY PendingType DEF TypeOK, ReputationTypeOK
    <2>2. mem' \in [Hashes -> StoredUserOperation]
      BY <1>3, <2>1 DEF SendRequeue, TypeOK
    <2>3. "deleteFinalized" \in Statements
      BY DEF Statements
    <2>4. tail' \in [stmt: Statements, ops: SUBSET Hashes]
      BY <1>3, <2>3, ThenType DEF SendRequeue
    <2> QED
      BY <1>3, <2>2, <2>4, CheckedType, TypeOKStep DEF SendRequeue, TypeOK
  <1>4. ASSUME NEW h \in Hashes, SendAwaitSimulation(r, h)
        PROVE  TypeOK'
    BY <1>4, CheckedType, TypeOKStep DEF SendAwaitSimulation, TypeOK
  <1>5. ASSUME NEW h \in Hashes, SendAdmit(r, h)
        PROVE  TypeOK'
    BY <1>5, CheckedType, AdmitType, TypeOKStep DEF SendAdmit, TypeOK
  <1>6. ASSUME SimulationPassed(r)
        PROVE  TypeOK'
    <2>1. request[r] \in Hashes
      BY <1>6 DEF SimulationPassed, TypeOK
    <2> QED
      BY <1>6, <2>1, AdmitType, TypeOKStep DEF SimulationPassed, TypeOK, ReputationTypeOK
  <1>7. ASSUME SimulationFailed(r)
        PROVE  TypeOK'
    <2>1. SenderOf[request[r]] \in Senders
      BY <1>7, MempoolAssumption DEF SimulationFailed, TypeOK
    <2>2. reputation' \in [Senders -> Reputations]
      BY <1>7, <2>1, RecordFailureType DEF SimulationFailed, TypeOK
    <2> QED
      BY <1>7, <2>2, TypeOKStep DEF SimulationFailed, TypeOK
  <1> QED
    BY <1>1, <1>2, <1>3, <1>4, <1>5, <1>6, <1>7 DEF SendUserOperation

LEMMA CallerTypeOK ==
  ASSUME TypeOK, CallerStep
  PROVE  TypeOK'
  <1>0. /\ {"markSubmitting", "markPending", "recordTx", "saveFinalized"} \subseteq Statements
        /\ ReputationTypeOK
        /\ "failed" \in FinalStates /\ "included" \in FinalStates
    BY DEF Statements, TypeOK, FinalStates
  <1>1. ASSUME NEW S \in SUBSET Hashes, Claim(S)
        PROVE  TypeOK'
    <2>1. mem' \in [Hashes -> StoredUserOperation]
      BY <1>0, <1>1, ColumnsType DEF Claim, TypeOK, ReputationTypeOK
    <2> QED
      BY <1>0, <1>1, <2>1, ThenType, TypeOKStep DEF Claim, TypeOK, ReputationTypeOK
  <1>2. ASSUME NEW S \in SUBSET Submitting, Release(S)
        PROVE  TypeOK'
    <2>1. mem' \in [Hashes -> StoredUserOperation]
      BY <1>0, <1>2, ColumnsType DEF Release, TypeOK, ReputationTypeOK
    <2>2. S \cap Submitting \in SUBSET Hashes
      BY DEF Submitting
    <2> QED
      BY <1>0, <1>2, <2>1, <2>2, ThenType, TypeOKStep DEF Release, TypeOK, ReputationTypeOK
  <1>3. ASSUME NEW S \in SUBSET Submitting, NEW t \in Txs, RecordTransactionHash(S, t)
        PROVE  TypeOK'
    <2>1. mem' \in [Hashes -> StoredUserOperation]
      BY <1>0, <1>3, ColumnsType DEF RecordTransactionHash, TypeOK, ReputationTypeOK
    <2>2. S \cap Submitting \in SUBSET Hashes
      BY DEF Submitting
    <2> QED
      BY <1>0, <1>3, <2>1, <2>2, ThenType, TypeOKStep
      DEF RecordTransactionHash, TypeOK, ReputationTypeOK
  <1>4. ASSUME NEW h \in Hashes, NEW t \in Txs, NEW ok \in BOOLEAN,
               FinalizeUserOperation(h, t, ok)
        PROVE  TypeOK'
    <2> DEFINE s == IF ok THEN "included" ELSE "failed"
    <2>1. s \in FinalStates
      BY DEF FinalStates
    <2>2. AsFinal(mem[h], s, t) \in StoredUserOperation
      BY <1>0, <2>1, ColumnsType DEF TypeOK, ReputationTypeOK
    <2>3. mem' \in [Hashes -> StoredUserOperation]
      BY <1>4, <2>2 DEF FinalizeUserOperation, TypeOK
    <2>4. reputation' \in [Senders -> Reputations]
      BY <1>0, <1>4, ClearType, MempoolAssumption
      DEF FinalizeUserOperation, TypeOK, ReputationTypeOK
    <2>5. tail' \in [stmt: Statements, ops: SUBSET Hashes]
      BY <1>0, <1>4, ThenType DEF FinalizeUserOperation
    <2> QED
      BY <1>4, <2>3, <2>4, <2>5, TypeOKStep DEF FinalizeUserOperation, TypeOK
  <1>5. ASSUME NEW h \in Hashes, MarkUserOperationFailed(h)
        PROVE  TypeOK'
    <2>1. AsFinal(mem[h], "failed", NoTx) \in StoredUserOperation
      BY <1>0, ColumnsType DEF TypeOK, ReputationTypeOK
    <2>2. mem' \in [Hashes -> StoredUserOperation]
      BY <1>5, <2>1 DEF MarkUserOperationFailed, TypeOK
    <2>3. reputation' \in [Senders -> Reputations]
      BY <1>0, <1>5, RecordFailureType, MempoolAssumption DEF MarkUserOperationFailed
    <2>4. tail' \in [stmt: Statements, ops: SUBSET Hashes]
      BY <1>0, <1>5, ThenType DEF MarkUserOperationFailed
    <2> QED
      BY <1>5, <2>2, <2>3, <2>4, TypeOKStep DEF MarkUserOperationFailed, TypeOK
  <1> QED
    BY <1>1, <1>2, <1>3, <1>4, <1>5 DEF CallerStep, Claimable, Pending

LEMMA StatementTypeOK ==
  ASSUME TypeOK, ExecuteStatement
  PROVE  TypeOK'
  <1> USE DEF Executes
  <1>0. /\ \A stmt \in {"markSubmitting", "markPending", "savePending", "removePending"} :
             stmt \in Statements
        /\ Idle \in [stmt: Statements, ops: SUBSET Hashes]
        /\ reputation \in [Senders -> Reputations]
        /\ \A h \in Hashes : tail.ops \ {h} \in SUBSET Hashes
        /\ now \in Nat /\ "failed" \in FinalStates
        /\ \A h \in Hashes : /\ mem[h].submissionStartedAt \in Nat
                             /\ mem[h].submissionTxHash \in Txs \cup {NoTx}
    BY DEF FinalStates, StoredUserOperation, Statements, Idle, TypeOK, ReputationTypeOK
  <1>1. ASSUME NEW h \in Hashes, SavePending(h)
        PROVE  TypeOK'
    BY <1>0, <1>1, TypeOKStep DEF SavePending, TypeOK
  <1>2. ASSUME NEW h \in Hashes, MarkSubmitting(h)
        PROVE  TypeOK'
    <2>1. pendingDb' \in [Hashes -> StoredUserOperation]
      BY <1>0, <1>2, ColumnsType DEF MarkSubmitting, TypeOK
    <2> QED
      BY <1>0, <1>2, <2>1, ThenType, TypeOKStep DEF MarkSubmitting, TypeOK
  <1>3. ASSUME NEW h \in Hashes, MarkPending(h)
        PROVE  TypeOK'
    <2>1. pendingDb' \in [Hashes -> StoredUserOperation]
      BY <1>0, <1>3, ColumnsType DEF MarkPending, TypeOK
    <2> QED
      BY <1>0, <1>3, <2>1, ThenType, TypeOKStep DEF MarkPending, TypeOK
  <1>4. ASSUME NEW h \in Hashes, DeleteFinalized(h)
        PROVE  TypeOK'
    BY <1>0, <1>4, ThenType, NoOperationType, TypeOKStep DEF DeleteFinalized, TypeOK
  <1>5. ASSUME NEW h \in Hashes, SaveFinalized(h)
        PROVE  TypeOK'
    BY <1>0, <1>5, ThenType, TypeOKStep DEF SaveFinalized, TypeOK
  <1>6. ASSUME NEW h \in Hashes, RemovePending(h)
        PROVE  TypeOK'
    <2>1. tail' \in [stmt: Statements, ops: SUBSET Hashes]
      BY <1>6 DEF RemovePending, Statements
    <2> QED
      BY <1>0, <1>6, <2>1, NoOperationType, TypeOKStep DEF RemovePending, TypeOK
  <1>7. ASSUME RecordTx
        PROVE  TypeOK'
    <2>1. pendingDb' \in [Hashes -> StoredUserOperation]
      BY <1>0, <1>7, ColumnsType DEF RecordTx, TypeOK
    <2> QED
      BY <1>0, <1>7, <2>1, TypeOKStep DEF RecordTx, TypeOK
  <1>8. ASSUME PruneFinalized
        PROVE  TypeOK'
    BY <1>0, <1>8, NoOperationType, TypeOKStep DEF PruneFinalized, TypeOK
  <1> QED
    BY <1>1, <1>2, <1>3, <1>4, <1>5, <1>6, <1>7, <1>8 DEF ExecuteStatement

LEMMA ProcessTypeOK ==
  ASSUME TypeOK, Crash \/ Restart \/ TimePasses
  PROVE  TypeOK'
  <1> USE DEF TypeOK, ReputationTypeOK
  <1>1. CASE Crash
    <2>1. tail' \in [stmt: Statements, ops: SUBSET Hashes]
      BY <1>1 DEF Crash, Idle, Statements
    <2>2. mem' \in [Hashes -> StoredUserOperation]
      BY <1>1, NoOperationType DEF Crash
    <2>3. request' \in [Requests -> Hashes \cup {NoHash}]
      BY <1>1 DEF Crash
    <2>4. crashes' \in Nat
      BY <1>1 DEF Crash
    <2>5. up' \in BOOLEAN
      BY <1>1, Zenon DEF Crash
    <2>6. UNCHANGED <<now, reputation, pendingDb, finalizedDb>>
      BY <1>1 DEF Crash
    <2> QED
      BY <2>1, <2>2, <2>3, <2>4, <2>5, <2>6
  <1>2. CASE Restart
    BY <1>2 DEF Restart, Tick, ReloadReputations, Durable, Statements, NoReputation, Reputations
  <1>3. CASE TimePasses
    BY <1>3 DEF TimePasses, Tick
  <1> QED
    BY <1>1, <1>2, <1>3

LEMMA NextTypeOK == TypeOK /\ [MempoolNext]_mempoolVars => TypeOK'
  <1> SUFFICES ASSUME TypeOK, [MempoolNext]_mempoolVars
               PROVE  TypeOK'
    OBVIOUS
  <1>1. CASE MempoolNext
    BY <1>1, SendTypeOK, CallerTypeOK, StatementTypeOK, ProcessTypeOK DEF MempoolNext
  <1>2. CASE UNCHANGED mempoolVars
    BY <1>2 DEF mempoolVars, TypeOK, ReputationTypeOK
  <1> QED
    BY <1>1, <1>2

\* Every variable keeps its type, whatever the configuration.
THEOREM MempoolTypeCorrect == MempoolSpec => []TypeOK
  BY InitTypeOK, NextTypeOK, PTL DEF MempoolSpec

-----------------------------------------------------------------------------
(* A restart loses nothing, and retention holds: for every set of          *)
(* operations, every retention limit, and crashes between any two SQLite    *)
(* statements.                                                              *)

\* At most one admission is being simulated at a time (or none ever is).
\* Of two concurrent ones of the same hash, the later overwrites what became of
\* the earlier; two of one nonce are both admitted: see the run MempoolRace.
SequentialAdmission == HasAdmissionSimulator => \A q, r \in Requests : q = r

-----------------------------------------------------------------------------
(* The inductive invariant. *)

\* The state an operation may be in, wherever it is kept.
MayBe(op, states) ==
  /\ op = NoOperation \/ op.state \in states
  /\ op.state = "submitting" => op.submissionStartedAt # NoTime

RowsSound ==
  \A h \in Hashes : /\ MayBe(mem[h], OpenStates \cup FinalStates)
                    /\ MayBe(pendingDb[h], OpenStates)
                    /\ MayBe(finalizedDb[h], FinalStates)

\* The statement the running handler executes next for h, if any.
Due(stmt, h) == tail.stmt = stmt /\ h \in tail.ops

\* An open operation has no finalized row in its way, and the pending table
\* agrees with memory on it unless a statement is due for it.
OpenKept ==
  \A h \in Hashes : Open(h) =>
    /\ finalizedDb[h] = NoOperation \/ Due("deleteFinalized", h)
    /\ pendingDb[h] = mem[h] \/ h \in tail.ops

FinalKept ==
  \A h \in Hashes : Final(h) => finalizedDb[h] = mem[h] \/ Due("saveFinalized", h)

\* What is not in memory has no finalized row that could override it later.
UnknownUnfinalized ==
  up => \A h \in Hashes : mem[h].state = "none" => finalizedDb[h] = NoOperation

\* A due statement, executed on the row as it is, makes the row agree with
\* memory; only the statements over whole bundles have several operations.
TailSound ==
  /\ tail.stmt \in {"idle", "prune"} => tail.ops = {}
  /\ tail.stmt \in {"savePending", "deleteFinalized", "saveFinalized", "removePending"} =>
       \A g, h \in tail.ops : g = h
  /\ \A h \in tail.ops :
       /\ tail.stmt \in {"savePending", "deleteFinalized"} => Open(h)
       /\ tail.stmt \in {"saveFinalized", "removePending"} => Final(h)
       /\ tail.stmt = "markSubmitting" =>
            Row(h) /\ mem[h] = AsSubmitting(pendingDb[h], mem[h].submissionStartedAt)
       /\ tail.stmt = "markPending" => Row(h) /\ mem[h] = AsPending(pendingDb[h])
       /\ tail.stmt = "recordTx" =>
            Row(h) /\ mem[h] = WithTx(pendingDb[h], mem[h].submissionTxHash)

\* An operation under simulation is still unknown.
SimulatedUnknown ==
  \A r \in Requests : request[r] # NoHash =>
    HasAdmissionSimulator /\ mem[request[r]].state = "none"

DownIdle ==
  ~up => /\ tail = Idle
         /\ \A r \in Requests : request[r] = NoHash
         /\ \A h \in Hashes : mem[h] = NoOperation

Durability ==
  /\ RowsSound /\ OpenKept /\ FinalKept /\ UnknownUnfinalized /\ TailSound
  /\ SimulatedUnknown /\ DownIdle

-----------------------------------------------------------------------------
(* Facts about the columns. *)

\* The states the columns set, and that recording a transaction of a claimed
\* operation is the same in memory, which may set the start, as in its row.
LEMMA SubmittingColumns ==
  ASSUME NEW op \in StoredUserOperation, NEW at \in Nat
  PROVE  /\ AsSubmitting(op, at).state = "submitting"
         /\ AsSubmitting(op, at).submissionStartedAt = at
  BY DEF AsSubmitting, StoredUserOperation

LEMMA ReleasedColumns ==
  ASSUME NEW op \in StoredUserOperation
  PROVE  AsPending(op).state = "pending"
  BY DEF AsPending, StoredUserOperation

LEMMA RecordedColumns ==
  ASSUME NEW op \in StoredUserOperation, NEW t \in Txs \cup {NoTx}
  PROVE  /\ WithTx(op, t).state = "submitting"
         /\ WithTx(op, t).submissionTxHash = t
         /\ WithTx(op, t).submissionStartedAt = op.submissionStartedAt
         /\ op.submissionStartedAt # NoTime =>
              [WithTx(op, t) EXCEPT !.submissionStartedAt = IF @ = NoTime THEN now ELSE @]
                = WithTx(op, t)
  BY DEF WithTx, StoredUserOperation

LEMMA PendingColumns ==
  ASSUME NEW c \in BOOLEAN
  PROVE  PendingOperation(c).state = "pending"
  BY DEF PendingOperation, NoOperation

LEMMA InitDurability == MempoolInit => Durability
  BY DEF MempoolInit, Durability, RowsSound, MayBe, NoOperation, OpenKept, FinalKept, Open,
         Final, OpenStates, FinalStates, UnknownUnfinalized, TailSound, Idle, SimulatedUnknown,
         DownIdle

\* Steps that touch nothing the invariant speaks of, but for calls that end.
LEMMA UntouchedDurability ==
  ASSUME Durability, UNCHANGED <<up, mem, pendingDb, finalizedDb, tail>>,
         \A r \in Requests : request'[r] \in {request[r], NoHash}
  PROVE  Durability'
  BY DEF Durability, RowsSound, MayBe, OpenKept, FinalKept, Open, Final, Due, Row,
         UnknownUnfinalized, TailSound, SimulatedUnknown, DownIdle

-----------------------------------------------------------------------------
(* eth_sendUserOperation keeps the invariant. *)

\* A new open operation without a finalized row, its INSERT due.
LEMMA AdmitDurability ==
  ASSUME TypeOK, Durability, tail = Idle, up, NEW h \in Hashes, Admit(h),
         UNCHANGED <<up, pendingDb, finalizedDb>>, mem[h].state = "none",
         \A r \in Requests : request'[r] # NoHash =>
           request'[r] = request[r] /\ request[r] # h
  PROVE  Durability'
  <1> DEFINE op == PendingOperation(TRUE)
  <1>0. op.state = "pending"
    BY PendingColumns
  <1> HIDE DEF op
  <1>1. /\ mem' = [mem EXCEPT ![h] = op]
        /\ tail'.stmt = "savePending" /\ tail'.ops = {h}
        /\ tail.ops = {} /\ tail.stmt = "idle"
        /\ mem \in [Hashes -> StoredUserOperation]
        /\ request \in [Requests -> Hashes \cup {NoHash}]
    BY DEF Admit, Then, Idle, TypeOK, op
  <1>2. RowsSound'
    BY <1>0, <1>1 DEF Durability, RowsSound, MayBe, OpenStates
  <1>3. OpenKept'
    BY <1>0, <1>1 DEF Durability, OpenKept, UnknownUnfinalized, Open, Due
  <1>4. FinalKept'
    BY <1>0, <1>1 DEF Durability, FinalKept, FinalStates, Final, Due
  <1>5. UnknownUnfinalized'
    BY <1>0, <1>1 DEF Durability, UnknownUnfinalized
  <1>6. TailSound'
    BY <1>0, <1>1 DEF TailSound, Open, OpenStates
  <1>7. SimulatedUnknown'
    BY <1>1, MempoolAssumption DEF Durability, SimulatedUnknown
  <1>8. DownIdle'
    BY DEF DownIdle
  <1> QED
    BY <1>2, <1>3, <1>4, <1>5, <1>6, <1>7, <1>8 DEF Durability

LEMMA RequeueDurability ==
  ASSUME TypeOK, Durability, NEW r \in Requests, NEW h \in Hashes, NEW c \in BOOLEAN,
         SendRequeue(r, h, c)
  PROVE  Durability'
  <1> DEFINE op == PendingOperation(c)
  <1>0. op.state = "pending"
    BY PendingColumns
  <1> HIDE DEF op
  <1>1. /\ mem' = [mem EXCEPT ![h] = op] /\ mem[h].state = "failed"
        /\ tail'.stmt = "deleteFinalized" /\ tail'.ops = {h}
        /\ tail.ops = {} /\ tail.stmt = "idle" /\ up
        /\ mem \in [Hashes -> StoredUserOperation]
        /\ UNCHANGED <<up, pendingDb, finalizedDb, request>>
        /\ request \in [Requests -> Hashes \cup {NoHash}]
    BY DEF SendRequeue, Checked, Ready, Then, Idle, TypeOK, op
  <1>2. RowsSound'
    BY <1>0, <1>1 DEF Durability, RowsSound, MayBe, OpenStates
  <1>3. OpenKept'
    BY <1>0, <1>1 DEF Durability, OpenKept, Open, Due
  <1>4. FinalKept'
    BY <1>0, <1>1 DEF Durability, FinalKept, FinalStates, Final, Due
  <1>5. UnknownUnfinalized'
    BY <1>0, <1>1 DEF Durability, UnknownUnfinalized
  <1>6. TailSound'
    BY <1>0, <1>1 DEF TailSound, Open, OpenStates
  <1>7. SimulatedUnknown'
    BY <1>1, MempoolAssumption DEF Durability, SimulatedUnknown
  <1>8. DownIdle'
    BY <1>1 DEF DownIdle
  <1> QED
    BY <1>2, <1>3, <1>4, <1>5, <1>6, <1>7, <1>8 DEF Durability

LEMMA SendDurability ==
  ASSUME SequentialAdmission, TypeOK, Durability, NEW r \in Requests, SendUserOperation(r)
  PROVE  Durability'
  <1>1. ASSUME NEW h \in Hashes, SendRefused(r, h) \/ SendWithoutEffect(r, h)
        PROVE  Durability'
    BY <1>1, UntouchedDurability DEF SendRefused, SendWithoutEffect, mempoolVars
  <1>2. ASSUME NEW h \in Hashes, NEW c \in BOOLEAN, SendRequeue(r, h, c)
        PROVE  Durability'
    BY <1>2, RequeueDurability
  <1>3. ASSUME NEW h \in Hashes, SendAwaitSimulation(r, h)
        PROVE  Durability'
    <2>1. SimulatedUnknown'
      BY <1>3 DEF SendAwaitSimulation, Durability, SimulatedUnknown, TypeOK
    <2>2. DownIdle'
      BY <1>3 DEF SendAwaitSimulation, Checked, Ready, DownIdle
    <2>3. UNCHANGED <<up, mem, pendingDb, finalizedDb, tail>>
      BY <1>3 DEF SendAwaitSimulation
    <2> QED
      BY <2>1, <2>2, <2>3
      DEF Durability, RowsSound, MayBe, OpenKept, FinalKept, Open, Final, Due, Row,
          UnknownUnfinalized, TailSound
  <1>4. ASSUME NEW h \in Hashes, SendAdmit(r, h)
        PROVE  Durability'
    <2>1. \A q \in Requests : request[q] = NoHash
      BY <1>4 DEF SendAdmit, Durability, SimulatedUnknown
    <2> QED
      BY <1>4, <2>1, AdmitDurability DEF SendAdmit, Checked, Ready
  <1>5. ASSUME SimulationPassed(r)
        PROVE  Durability'
    <2>1. /\ HasAdmissionSimulator
          /\ mem[request[r]].state = "none"
          /\ request[r] \in Hashes
      BY <1>5 DEF SimulationPassed, Durability, SimulatedUnknown, TypeOK
    <2>2. \A q \in Requests : request'[q] = NoHash
      BY <1>5, <2>1 DEF SimulationPassed, SequentialAdmission, TypeOK
    <2> QED
      BY <1>5, <2>1, <2>2, AdmitDurability DEF SimulationPassed, Ready
  <1>6. ASSUME SimulationFailed(r)
        PROVE  Durability'
    BY <1>6, UntouchedDurability DEF SimulationFailed, TypeOK
  <1> QED
    BY <1>1, <1>2, <1>3, <1>4, <1>5, <1>6 DEF SendUserOperation

-----------------------------------------------------------------------------
(* So do the calls of the submitter. *)

\* What holds when a handler starts.
LEMMA Settled ==
  ASSUME TypeOK, Durability, Ready
  PROVE  /\ tail.ops = {} /\ tail.stmt = "idle" /\ up
         /\ \A h \in Hashes : Open(h) => pendingDb[h] = mem[h] /\ finalizedDb[h] = NoOperation
         /\ \A h \in Hashes : Final(h) => finalizedDb[h] = mem[h]
         /\ \A h \in Hashes : mem[h].state = "none" => finalizedDb[h] = NoOperation
  BY DEF Durability, OpenKept, FinalKept, UnknownUnfinalized, Ready, Idle, Due

\* A handler that moves the operations of S between the open states, with an
\* UPDATE due for each of them.
LEMMA MoveDurability ==
  ASSUME TypeOK, Durability, Ready, NEW stmt, NEW S \in SUBSET Hashes,
         UNCHANGED <<up, pendingDb, finalizedDb, request>>,
         mem' \in [Hashes -> StoredUserOperation],
         tail' = Then(stmt, S),
         stmt \in {"markSubmitting", "markPending", "recordTx"},
         \A h \in Hashes \ S : mem'[h] = mem[h],
         \A h \in S : Open(h) /\ MayBe(mem'[h], OpenStates) /\ mem'[h].state \in OpenStates,
         \A h \in S :
           /\ stmt = "markSubmitting" =>
                mem'[h] = AsSubmitting(mem[h], mem'[h].submissionStartedAt)
           /\ stmt = "markPending" => mem'[h] = AsPending(mem[h])
           /\ stmt = "recordTx" => mem'[h] = WithTx(mem[h], mem'[h].submissionTxHash)
  PROVE  Durability'
  <1>1. /\ tail.ops = {} /\ tail.stmt = "idle" /\ up
        /\ \A h \in Hashes : Open(h) => pendingDb[h] = mem[h] /\ finalizedDb[h] = NoOperation
        /\ \A h \in Hashes : Final(h) => finalizedDb[h] = mem[h]
        /\ \A h \in Hashes : mem[h].state = "none" => finalizedDb[h] = NoOperation
    BY Settled
  <1>2. /\ tail'.ops = S
        /\ tail'.stmt \in {stmt, "idle"}
        /\ tail'.stmt = "idle" => S = {}
    BY DEF Then, Idle
  <1>3. RowsSound'
    BY DEF Durability, RowsSound, MayBe
  <1>4. OpenKept'
    BY <1>1, <1>2 DEF OpenKept, Open, Due
  <1>5. FinalKept'
    BY <1>1, <1>2 DEF FinalKept, Final, FinalStates, OpenStates, Due
  <1>6. UnknownUnfinalized'
    BY <1>1, <1>2 DEF UnknownUnfinalized, OpenStates
  <1>7. TailSound'
    BY <1>1, <1>2 DEF TailSound, Row, Open, OpenStates
  <1>8. SimulatedUnknown'
    BY <1>1, MempoolAssumption DEF Durability, SimulatedUnknown, TypeOK, Open, OpenStates
  <1>9. DownIdle'
    BY <1>1 DEF DownIdle
  <1> QED
    BY <1>3, <1>4, <1>5, <1>6, <1>7, <1>8, <1>9 DEF Durability

\* A handler that gives h its result, with the two statements due.
LEMMA ResultDurability ==
  ASSUME TypeOK, Durability, Ready, NEW h \in Hashes,
         NEW state \in FinalStates, NEW t \in Txs \cup {NoTx},
         UNCHANGED <<up, pendingDb, finalizedDb, request>>,
         mem[h].state # "none",
         mem' = [mem EXCEPT ![h] = AsFinal(@, state, t)],
         tail' = Then("saveFinalized", {h})
  PROVE  Durability'
  <1>1. /\ tail.ops = {} /\ tail.stmt = "idle" /\ up
        /\ \A g \in Hashes : Open(g) => pendingDb[g] = mem[g] /\ finalizedDb[g] = NoOperation
        /\ \A g \in Hashes : Final(g) => finalizedDb[g] = mem[g]
        /\ \A g \in Hashes : mem[g].state = "none" => finalizedDb[g] = NoOperation
    BY Settled
  <1>2. /\ tail'.ops = {h} /\ tail'.stmt = "saveFinalized"
        /\ mem \in [Hashes -> StoredUserOperation]
        /\ request \in [Requests -> Hashes \cup {NoHash}]
    BY DEF Then, TypeOK
  <1>3. mem'[h].state = state /\ \A g \in Hashes \ {h} : mem'[g] = mem[g]
    BY <1>2 DEF AsFinal, StoredUserOperation
  <1>4. RowsSound'
    BY <1>3 DEF Durability, RowsSound, MayBe, FinalStates
  <1>5. OpenKept'
    BY <1>1, <1>3 DEF OpenKept, Open, OpenStates, FinalStates, Due
  <1>6. FinalKept'
    BY <1>1, <1>2, <1>3 DEF FinalKept, Final, FinalStates, Due
  <1>7. UnknownUnfinalized'
    BY <1>1, <1>3 DEF UnknownUnfinalized, FinalStates
  <1>8. TailSound'
    BY <1>2, <1>3 DEF TailSound, Final
  <1>9. SimulatedUnknown'
    BY <1>2, <1>3, MempoolAssumption DEF Durability, SimulatedUnknown
  <1>10. DownIdle'
    BY <1>1 DEF DownIdle
  <1> QED
    BY <1>4, <1>5, <1>6, <1>7, <1>8, <1>9, <1>10 DEF Durability

LEMMA CallerDurability ==
  ASSUME TypeOK, Durability, CallerStep, TypeOK'
  PROVE  Durability'
  <1>0. /\ now \in Nat \ {0} /\ NoTx \notin Txs
        /\ mem \in [Hashes -> StoredUserOperation]
        /\ mem' \in [Hashes -> StoredUserOperation]
        /\ "failed" \in FinalStates /\ "included" \in FinalStates
    BY NoTxAssumption DEF TypeOK, ReputationTypeOK, FinalStates
  <1>1. ASSUME NEW S \in SUBSET Pending, Claim(S)
        PROVE  Durability'
    <2>1. \A h \in S : mem'[h] = AsSubmitting(mem[h], now) /\ Open(h)
      BY <1>0, <1>1 DEF Claim, Pending, Open, OpenStates
    <2>2. \A h \in S : /\ mem'[h].state = "submitting" /\ mem'[h].submissionStartedAt = now
      BY <1>0, <2>1, SubmittingColumns DEF Pending
    <2>3. S \in SUBSET Hashes
      BY DEF Pending
    <2>4. /\ \A h \in Hashes \ S : mem'[h] = mem[h]
          /\ \A h \in S : /\ Open(h) /\ MayBe(mem'[h], OpenStates)
                          /\ mem'[h].state \in OpenStates
                          /\ mem'[h] = AsSubmitting(mem[h], mem'[h].submissionStartedAt)
      BY <1>0, <1>1, <2>1, <2>2 DEF Claim, MayBe, OpenStates, NoTime
    <2> QED
      BY <1>0, <1>1, <2>3, <2>4, MoveDurability DEF Claim
  <1>2. ASSUME NEW S \in SUBSET Submitting, Release(S)
        PROVE  Durability'
    <2>1. S \cap Submitting = S /\ S \in SUBSET Hashes
      BY DEF Submitting
    <2>2. \A h \in S : mem'[h] = AsPending(mem[h]) /\ Open(h)
      BY <1>2, <2>1 DEF Release, Submitting, Open, OpenStates
    <2>3. \A h \in S : mem'[h].state = "pending"
      BY <1>0, <2>1, <2>2, ReleasedColumns
    <2>4. /\ \A h \in Hashes \ S : mem'[h] = mem[h]
          /\ \A h \in S : /\ Open(h) /\ MayBe(mem'[h], OpenStates)
                          /\ mem'[h].state \in OpenStates
      BY <1>2, <2>1, <2>2, <2>3 DEF Release, MayBe, OpenStates
    <2>5. UNCHANGED <<up, pendingDb, finalizedDb, request>> /\ Ready
          /\ tail' = Then("markPending", S)
      BY <1>2, <2>1 DEF Release
    <2> QED
      BY <1>0, <2>1, <2>2, <2>4, <2>5, MoveDurability
  <1>3. ASSUME NEW S \in SUBSET Submitting, NEW t \in Txs, RecordTransactionHash(S, t)
        PROVE  Durability'
    <2>1. S \cap Submitting = S /\ S \in SUBSET Hashes
      BY DEF Submitting
    <2>2. \A h \in S : /\ mem[h].state = "submitting" /\ Open(h)
                       /\ mem[h].submissionStartedAt # NoTime
      BY DEF Submitting, Open, OpenStates, Durability, RowsSound, MayBe
    <2>3. \A h \in S : mem'[h] = WithTx(mem[h], t)
      <3> SUFFICES ASSUME NEW h \in S
                   PROVE  mem'[h] = WithTx(mem[h], t)
        OBVIOUS
      <3>1. mem'[h] = [WithTx(mem[h], t) EXCEPT
                         !.submissionStartedAt = IF @ = NoTime THEN now ELSE @]
        BY <1>3, <2>1 DEF RecordTransactionHash
      <3>2. mem[h] \in StoredUserOperation
        BY <1>0, <2>1
      <3> QED
        BY <2>2, <3>1, <3>2, RecordedColumns
    <2>4. \A h \in S : /\ mem'[h].state = "submitting" /\ mem'[h].submissionTxHash = t
                       /\ mem'[h].submissionStartedAt # NoTime
      BY <1>0, <2>1, <2>2, <2>3, RecordedColumns
    <2>5. /\ \A h \in Hashes \ S : mem'[h] = mem[h]
          /\ \A h \in S : /\ Open(h) /\ MayBe(mem'[h], OpenStates)
                          /\ mem'[h].state \in OpenStates
                          /\ mem'[h] = WithTx(mem[h], mem'[h].submissionTxHash)
      BY <1>3, <2>1, <2>2, <2>3, <2>4 DEF RecordTransactionHash, MayBe, OpenStates
    <2>6. UNCHANGED <<up, pendingDb, finalizedDb, request>> /\ Ready
          /\ tail' = Then("recordTx", S)
      BY <1>3, <2>1 DEF RecordTransactionHash
    <2> QED
      BY <1>0, <2>1, <2>5, <2>6, MoveDurability
  <1>4. ASSUME NEW h \in Hashes, NEW t \in Txs, NEW ok \in BOOLEAN,
               FinalizeUserOperation(h, t, ok)
        PROVE  Durability'
    <2> DEFINE state == IF ok THEN "included" ELSE "failed"
    <2>1. state \in FinalStates
      BY <1>0
    <2>2. /\ UNCHANGED <<up, pendingDb, finalizedDb, request>> /\ Ready
          /\ mem[h].state # "none" /\ tail' = Then("saveFinalized", {h})
          /\ mem' = [mem EXCEPT ![h] = AsFinal(@, state, t)]
      BY <1>4 DEF FinalizeUserOperation
    <2> QED
      BY <2>1, <2>2, ResultDurability
  <1>5. ASSUME NEW h \in Hashes, MarkUserOperationFailed(h)
        PROVE  Durability'
    BY <1>0, <1>5, ResultDurability DEF MarkUserOperationFailed
  <1> QED
    BY <1>1, <1>2, <1>3, <1>4, <1>5 DEF CallerStep, Claimable

-----------------------------------------------------------------------------
(* So do the statements, one at a time. *)

LEMMA StatementDurability ==
  ASSUME TypeOK, Durability, ExecuteStatement
  PROVE  Durability'
  <1>0. /\ up /\ UNCHANGED <<up, request>>
        /\ tail.ops \in SUBSET Hashes
        /\ mem \in [Hashes -> StoredUserOperation]
        /\ pendingDb \in [Hashes -> StoredUserOperation]
        /\ finalizedDb \in [Hashes -> StoredUserOperation]
        /\ request \in [Requests -> Hashes \cup {NoHash}]
        /\ NoOperation.state = "none"
        /\ \A h \in Hashes : /\ mem[h].submissionStartedAt \in Nat
                             /\ mem[h].submissionTxHash \in Txs \cup {NoTx}
    BY DEF ExecuteStatement, SavePending, MarkSubmitting, MarkPending, DeleteFinalized,
           SaveFinalized, RemovePending, RecordTx, PruneFinalized, Executes, TypeOK, NoOperation,
           StoredUserOperation
  <1>d. DownIdle'
    BY <1>0 DEF DownIdle
  <1>1. ASSUME NEW h \in Hashes, SavePending(h)
        PROVE  Durability'
    <2>1. /\ tail.stmt = "savePending" /\ h \in tail.ops
          /\ tail'.stmt = "idle" /\ tail'.ops = {}
          /\ pendingDb' = [pendingDb EXCEPT ![h] = mem[h]]
          /\ UNCHANGED <<mem, finalizedDb>>
      BY <1>1 DEF SavePending, Executes, Idle
    <2>2. Open(h) /\ tail.ops = {h}
      BY <2>1 DEF Durability, TailSound
    <2>3. RowsSound'
      BY <1>0, <2>1, <2>2 DEF Durability, RowsSound, MayBe, Open
    <2>4. OpenKept'
      BY <1>0, <2>1, <2>2 DEF Durability, OpenKept, Open, Due
    <2>5. FinalKept' /\ UnknownUnfinalized'
      BY <1>0, <2>1 DEF Durability, FinalKept, UnknownUnfinalized, Final, Due
    <2>6. TailSound' /\ SimulatedUnknown'
      BY <1>0, <2>1 DEF Durability, TailSound, SimulatedUnknown
    <2> QED
      BY <1>d, <2>3, <2>4, <2>5, <2>6 DEF Durability
  <1>2. ASSUME NEW h \in Hashes, MarkSubmitting(h)
        PROVE  Durability'
    <2>1. /\ tail.stmt = "markSubmitting" /\ h \in tail.ops /\ Row(h)
          /\ tail'.stmt \in {"idle", "markSubmitting"} /\ tail'.ops = tail.ops \ {h}
          /\ tail'.stmt = "idle" => tail'.ops = {}
          /\ mem[h] = AsSubmitting(pendingDb[h], mem[h].submissionStartedAt)
          /\ UNCHANGED <<mem, finalizedDb>>
      BY <1>2 DEF MarkSubmitting, Executes, Then, Idle, Durability, TailSound
    <2>2. pendingDb' = [pendingDb EXCEPT ![h] = mem[h]]
      BY <1>2, <2>1 DEF MarkSubmitting
    <2>3. mem[h].state = "submitting"
      BY <1>0, <2>1, SubmittingColumns
    <2>4. RowsSound'
      BY <1>0, <2>1, <2>2, <2>3 DEF Durability, RowsSound, MayBe, OpenStates
    <2>5. OpenKept'
      BY <1>0, <2>1, <2>2 DEF Durability, OpenKept, Open, Due
    <2>6. FinalKept' /\ UnknownUnfinalized'
      BY <1>0, <2>1 DEF Durability, FinalKept, UnknownUnfinalized, Final, Due
    <2>7. TailSound' /\ SimulatedUnknown'
      BY <1>0, <2>1, <2>2 DEF Durability, TailSound, SimulatedUnknown, Row
    <2> QED
      BY <1>d, <2>4, <2>5, <2>6, <2>7 DEF Durability
  <1>3. ASSUME NEW h \in Hashes, MarkPending(h)
        PROVE  Durability'
    <2>1. /\ tail.stmt = "markPending" /\ h \in tail.ops /\ Row(h)
          /\ tail'.stmt \in {"idle", "markPending"} /\ tail'.ops = tail.ops \ {h}
          /\ tail'.stmt = "idle" => tail'.ops = {}
          /\ mem[h] = AsPending(pendingDb[h])
          /\ UNCHANGED <<mem, finalizedDb>>
      BY <1>3 DEF MarkPending, Executes, Then, Idle, Durability, TailSound
    <2>2. pendingDb' = [pendingDb EXCEPT ![h] = mem[h]]
      BY <1>3, <2>1 DEF MarkPending
    <2>3. mem[h].state = "pending"
      BY <1>0, <2>1, ReleasedColumns
    <2>4. RowsSound'
      BY <1>0, <2>1, <2>2, <2>3 DEF Durability, RowsSound, MayBe, OpenStates
    <2>5. OpenKept'
      BY <1>0, <2>1, <2>2 DEF Durability, OpenKept, Open, Due
    <2>6. FinalKept' /\ UnknownUnfinalized'
      BY <1>0, <2>1 DEF Durability, FinalKept, UnknownUnfinalized, Final, Due
    <2>7. TailSound' /\ SimulatedUnknown'
      BY <1>0, <2>1, <2>2 DEF Durability, TailSound, SimulatedUnknown, Row
    <2> QED
      BY <1>d, <2>4, <2>5, <2>6, <2>7 DEF Durability
  <1>4. ASSUME RecordTx
        PROVE  Durability'
    <2>1. /\ tail.stmt = "recordTx" /\ tail'.stmt = "idle" /\ tail'.ops = {}
          /\ UNCHANGED <<mem, finalizedDb>>
          /\ \A h \in tail.ops : Row(h) /\ mem[h] = WithTx(pendingDb[h], mem[h].submissionTxHash)
      BY <1>4 DEF RecordTx, Idle, Durability, TailSound
    <2>2. \A h \in Hashes : pendingDb'[h] = IF h \in tail.ops THEN mem[h] ELSE pendingDb[h]
      BY <1>4, <2>1 DEF RecordTx
    <2>3. \A h \in tail.ops : mem[h].state = "submitting"
      BY <1>0, <2>1, RecordedColumns
    <2>4. RowsSound'
      BY <1>0, <2>1, <2>2, <2>3 DEF Durability, RowsSound, MayBe, OpenStates
    <2>5. OpenKept'
      BY <1>0, <2>1, <2>2 DEF Durability, OpenKept, Open, Due
    <2>6. FinalKept' /\ UnknownUnfinalized'
      BY <1>0, <2>1 DEF Durability, FinalKept, UnknownUnfinalized, Final, Due
    <2>7. TailSound' /\ SimulatedUnknown'
      BY <1>0, <2>1 DEF Durability, TailSound, SimulatedUnknown
    <2> QED
      BY <1>d, <2>4, <2>5, <2>6, <2>7 DEF Durability
  <1>5. ASSUME NEW h \in Hashes, DeleteFinalized(h)
        PROVE  Durability'
    <2>1. /\ tail.stmt = "deleteFinalized" /\ h \in tail.ops
          /\ tail'.stmt = "savePending" /\ tail'.ops = {h}
          /\ finalizedDb' = [finalizedDb EXCEPT ![h] = NoOperation]
          /\ UNCHANGED <<mem, pendingDb>>
      BY <1>5 DEF DeleteFinalized, Executes, Then
    <2>2. Open(h) /\ tail.ops = {h}
      BY <2>1 DEF Durability, TailSound
    <2>3. RowsSound'
      BY <1>0, <2>1 DEF Durability, RowsSound, MayBe
    <2>4. OpenKept'
      BY <1>0, <2>1, <2>2 DEF Durability, OpenKept, Open, Due
    <2>5. FinalKept' /\ UnknownUnfinalized'
      BY <1>0, <2>1, <2>2
      DEF Durability, FinalKept, UnknownUnfinalized, Open, Final, OpenStates, FinalStates, Due
    <2>6. TailSound' /\ SimulatedUnknown'
      BY <1>0, <2>1, <2>2 DEF Durability, TailSound, SimulatedUnknown, Open
    <2> QED
      BY <1>d, <2>3, <2>4, <2>5, <2>6 DEF Durability
  <1>6. ASSUME NEW h \in Hashes, SaveFinalized(h)
        PROVE  Durability'
    <2>1. /\ tail.stmt = "saveFinalized" /\ h \in tail.ops
          /\ tail'.stmt = "removePending" /\ tail'.ops = {h}
          /\ finalizedDb' = [finalizedDb EXCEPT ![h] = mem[h]]
          /\ UNCHANGED <<mem, pendingDb>>
      BY <1>6 DEF SaveFinalized, Executes, Then
    <2>2. Final(h) /\ tail.ops = {h}
      BY <2>1 DEF Durability, TailSound
    <2>3. RowsSound'
      BY <1>0, <2>1, <2>2 DEF Durability, RowsSound, MayBe, Final, FinalStates
    <2>4. OpenKept'
      BY <1>0, <2>1, <2>2 DEF Durability, OpenKept, Open, Final, OpenStates, FinalStates, Due
    <2>5. FinalKept' /\ UnknownUnfinalized'
      BY <1>0, <2>1, <2>2 DEF Durability, FinalKept, UnknownUnfinalized, Final, FinalStates, Due
    <2>6. TailSound' /\ SimulatedUnknown'
      BY <1>0, <2>1, <2>2 DEF Durability, TailSound, SimulatedUnknown, Final
    <2> QED
      BY <1>d, <2>3, <2>4, <2>5, <2>6 DEF Durability
  <1>7. ASSUME NEW h \in Hashes, RemovePending(h)
        PROVE  Durability'
    <2>1. /\ tail.stmt = "removePending" /\ h \in tail.ops
          /\ tail'.stmt = "prune" /\ tail'.ops = {}
          /\ pendingDb' = [pendingDb EXCEPT ![h] = NoOperation]
          /\ UNCHANGED <<mem, finalizedDb>>
      BY <1>7 DEF RemovePending, Executes
    <2>2. Final(h) /\ tail.ops = {h}
      BY <2>1 DEF Durability, TailSound
    <2>3. RowsSound'
      BY <1>0, <2>1 DEF Durability, RowsSound, MayBe
    <2>4. OpenKept'
      BY <1>0, <2>1, <2>2 DEF Durability, OpenKept, Open, Final, OpenStates, FinalStates, Due
    <2>5. FinalKept' /\ UnknownUnfinalized'
      BY <1>0, <2>1 DEF Durability, FinalKept, UnknownUnfinalized, Final, Due
    <2>6. TailSound' /\ SimulatedUnknown'
      BY <1>0, <2>1 DEF Durability, TailSound, SimulatedUnknown
    <2> QED
      BY <1>d, <2>3, <2>4, <2>5, <2>6 DEF Durability
  <1>8. ASSUME PruneFinalized
        PROVE  Durability'
    <2>1. PICK K \in Retained :
            LET dropped == FinalizedRows \ K IN
            /\ finalizedDb' = [h \in Hashes |->
                                 IF h \in dropped THEN NoOperation ELSE finalizedDb[h]]
            /\ mem' = [h \in Hashes |->
                         IF h \in dropped /\ Final(h) THEN NoOperation ELSE mem[h]]
      BY <1>8 DEF PruneFinalized
    <2> DEFINE dropped == FinalizedRows \ K
    <2>2. /\ tail.ops = {} /\ tail.stmt = "prune"
          /\ tail'.stmt = "idle" /\ tail'.ops = {}
          /\ UNCHANGED pendingDb
      BY <1>8 DEF PruneFinalized, Idle, Durability, TailSound
    <2>3. /\ \A h \in Hashes : finalizedDb'[h] =
               IF h \in dropped THEN NoOperation ELSE finalizedDb[h]
          /\ \A h \in Hashes : mem'[h] =
               IF h \in dropped /\ Final(h) THEN NoOperation ELSE mem[h]
          /\ \A h \in dropped : finalizedDb[h] # NoOperation
      BY <1>0, <2>1 DEF FinalizedRows
    <2> HIDE DEF dropped
    <2>4. RowsSound'
      BY <1>0, <2>2, <2>3 DEF Durability, RowsSound, MayBe
    <2>5. OpenKept'
      BY <1>0, <2>2, <2>3 DEF Durability, OpenKept, Open, OpenStates, Due
    <2>6. FinalKept'
      BY <1>0, <2>2, <2>3 DEF Durability, FinalKept, Final, FinalStates, Due
    <2>7. UnknownUnfinalized'
      BY <1>0, <2>2, <2>3 DEF Durability, FinalKept, UnknownUnfinalized, Final, Due
    <2>8. TailSound' /\ SimulatedUnknown'
      BY <1>0, <2>2, <2>3, MempoolAssumption DEF Durability, TailSound, SimulatedUnknown
    <2> QED
      BY <1>d, <2>4, <2>5, <2>6, <2>7, <2>8 DEF Durability
  <1> QED
    BY <1>1, <1>2, <1>3, <1>4, <1>5, <1>6, <1>7, <1>8 DEF ExecuteStatement

-----------------------------------------------------------------------------
(* So do crashes and restarts. *)

LEMMA CrashDurability ==
  ASSUME TypeOK, Durability, Crash
  PROVE  Durability'
  <1>1. /\ \A h \in Hashes : mem'[h] = NoOperation
        /\ \A r \in Requests : request'[r] = NoHash
        /\ UNCHANGED <<pendingDb, finalizedDb>> /\ tail' = Idle
        /\ ~up' /\ NoOperation.state = "none"
    BY DEF Crash, NoOperation
  <1>2. RowsSound'
    BY <1>1 DEF Durability, RowsSound, MayBe
  <1>3. OpenKept' /\ FinalKept' /\ UnknownUnfinalized'
    BY <1>1 DEF OpenKept, FinalKept, UnknownUnfinalized, Open, Final, OpenStates, FinalStates
  <1>4. TailSound' /\ SimulatedUnknown' /\ DownIdle'
    BY <1>1 DEF TailSound, SimulatedUnknown, DownIdle, Idle
  <1> QED
    BY <1>2, <1>3, <1>4 DEF Durability

LEMMA RestartDurability ==
  ASSUME TypeOK, Durability, Restart
  PROVE  Durability'
  <1>1. /\ \A h \in Hashes : mem'[h] = Durable(h)
        /\ \A r \in Requests : request'[r] = NoHash
        /\ UNCHANGED <<pendingDb, finalizedDb>>
        /\ tail'.stmt = "prune" /\ tail'.ops = {}
        /\ up' /\ NoOperation.state = "none"
    BY DEF Restart, NoOperation, Durability, DownIdle
  <1>2. \A h \in Hashes : /\ MayBe(pendingDb[h], OpenStates)
                          /\ MayBe(finalizedDb[h], FinalStates)
    BY DEF Durability, RowsSound
  <1>3. RowsSound'
    BY <1>1, <1>2 DEF RowsSound, MayBe, Durable
  <1>4. OpenKept'
    BY <1>1, <1>2 DEF OpenKept, Open, Durable, MayBe, OpenStates, FinalStates
  <1>5. FinalKept' /\ UnknownUnfinalized'
    BY <1>1, <1>2
    DEF FinalKept, UnknownUnfinalized, Final, Durable, MayBe, OpenStates, FinalStates
  <1>6. TailSound' /\ SimulatedUnknown' /\ DownIdle'
    BY <1>1 DEF TailSound, SimulatedUnknown, DownIdle
  <1> QED
    BY <1>3, <1>4, <1>5, <1>6 DEF Durability

-----------------------------------------------------------------------------
(* The theorem. *)

LEMMA NextDurability ==
  ASSUME SequentialAdmission, TypeOK, Durability, [MempoolNext]_mempoolVars
  PROVE  Durability'
  <1>1. TypeOK'
    BY NextTypeOK
  <1>2. CASE Crash
    BY <1>2, CrashDurability
  <1>3. CASE Restart
    BY <1>3, RestartDurability
  <1>4. CASE TimePasses \/ UNCHANGED mempoolVars
    BY <1>4, UntouchedDurability DEF TimePasses, mempoolVars
  <1> QED
    BY <1>1, <1>2, <1>3, <1>4, SendDurability, CallerDurability, StatementDurability
    DEF MempoolNext

LEMMA DurabilityRestarts == TypeOK /\ Durability => RestartLosesNothing
  <1> SUFFICES ASSUME TypeOK, Durability, Ready, NEW h \in Hashes, mem[h].state # "none"
               PROVE  Durable(h) = mem[h]
    BY DEF RestartLosesNothing
  <1>1. CASE Open(h)
    BY <1>1, Settled DEF Durable
  <1>2. CASE Final(h)
    <2>1. finalizedDb[h] = mem[h] /\ NoOperation.state = "none"
      BY <1>2, Settled DEF NoOperation
    <2> QED
      BY <2>1 DEF Durable
  <1>3. Open(h) \/ Final(h)
    BY DEF TypeOK, StoredUserOperation, Open, Final
  <1> QED
    BY <1>1, <1>2, <1>3

LEMMA DurabilityInvariant ==
  ASSUME SequentialAdmission
  PROVE  MempoolSpec => [](TypeOK /\ Durability)
  <1>1. MempoolInit => TypeOK /\ Durability
    BY InitTypeOK, InitDurability
  <1>2. TypeOK /\ Durability /\ [MempoolNext]_mempoolVars => TypeOK' /\ Durability'
    BY NextTypeOK, NextDurability
  <1> QED
    BY <1>1, <1>2, PTL DEF MempoolSpec

\* Whenever no handler is running, a restart would restore every operation the
\* mempool knows exactly as it is: whatever the statements earlier crashes cut
\* off, and however retention has pruned the finalized table.
THEOREM RestartsAreLossless ==
  ASSUME SequentialAdmission
  PROVE  MempoolSpec => []RestartLosesNothing
  BY DurabilityInvariant, DurabilityRestarts, PTL

LEMMA IncludedStep ==
  ASSUME SequentialAdmission, TypeOK, Durability, MempoolNext,
         NEW h \in Hashes, mem[h].state = "included"
  PROVE  mem'[h] = mem[h] \/ mem'[h] = NoOperation
  <1>0. /\ mem \in [Hashes -> StoredUserOperation] /\ ~Open(h) /\ up
        /\ NoOperation.state = "none"
    BY DEF TypeOK, Durability, DownIdle, NoOperation, Open, OpenStates
  <1>1. ASSUME NEW r \in Requests, SendUserOperation(r)
        PROVE  mem'[h] = mem[h]
    <2>1. request[r] # NoHash => request[r] # h
      BY <1>0 DEF Durability, SimulatedUnknown
    <2> QED
      BY <1>0, <1>1, <2>1
      DEF SendUserOperation, SendRefused, SendWithoutEffect, SendRequeue, SendAwaitSimulation,
          SendAdmit, SimulationPassed, SimulationFailed, Admit, mempoolVars
  <1>2. CASE CallerStep
    BY <1>0, <1>2
    DEF CallerStep, Claimable, Claim, Pending, Release, Submitting, RecordTransactionHash,
        MarkUserOperationFailed, FinalizeUserOperation, Open, OpenStates
  <1>3. CASE ExecuteStatement
    BY <1>0, <1>3
    DEF ExecuteStatement, SavePending, MarkSubmitting, MarkPending, DeleteFinalized,
        SaveFinalized, RemovePending, RecordTx, PruneFinalized
  <1>4. CASE Crash \/ Restart \/ TimePasses
    BY <1>0, <1>4 DEF Crash, Restart, TimePasses
  <1> QED
    BY <1>1, <1>2, <1>3, <1>4 DEF MempoolNext

\* An operation reported included is never reported anything else.
THEOREM InclusionIsFinal ==
  ASSUME SequentialAdmission
  PROVE  MempoolSpec => IncludedStaysIncluded
  <1>1. TypeOK /\ Durability /\ [MempoolNext]_mempoolVars =>
          [\A h \in Hashes : mem[h].state = "included" =>
             mem'[h] = mem[h] \/ mem'[h] = NoOperation]_mempoolVars
    BY IncludedStep
  <1> QED
    BY <1>1, DurabilityInvariant, PTL DEF MempoolSpec, IncludedStaysIncluded

LEMMA OpenStep ==
  ASSUME TypeOK, Durability, MempoolNext, NEW h \in Hashes, Durable(h).state \in OpenStates
  PROVE  Durable(h)'.state # "none"
  <1>0. /\ pendingDb \in [Hashes -> StoredUserOperation]
        /\ finalizedDb \in [Hashes -> StoredUserOperation]
        /\ mem \in [Hashes -> StoredUserOperation]
        /\ NoOperation.state = "none"
        /\ finalizedDb[h] = NoOperation
        /\ pendingDb[h].state \in OpenStates
    BY DEF TypeOK, NoOperation, Durability, RowsSound, MayBe, Durable, OpenStates, FinalStates
  <1>1. CASE UNCHANGED <<pendingDb, finalizedDb>>
    BY <1>0, <1>1 DEF Durable, OpenStates
  <1>2. CASE ExecuteStatement
    <2>1. ASSUME NEW g \in Hashes, SavePending(g)
          PROVE  Durable(h)'.state # "none"
      BY <1>0, <2>1
      DEF SavePending, Executes, Durable, Durability, TailSound, Open, OpenStates
    <2>2. ASSUME NEW g \in Hashes, MarkSubmitting(g) \/ MarkPending(g)
          PROVE  Durable(h)'.state # "none"
      <3>1. /\ AsPending(pendingDb[h]).state # "none"
            /\ AsSubmitting(pendingDb[h], mem[g].submissionStartedAt).state # "none"
        BY <1>0, SubmittingColumns, ReleasedColumns DEF StoredUserOperation
      <3> QED
        BY <1>0, <2>2, <3>1 DEF MarkSubmitting, MarkPending, Durable, OpenStates
    <2>3. ASSUME NEW g \in Hashes, DeleteFinalized(g)
          PROVE  Durable(h)'.state # "none"
      BY <1>0, <2>3 DEF DeleteFinalized, Durable, OpenStates
    <2>4. ASSUME NEW g \in Hashes, SaveFinalized(g)
          PROVE  Durable(h)'.state # "none"
      BY <1>0, <2>4
      DEF SaveFinalized, Executes, Durable, Durability, TailSound, Final, FinalStates, OpenStates
    <2>5. ASSUME NEW g \in Hashes, RemovePending(g)
          PROVE  Durable(h)'.state # "none"
      <3>1. g # h
        BY <1>0, <2>5
        DEF RemovePending, Executes, Durability, TailSound, FinalKept, Final, FinalStates, Due
      <3> QED
        BY <1>0, <2>5, <3>1 DEF RemovePending, Durable, OpenStates
    <2>6. CASE RecordTx
      <3>1. WithTx(pendingDb[h], mem[h].submissionTxHash).state # "none"
        BY <1>0, RecordedColumns DEF StoredUserOperation
      <3> QED
        BY <1>0, <2>6, <3>1 DEF RecordTx, Durable, OpenStates
    <2>7. CASE PruneFinalized
      BY <1>0, <2>7 DEF PruneFinalized, Durable, OpenStates
    <2> QED
      BY <1>2, <2>1, <2>2, <2>3, <2>4, <2>5, <2>6, <2>7 DEF ExecuteStatement
  <1>3. ASSUME NEW r \in Requests, SendUserOperation(r)
        PROVE  UNCHANGED <<pendingDb, finalizedDb>>
    BY <1>3
    DEF SendUserOperation, SendRefused, SendWithoutEffect, SendRequeue, SendAwaitSimulation,
        SendAdmit, SimulationPassed, SimulationFailed, mempoolVars
  <1>4. CallerStep => UNCHANGED <<pendingDb, finalizedDb>>
    BY DEF CallerStep, Claim, Release, RecordTransactionHash, MarkUserOperationFailed,
           FinalizeUserOperation
  <1>5. Crash \/ Restart \/ TimePasses => UNCHANGED <<pendingDb, finalizedDb>>
    BY DEF Crash, Restart, TimePasses
  <1> QED
    BY <1>1, <1>2, <1>3, <1>4, <1>5 DEF MempoolNext

\* What a restart would load never loses an operation that was still open.
THEOREM OpenSurvives ==
  ASSUME SequentialAdmission
  PROVE  MempoolSpec => OpenNeverForgotten
  <1>1. TypeOK /\ Durability /\ [MempoolNext]_mempoolVars =>
          [\A h \in Hashes : Durable(h).state \in OpenStates =>
             Durable(h)'.state # "none"]_mempoolVars
    BY OpenStep
  <1> QED
    BY <1>1, DurabilityInvariant, PTL DEF MempoolSpec, OpenNeverForgotten

-----------------------------------------------------------------------------
(* Retention, of finitely many operations. *)

FiniteHashes == IsFiniteSet(Hashes)

\* The table exceeds the limit only between the INSERT of a result, or a
\* restart, and the pruning that ends either handler.
RowsBounded ==
  up /\ MaxFinalized > 0 /\ tail.stmt \notin {"removePending", "prune"} =>
    Cardinality(FinalizedRows) <= MaxFinalized

LEMMA FewerRows ==
  ASSUME FiniteHashes, FinalizedRows' \subseteq FinalizedRows,
         Cardinality(FinalizedRows) <= MaxFinalized
  PROVE  Cardinality(FinalizedRows') <= MaxFinalized
  <1>1. IsFiniteSet(FinalizedRows)
    BY FS_Subset DEF FiniteHashes, FinalizedRows
  <1>2. /\ Cardinality(FinalizedRows') <= Cardinality(FinalizedRows)
        /\ IsFiniteSet(FinalizedRows')
    BY <1>1, FS_Subset
  <1> QED
    BY <1>1, <1>2, FS_CardinalityType, MempoolAssumption

\* Pruning keeps as many rows as the limit allows.
LEMMA PruneBounds ==
  ASSUME TypeOK, MaxFinalized > 0, PruneFinalized
  PROVE  Cardinality(FinalizedRows') <= MaxFinalized
  <1>1. PICK K \in Retained :
          finalizedDb' = [h \in Hashes |-> IF h \in FinalizedRows \ K THEN NoOperation
                                           ELSE finalizedDb[h]]
    BY DEF PruneFinalized
  <1>2. K \subseteq FinalizedRows /\ Cardinality(K) <= MaxFinalized
    BY MempoolAssumption DEF Retained
  <1>3. NoOperation.state = "none"
    BY DEF NoOperation
  <1>4. FinalizedRows' = K
    BY <1>1, <1>2, <1>3 DEF FinalizedRows
  <1> QED
    BY <1>2, <1>4

LEMMA StatementRows ==
  ASSUME FiniteHashes, TypeOK, RowsBounded, ExecuteStatement
  PROVE  RowsBounded'
  <1>1. CASE PruneFinalized
    BY <1>1, PruneBounds DEF RowsBounded
  <1>2. CASE \E h \in Hashes : SaveFinalized(h) \/ RemovePending(h)
    <2>1. tail'.stmt \in {"removePending", "prune"}
      BY <1>2 DEF SaveFinalized, RemovePending, Then
    <2> QED
      BY <2>1 DEF RowsBounded
  <1>3. CASE RecordTx \/ \E h \in Hashes : \/ SavePending(h) \/ MarkSubmitting(h)
                                           \/ MarkPending(h) \/ DeleteFinalized(h)
    <2>1. up /\ tail.stmt \notin {"removePending", "prune"}
      BY <1>3 DEF RecordTx, SavePending, MarkSubmitting, MarkPending, DeleteFinalized, Executes
    <2>2. \/ UNCHANGED finalizedDb
          \/ \E h \in Hashes : finalizedDb' = [finalizedDb EXCEPT ![h] = NoOperation]
      BY <1>3 DEF RecordTx, SavePending, MarkSubmitting, MarkPending, DeleteFinalized
    <2>3. FinalizedRows' \subseteq FinalizedRows
      BY <2>2 DEF FinalizedRows, NoOperation, TypeOK
    <2> QED
      BY <2>1, <2>3, FewerRows DEF RowsBounded
  <1> QED
    BY <1>1, <1>2, <1>3 DEF ExecuteStatement

LEMMA NextRows ==
  ASSUME FiniteHashes, TypeOK, RowsBounded, [MempoolNext]_mempoolVars
  PROVE  RowsBounded'
  <1>1. CASE UNCHANGED mempoolVars
    BY <1>1 DEF mempoolVars, RowsBounded, FinalizedRows
  <1>2. ASSUME tail = Idle, up, UNCHANGED finalizedDb
        PROVE  RowsBounded'
    BY <1>2 DEF RowsBounded, FinalizedRows, Idle
  <1>3. ASSUME NEW r \in Requests, SendUserOperation(r)
        PROVE  RowsBounded'
    BY <1>2, <1>3 DEF SendUserOperation, SendRefused, SendWithoutEffect, SendRequeue, Checked,
           SendAwaitSimulation, SendAdmit, SimulationPassed, SimulationFailed, Ready, mempoolVars
  <1>4. CASE CallerStep
    BY <1>2, <1>4 DEF CallerStep, Claim, Release, RecordTransactionHash, MarkUserOperationFailed,
           FinalizeUserOperation, Ready
  <1>5. CASE Crash
    BY <1>5 DEF Crash, RowsBounded
  <1>6. CASE Restart
    BY <1>6 DEF Restart, RowsBounded
  <1>7. CASE TimePasses
    BY <1>2, <1>7 DEF TimePasses, Ready
  <1> QED
    BY <1>1, <1>3, <1>4, <1>5, <1>6, <1>7, StatementRows DEF MempoolNext

\* When no handler runs, what is final in memory has a row.
LEMMA RowsRetention ==
  ASSUME TypeOK, Durability, RowsBounded
  PROVE  RetentionBounded
  <1> SUFFICES ASSUME Ready, MaxFinalized > 0
               PROVE  Cardinality(FinalizedRows \cup {h \in Hashes : Final(h)}) <= MaxFinalized
    BY DEF RetentionBounded
  <1>1. {h \in Hashes : Final(h)} \subseteq FinalizedRows
    BY Settled DEF FinalizedRows, Final, FinalStates
  <1>2. FinalizedRows \cup {h \in Hashes : Final(h)} = FinalizedRows
    BY <1>1
  <1> QED
    BY <1>2 DEF RowsBounded, Ready, Idle

\* Neither the table of results nor the results in memory exceed the limit
\* when no handler runs, wherever crashes fell (index.ts:1157-1190).
THEOREM RetentionHolds ==
  ASSUME SequentialAdmission, FiniteHashes
  PROVE  MempoolSpec => []RetentionBounded
  <1>1. MempoolInit => RowsBounded
    <2>1. ASSUME MempoolInit
          PROVE  FinalizedRows = {}
      BY <2>1 DEF MempoolInit, FinalizedRows, NoOperation
    <2> QED
      BY <2>1, FS_EmptySet, MempoolAssumption DEF RowsBounded
  <1>2. TypeOK /\ RowsBounded /\ [MempoolNext]_mempoolVars => RowsBounded'
    BY NextRows
  <1>3. TypeOK /\ Durability /\ RowsBounded => RetentionBounded
    BY RowsRetention
  <1> QED
    BY <1>1, <1>2, <1>3, DurabilityInvariant, PTL DEF MempoolSpec

-----------------------------------------------------------------------------
(* Bans and throttles. *)

\* A penalty is as long as configured at most, was earned by enough failures,
\* and they are counted in a window.
PenaltyOK(r) ==
  /\ r.bannedUntil # NoTime =>
       r.failures >= BanFailures /\ r.bannedUntil <= now + BanWindow
  /\ r.throttledUntil # NoTime =>
       r.failures >= ThrottleFailures /\ r.throttledUntil <= now + ThrottleWindow
  /\ r.bannedUntil # NoTime \/ r.throttledUntil # NoTime => r.windowStartedAt # NoTime

PenaltiesOK == \A s \in Senders : PenaltyOK(reputation[s])

\* A ban is longer than no time: with a window of 0 the failure that should
\* ban would end a throttle.  The default is two minutes (index.ts:341).
BansLast == BanWindow > 0

\* The steps that touch the tracker.
LEMMA ReputationSteps ==
  ASSUME TypeOK, [MempoolNext]_mempoolVars
  PROVE  \/ reputation' = reputation /\ now' \in {now, now + 1} /\ (~up => UNCHANGED mempoolVars)
         \/ now' = now /\ up /\ \E s \in Senders : EnsureCanSubmit(s)
         \/ now' = now /\ up /\ \E s \in Senders : RecordDeterministicFailure(s)
         \/ /\ now' = now /\ up
            /\ \E h \in Hashes : /\ ClearReputation(SenderOf[h])
                                 /\ mem[h].state # "included" /\ mem'[h].state = "included"
         \/ now' = now + 1 /\ ReloadReputations(now')
  <1>0. SenderOf \in [Hashes -> Senders] /\ mem \in [Hashes -> StoredUserOperation]
        /\ request \in [Requests -> Hashes \cup {NoHash}]
    BY MempoolAssumption DEF TypeOK
  <1>1. ASSUME NEW r \in Requests, SendUserOperation(r)
        PROVE  /\ now' = now /\ up
               /\ \/ reputation' = reputation
                  \/ \E s \in Senders : EnsureCanSubmit(s) \/ RecordDeterministicFailure(s)
    BY <1>0, <1>1 DEF SendUserOperation, SendRefused, SendWithoutEffect, SendRequeue, Checked,
       SendAwaitSimulation, SendAdmit, SimulationPassed, SimulationFailed, Ready, mempoolVars
  <1>2. ASSUME NEW h \in Hashes, Open(h), NEW t, NEW ok, FinalizeUserOperation(h, t, ok)
        PROVE  /\ now' = now /\ up
               /\ \/ reputation' = reputation
                  \/ /\ ClearReputation(SenderOf[h])
                     /\ mem[h].state # "included" /\ mem'[h].state = "included"
    BY <1>0, <1>2 DEF FinalizeUserOperation, Ready, Open, OpenStates, AsFinal, StoredUserOperation
  <1>3. CASE CallerStep
    <2>1. \/ now' = now /\ up /\ reputation' = reputation
          \/ \E h \in Hashes : Open(h) /\ MarkUserOperationFailed(h)
          \/ \E h \in Hashes : Open(h) /\ \E t \in Txs, ok \in BOOLEAN : FinalizeUserOperation(h, t, ok)
      BY <1>3 DEF CallerStep, Claim, Release, RecordTransactionHash, Ready
    <2>2. ASSUME NEW h \in Hashes, MarkUserOperationFailed(h)
          PROVE  now' = now /\ up /\ \E s \in Senders : RecordDeterministicFailure(s)
      BY <1>0, <2>2 DEF MarkUserOperationFailed, Ready
    <2> QED
      BY <1>2, <2>1, <2>2
  <1>4. CASE ExecuteStatement
    BY <1>4 DEF ExecuteStatement, SavePending, MarkSubmitting, MarkPending, DeleteFinalized,
                SaveFinalized, RemovePending, RecordTx, PruneFinalized, Executes
  <1>5. CASE Crash \/ TimePasses
    BY <1>5 DEF Crash, TimePasses, Ready, Tick
  <1>6. CASE Restart
    BY <1>6 DEF Restart, Tick
  <1>7. CASE UNCHANGED mempoolVars
    BY <1>7 DEF mempoolVars
  <1> QED
    BY <1>1, <1>3, <1>4, <1>5, <1>6, <1>7 DEF MempoolNext

\* What a look and a failure leave of an entry.
LEMMA PenaltyResolved ==
  ASSUME TypeOK, PenaltiesOK, NEW s \in Senders
  PROVE  PenaltyOK(Resolve(s, now))
  BY DEF TypeOK, ReputationTypeOK, Reputations, PenaltiesOK, PenaltyOK, Resolve, NoReputation,
         Lapse

LEMMA PenaltyAfterFailure ==
  ASSUME TypeOK, PenaltiesOK, NEW s \in Senders
  PROVE  /\ PenaltyOK(AfterFailure(s))
         /\ AfterFailure(s).failures = Resolve(s, now).failures + 1
         /\ Resolve(s, now).failures \in Nat
  <1>1. Resolve(s, now) \in Reputations /\ now \in Nat \ {0}
    BY ResolveType DEF TypeOK, ReputationTypeOK
  <1> QED
    BY <1>1, ReputationAssumption DEF PenaltyOK, AfterFailure, Reputations

LEMMA NextPenalties ==
  ASSUME TypeOK, PenaltiesOK, [MempoolNext]_mempoolVars
  PROVE  PenaltiesOK'
  <1>0. /\ now \in Nat \ {0} /\ reputation \in [Senders -> Reputations]
        /\ {BanWindow, ThrottleWindow} \subseteq Nat
    BY ReputationAssumption DEF TypeOK, ReputationTypeOK
  <1>1. ASSUME NEW r \in Reputations, PenaltyOK(r), now' \in {now, now + 1}
        PROVE  PenaltyOK(r)'
    BY <1>0, <1>1 DEF PenaltyOK, Reputations
  <1>2. ASSUME NEW s \in Senders, NEW r \in Reputations, PenaltyOK(r), now' = now,
               reputation' = [reputation EXCEPT ![s] = r]
        PROVE  PenaltiesOK'
    BY <1>0, <1>2 DEF PenaltiesOK, PenaltyOK
  <1>3. NoReputation \in Reputations /\ PenaltyOK(NoReputation)
    BY DEF NoReputation, Reputations, PenaltyOK
  <1>4. CASE reputation' = reputation /\ now' \in {now, now + 1}
    BY <1>0, <1>1, <1>4 DEF PenaltiesOK
  <1>5. ASSUME NEW s \in Senders, now' = now, EnsureCanSubmit(s)
        PROVE  PenaltiesOK'
    BY <1>2, <1>5, ResolveType, PenaltyResolved DEF EnsureCanSubmit, TypeOK
  <1>6. ASSUME NEW s \in Senders, now' = now, RecordDeterministicFailure(s)
        PROVE  PenaltiesOK'
    BY <1>2, <1>6, AfterFailureType, PenaltyAfterFailure DEF RecordDeterministicFailure, TypeOK
  <1>7. ASSUME NEW s \in Senders, now' = now, ClearReputation(s)
        PROVE  PenaltiesOK'
    BY <1>2, <1>3, <1>7 DEF ClearReputation
  <1>8. CASE now' = now + 1 /\ ReloadReputations(now')
    BY <1>0, <1>1, <1>3, <1>8 DEF ReloadReputations, PenaltiesOK
  <1> QED
    BY <1>4, <1>5, <1>6, <1>7, <1>8, ReputationSteps, MempoolAssumption

\* What a penalty gives way to.
LEMMA PenaltyStep ==
  ASSUME BansLast, TypeOK, PenaltiesOK, [MempoolNext]_mempoolVars,
         NEW s \in Senders, Refused(s, now), ~Refused(s, now)', now' = now
  PROVE  \E h \in Hashes : /\ SenderOf[h] = s
                           /\ mem[h].state # "included" /\ mem'[h].state = "included"
  <1>0. /\ now \in Nat \ {0} /\ reputation \in [Senders -> Reputations]
        /\ {BanFailures, ThrottleFailures, BanWindow, ThrottleWindow, ReputationWindow} \subseteq Nat
        /\ BanWindow > 0
    BY ReputationAssumption DEF TypeOK, ReputationTypeOK, BansLast
  <1>1. reputation'[s] # reputation[s]
    BY DEF Refused, Resolve, WindowOver
  <1>2. ASSUME NEW p \in Senders, EnsureCanSubmit(p)
        PROVE  FALSE
    BY <1>0, <1>1, <1>2 DEF EnsureCanSubmit
  <1>3. ASSUME NEW p \in Senders, RecordDeterministicFailure(p)
        PROVE  FALSE
    <2> DEFINE r == reputation[s]
               n == AfterFailure(s)
    <2>1. p = s /\ reputation'[s] = n
      BY <1>0, <1>1, <1>3 DEF RecordDeterministicFailure
    <2>2. r \in Reputations /\ PenaltyOK(r)
      BY <1>0 DEF PenaltiesOK
    <2>3. ~WindowOver(r, now)
      BY <1>0 DEF Refused, Resolve, NoReputation
    <2>4. Resolve(s, now) = [r EXCEPT !.bannedUntil = Lapse(@, now), !.throttledUntil = Lapse(@, now)]
      BY <2>3 DEF Resolve
    <2>5. r.bannedUntil > now \/ r.throttledUntil > now
      BY <1>0, <2>2, <2>4 DEF Refused, Lapse, Reputations
    <2>6. r.windowStartedAt # NoTime /\ (r.failures + 1 >= BanFailures \/
            (r.failures + 1 >= ThrottleFailures /\ ThrottleWindow > 0))
      BY <1>0, <2>2, <2>5 DEF PenaltyOK, Reputations
    <2>7. /\ Resolve(s, now).failures = r.failures
          /\ Resolve(s, now).windowStartedAt = r.windowStartedAt
      BY <2>2, <2>4 DEF Reputations
    <2>8. /\ n.windowStartedAt = r.windowStartedAt
          /\ n.bannedUntil > now \/ n.throttledUntil > now
          /\ n \in Reputations
      BY <1>0, <2>2, <2>6, <2>7, AfterFailureType DEF AfterFailure, Reputations, TypeOK
    <2>9. ~WindowOver(n, now)
      BY <2>3, <2>8 DEF WindowOver
    <2>10. Refused(s, now)'
      BY <1>0, <2>1, <2>8, <2>9 DEF Refused, Resolve, WindowOver, Lapse, Reputations
    <2> QED
      BY <2>10
  <1>4. ~(now' = now + 1)
    BY <1>0
  <1>5. PICK h \in Hashes : /\ ClearReputation(SenderOf[h])
                            /\ mem[h].state # "included" /\ mem'[h].state = "included"
    BY <1>1, <1>2, <1>3, <1>4, ReputationSteps
  <1>6. SenderOf[h] = s
    BY <1>0, <1>1, <1>5 DEF ClearReputation
  <1> QED
    BY <1>5, <1>6

\* A ban or a throttle ends by time or by an operation of the sender that is
\* included, and by nothing else: for any thresholds and windows, wherever
\* crashes fall (reputation.ts:74-114 and 126-164).
THEOREM PenaltiesLast ==
  ASSUME BansLast
  PROVE  MempoolSpec => PenaltyEndsByTimeOrInclusion
  <1>1. MempoolInit => PenaltiesOK
    <2>1. PenaltyOK(NoReputation)
      BY DEF PenaltyOK, NoReputation
    <2> QED
      BY <2>1 DEF MempoolInit, ReputationInit, PenaltiesOK
  <1>2. TypeOK /\ PenaltiesOK /\ [MempoolNext]_mempoolVars => PenaltiesOK'
    BY NextPenalties
  <1>3. TypeOK /\ PenaltiesOK /\ [MempoolNext]_mempoolVars =>
          [\A s \in Senders : Refused(s, now) /\ ~Refused(s, now)' =>
             \/ now' # now
             \/ \E h \in Hashes : /\ SenderOf[h] = s
                                  /\ mem[h].state # "included" /\ mem'[h].state = "included"]_mempoolVars
    BY PenaltyStep
  <1> QED
    BY <1>1, <1>2, <1>3, MempoolTypeCorrect, PTL DEF MempoolSpec, PenaltyEndsByTimeOrInclusion

\* A restart neither lifts a penalty nor prolongs it, whenever the process
\* comes back and whatever rows it drops (persistence.ts:388-394).
THEOREM RestartsKeepPenalties == MempoolSpec => RestartKeepsPenalties
  <1>1. ASSUME TypeOK, MempoolNext, ~up, NEW s \in Senders
        PROVE  Refused(s, now)' <=> Refused(s, now')
    <2>0. now \in Nat \ {0} /\ reputation \in [Senders -> Reputations]
      BY <1>1 DEF TypeOK, ReputationTypeOK
    <2>1. CASE reputation' = reputation /\ now' = now
      BY <2>1 DEF Refused, Resolve
    <2>2. CASE now' = now + 1 /\ ReloadReputations(now')
      <3>1. now' \in Nat /\ reputation[s] \in Reputations
        BY <2>0, <2>2
      <3>2. CASE BanServed(reputation[s], now')
        <4>1. reputation'[s] = NoReputation
          BY <2>2, <3>2 DEF ReloadReputations
        <4>2. ~Refused(s, now)'
          BY <3>1, <4>1 DEF Refused, Resolve, NoReputation, WindowOver, Lapse
        <4>3. ~Refused(s, now')
          BY <3>1, <3>2 DEF Refused, Resolve, NoReputation, Lapse, BanServed, Reputations
        <4> QED
          BY <4>2, <4>3
      <3>3. CASE ~BanServed(reputation[s], now')
        <4>1. reputation'[s] = reputation[s]
          BY <2>2, <3>3 DEF ReloadReputations
        <4> QED
          BY <4>1 DEF Refused, Resolve
      <3> QED
        BY <3>2, <3>3
    <2> QED
      BY <1>1, <2>1, <2>2, ReputationSteps DEF mempoolVars
  <1>2. TypeOK /\ [MempoolNext]_mempoolVars =>
          [~up => \A s \in Senders : Refused(s, now)' <=> Refused(s, now')]_mempoolVars
    BY <1>1
  <1> QED
    BY <1>2, MempoolTypeCorrect, PTL DEF MempoolSpec, RestartKeepsPenalties
=============================================================================
