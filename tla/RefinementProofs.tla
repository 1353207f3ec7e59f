-------------------------- MODULE RefinementProofs --------------------------
(***************************************************************************)
(* Where the process dies between handlers only: one open operation per    *)
(* sender and nonce, restarts that invent nothing, and, where simulations  *)
(* do not overlap, the mempool as an implementation of the ledger.  For    *)
(* every set of operations and every retention limit.  A crash between two *)
(* statements does break the first two: see the run MempoolZombie.         *)
(***************************************************************************)
EXTENDS MempoolProofs

CrashBetweenHandlers == ~CrashInHandler

-----------------------------------------------------------------------------
(* The inductive invariant, on top of Durability. *)

\* A pending row belongs to an open operation, or its deletion is due.
PendingRowsOpen ==
  up => \A h \in Hashes :
    pendingDb[h] # NoOperation =>
      Open(h) \/ Due("saveFinalized", h) \/ Due("removePending", h)

\* What the next start will load.
DownRowsSound ==
  ~up => \A h \in Hashes : pendingDb[h] # NoOperation =>
    /\ finalizedDb[h] = NoOperation
    /\ \A g \in Hashes : g # h /\ pendingDb[g] # NoOperation => ~SameSlot(g, h)

\* The conflict check made before the simulation still holds after it.
SimulatedFree ==
  \A r \in Requests : request[r] # NoHash => ~Conflict(request[r])

Slots == OneOpenPerSlot /\ PendingRowsOpen /\ DownRowsSound /\ SimulatedFree

LEMMA InitSlots == MempoolInit => Slots
  BY DEF MempoolInit, Slots, OneOpenPerSlot, PendingRowsOpen, DownRowsSound, SimulatedFree,
         NoOperation, Open, OpenStates

-----------------------------------------------------------------------------
(* No step breaks it. *)

\* Steps that open no operation and touch no row.
LEMMA KeptSlots ==
  ASSUME Slots, up, up', UNCHANGED pendingDb,
         \A h \in Hashes : Open(h)' => Open(h),
         \A h \in Hashes : Open(h) /\ ~Open(h)' => Due("saveFinalized", h)',
         \A h \in Hashes : Due("saveFinalized", h) \/ Due("removePending", h) => FALSE,
         \A r \in Requests : request'[r] \in {request[r], NoHash}
  PROVE  Slots'
  <1>1. OneOpenPerSlot'
    BY DEF Slots, OneOpenPerSlot, SameSlot
  <1>2. PendingRowsOpen'
    BY DEF Slots, PendingRowsOpen
  <1>3. DownRowsSound'
    BY DEF DownRowsSound
  <1>4. SimulatedFree'
    BY DEF Slots, SimulatedFree, Conflict, SameSlot
  <1> QED
    BY <1>1, <1>2, <1>3, <1>4 DEF Slots

\* A handler that opens h, for which there is no conflict.
LEMMA OpenedSlots ==
  ASSUME TypeOK, Slots, Ready, up', UNCHANGED pendingDb, NEW h \in Hashes, ~Conflict(h),
         \A g \in Hashes \ {h} : mem'[g] = mem[g],
         mem'[h].state = "pending",
         \A r \in Requests : request'[r] = NoHash
  PROVE  Slots'
  <1>1. \A g \in Hashes \ {h} : Open(g)' <=> Open(g)
    BY DEF Open
  <1>2. Open(h)' /\ up
    BY DEF Open, OpenStates, Ready
  <1>3. OneOpenPerSlot'
    <2> SUFFICES ASSUME NEW f \in Hashes, NEW g \in Hashes, f # g, Open(f)', Open(g)'
                 PROVE  ~SameSlot(f, g)
      BY DEF OneOpenPerSlot, SameSlot
    <2>1. CASE f # h /\ g # h
      BY <1>1, <2>1 DEF Slots, OneOpenPerSlot
    <2>2. CASE f = h \/ g = h
      BY <1>1, <2>2 DEF Conflict, SameSlot
    <2> QED
      BY <2>1, <2>2
  <1>4. PendingRowsOpen'
    BY <1>1, <1>2 DEF Slots, PendingRowsOpen, Ready, Idle, Due
  <1>5. DownRowsSound' /\ SimulatedFree'
    BY DEF DownRowsSound, SimulatedFree
  <1> QED
    BY <1>3, <1>4, <1>5 DEF Slots

LEMMA SendSlots ==
  ASSUME SequentialAdmission, TypeOK, Durability, Slots,
         NEW r \in Requests, SendUserOperation(r)
  PROVE  Slots'
  <1>0. /\ mem \in [Hashes -> StoredUserOperation]
        /\ request \in [Requests -> Hashes \cup {NoHash}]
        /\ up /\ tail = Idle
    BY DEF TypeOK, SendUserOperation, SendRefused, SendWithoutEffect, SendRequeue, Checked,
           SendAwaitSimulation, SendAdmit, SimulationPassed, SimulationFailed, Ready
  <1>1. ASSUME NEW h \in Hashes, SendRefused(r, h) \/ SendWithoutEffect(r, h)
        PROVE  Slots'
    <2>1. UNCHANGED <<up, mem, pendingDb, request, tail>>
      BY <1>1 DEF SendRefused, SendWithoutEffect, mempoolVars
    <2> QED
      BY <1>0, <2>1, KeptSlots DEF Open, Due, Idle
  <1>2. ASSUME NEW h \in Hashes, NEW c \in BOOLEAN, SendRequeue(r, h, c)
        PROVE  Slots'
    <2>1. request[r] = NoHash /\ mem[h].state = "failed"
      BY <1>2 DEF SendRequeue, Checked
    <2>2. ASSUME NEW q \in Requests, request[q] # NoHash
          PROVE  FALSE
      BY <2>1, <2>2 DEF Durability, SimulatedUnknown, SequentialAdmission
    <2>3. PendingOperation(c).state = "pending"
      BY PendingColumns
    <2> QED
      BY <1>0, <1>2, <2>2, <2>3, OpenedSlots DEF SendRequeue, Ready
  <1>3. ASSUME NEW h \in Hashes, SendAwaitSimulation(r, h)
        PROVE  Slots'
    <2>1. /\ UNCHANGED <<up, mem, pendingDb, finalizedDb, tail>>
          /\ request' = [request EXCEPT ![r] = h] /\ ~Conflict(h)
      BY <1>3 DEF SendAwaitSimulation
    <2>2. SimulatedFree'
      BY <1>0, <2>1 DEF Slots, SimulatedFree, Conflict, SameSlot, Open
    <2> QED
      BY <2>1, <2>2
      DEF Slots, OneOpenPerSlot, PendingRowsOpen, DownRowsSound, Open, Due, SameSlot
  <1>4. ASSUME NEW h \in Hashes, SendAdmit(r, h)
        PROVE  Slots'
    <2>1. \A q \in Requests : request[q] = NoHash
      BY <1>4 DEF SendAdmit, Durability, SimulatedUnknown
    <2>2. PendingOperation(TRUE).state = "pending"
      BY PendingColumns
    <2> QED
      BY <1>0, <1>4, <2>1, <2>2, OpenedSlots DEF SendAdmit, Admit, Ready
  <1>5. ASSUME SimulationPassed(r)
        PROVE  Slots'
    <2>1. HasAdmissionSimulator /\ request[r] \in Hashes /\ ~Conflict(request[r])
      BY <1>0, <1>5, MempoolAssumption
      DEF SimulationPassed, Durability, SimulatedUnknown, Slots, SimulatedFree
    <2>2. \A q \in Requests : request'[q] = NoHash
      BY <1>0, <1>5, <2>1 DEF SimulationPassed, SequentialAdmission
    <2>3. PendingOperation(TRUE).state = "pending"
      BY PendingColumns
    <2> QED
      BY <1>0, <1>5, <2>1, <2>2, <2>3, OpenedSlots DEF SimulationPassed, Admit, Ready
  <1>6. ASSUME SimulationFailed(r)
        PROVE  Slots'
    <2>1. /\ UNCHANGED <<up, mem, pendingDb, tail>>
          /\ \A q \in Requests : request'[q] \in {request[q], NoHash}
      BY <1>0, <1>6 DEF SimulationFailed
    <2> QED
      BY <1>0, <2>1, KeptSlots DEF Open, Due, Idle
  <1> QED
    BY <1>1, <1>2, <1>3, <1>4, <1>5, <1>6 DEF SendUserOperation

LEMMA CallerSlots ==
  ASSUME TypeOK, Durability, Slots, CallerStep
  PROVE  Slots'
  <1>0. /\ mem \in [Hashes -> StoredUserOperation]
        /\ UNCHANGED <<up, pendingDb, request>>
        /\ up /\ tail = Idle
    BY DEF TypeOK, CallerStep, Claim, Release, RecordTransactionHash, FinalizeUserOperation,
           MarkUserOperationFailed, Ready
  <1>1. \A h \in Hashes : ~(Due("saveFinalized", h) \/ Due("removePending", h))
    BY <1>0 DEF Due, Idle
  <1>2. ASSUME NEW S \in SUBSET Pending, Claim(S)
        PROVE  Slots'
    <2>1. \A h \in Hashes : Open(h)' <=> Open(h)
      <3>1. \A h \in S : AsSubmitting(mem[h], now).state = "submitting"
        BY <1>0, SubmittingColumns DEF Pending, TypeOK, ReputationTypeOK
      <3> QED
        BY <1>2, <3>1 DEF Claim, Pending, Open, OpenStates
    <2> QED
      BY <1>0, <1>1, <2>1, KeptSlots
  <1>3. ASSUME NEW S \in SUBSET Submitting, Release(S)
        PROVE  Slots'
    <2>1. \A h \in Hashes : Open(h)' <=> Open(h)
      <3>1. \A h \in S : AsPending(mem[h]).state = "pending"
        BY <1>0, ReleasedColumns DEF Submitting
      <3> QED
        BY <1>3, <3>1 DEF Release, Submitting, Open, OpenStates
    <2> QED
      BY <1>0, <1>1, <2>1, KeptSlots
  <1>4. ASSUME NEW S \in SUBSET Submitting, NEW t \in Txs, RecordTransactionHash(S, t)
        PROVE  Slots'
    <2>1. \A h \in Hashes : Open(h)' <=> Open(h)
      <3> SUFFICES ASSUME NEW h \in Hashes
                   PROVE  Open(h)' <=> Open(h)
        OBVIOUS
      <3>1. CASE h \in S \cap Submitting
        <4>0. mem[h] \in StoredUserOperation
          BY <1>0
        <4>1. /\ WithTx(mem[h], t).state = "submitting"
              /\ WithTx(mem[h], t) \in StoredUserOperation
          BY <4>0 DEF WithTx, StoredUserOperation, OpenStates
        <4>2. mem'[h].state = "submitting"
          BY <1>4, <3>1, <4>1 DEF RecordTransactionHash, StoredUserOperation
        <4> QED
          BY <3>1, <4>2 DEF Submitting, Open, OpenStates
      <3>2. CASE h \notin S \cap Submitting
        BY <1>4, <3>2 DEF RecordTransactionHash, Open
      <3> QED
        BY <3>1, <3>2
    <2> QED
      BY <1>0, <1>1, <2>1, KeptSlots
  <1>5. ASSUME NEW h \in Hashes, NEW state \in FinalStates, NEW t \in Txs \cup {NoTx},
               mem' = [mem EXCEPT ![h] = AsFinal(@, state, t)],
               tail' = Then("saveFinalized", {h})
        PROVE  Slots'
    <2>1. /\ mem'[h].state = state
          /\ \A g \in Hashes \ {h} : mem'[g] = mem[g]
          /\ tail'.stmt = "saveFinalized" /\ tail'.ops = {h}
      BY <1>0, <1>5 DEF AsFinal, StoredUserOperation, Then
    <2>2. /\ ~Open(h)'
          /\ \A g \in Hashes \ {h} : Open(g)' <=> Open(g)
          /\ Due("saveFinalized", h)'
      BY <2>1 DEF Open, OpenStates, FinalStates, Due
    <2> QED
      BY <1>0, <1>1, <2>2, KeptSlots
  <1>6. "failed" \in FinalStates /\ "included" \in FinalStates
    BY DEF FinalStates
  <1>7. ASSUME NEW h \in Hashes, MarkUserOperationFailed(h)
        PROVE  Slots'
    BY <1>5, <1>6, <1>7 DEF MarkUserOperationFailed
  <1>8. ASSUME NEW h \in Hashes, NEW t \in Txs, NEW ok \in BOOLEAN,
               FinalizeUserOperation(h, t, ok)
        PROVE  Slots'
    <2> DEFINE state == IF ok THEN "included" ELSE "failed"
    <2>1. state \in FinalStates
      BY <1>6
    <2>2. mem' = [mem EXCEPT ![h] = AsFinal(@, state, t)] /\ tail' = Then("saveFinalized", {h})
      BY <1>8 DEF FinalizeUserOperation
    <2> HIDE DEF state
    <2> QED
      BY <1>5, <2>1, <2>2
  <1> QED
    BY <1>2, <1>3, <1>4, <1>7, <1>8 DEF CallerStep, Claimable

LEMMA StatementSlots ==
  ASSUME TypeOK, Durability, Slots, ExecuteStatement
  PROVE  Slots'
  <1>0. /\ mem \in [Hashes -> StoredUserOperation]
        /\ pendingDb \in [Hashes -> StoredUserOperation]
        /\ up /\ UNCHANGED <<up, request>>
        /\ NoOperation.state = "none"
    BY DEF TypeOK, NoOperation, ExecuteStatement, Executes, SavePending, MarkSubmitting,
           MarkPending, DeleteFinalized, SaveFinalized, RemovePending, RecordTx, PruneFinalized
  <1>d. DownRowsSound'
    BY <1>0 DEF DownRowsSound
  \* Every statement but the last leaves memory alone.
  <1>m. ASSUME UNCHANGED mem
        PROVE  OneOpenPerSlot' /\ SimulatedFree'
    BY <1>0, <1>m DEF Slots, OneOpenPerSlot, SimulatedFree, Conflict, Open, SameSlot
  <1>1. ASSUME NEW h \in Hashes, SavePending(h)
        PROVE  Slots'
    <2>1. /\ UNCHANGED mem /\ Open(h) /\ tail.stmt = "savePending"
          /\ \A g \in Hashes \ {h} : pendingDb'[g] = pendingDb[g]
      BY <1>0, <1>1 DEF SavePending, Executes, Durability, TailSound
    <2>2. PendingRowsOpen'
      BY <1>0, <2>1 DEF Slots, PendingRowsOpen, Open, Due
    <2> QED
      BY <1>d, <1>m, <2>1, <2>2 DEF Slots
  \* The updates change no row that is not there and due for no result.
  <1>2. ASSUME UNCHANGED mem,
               tail.stmt \in {"markSubmitting", "markPending", "recordTx", "deleteFinalized"},
               \A h \in Hashes : pendingDb[h] = NoOperation => pendingDb'[h] = NoOperation
        PROVE  Slots'
    <2>1. PendingRowsOpen'
      BY <1>0, <1>2 DEF Slots, PendingRowsOpen, Open, Due
    <2> QED
      BY <1>d, <1>m, <1>2, <2>1 DEF Slots
  <1>3. ASSUME NEW h \in Hashes, MarkSubmitting(h) \/ MarkPending(h) \/ DeleteFinalized(h)
        PROVE  Slots'
    <2>1. /\ UNCHANGED mem
          /\ tail.stmt \in {"markSubmitting", "markPending", "deleteFinalized"}
          /\ \A g \in Hashes : pendingDb[g] = NoOperation => pendingDb'[g] = NoOperation
      BY <1>0, <1>3 DEF MarkSubmitting, MarkPending, DeleteFinalized, Executes, Row
    <2> QED
      BY <1>2, <2>1
  <1>4. ASSUME RecordTx
        PROVE  Slots'
    <2>1. /\ UNCHANGED mem /\ tail.stmt = "recordTx"
          /\ \A g \in Hashes : pendingDb[g] = NoOperation => pendingDb'[g] = NoOperation
      BY <1>0, <1>4 DEF RecordTx, Row
    <2> QED
      BY <1>2, <2>1
  <1>5. ASSUME NEW h \in Hashes, SaveFinalized(h)
        PROVE  Slots'
    <2>1. /\ UNCHANGED <<mem, pendingDb>>
          /\ tail.stmt = "saveFinalized" /\ tail.ops = {h}
          /\ tail'.stmt = "removePending" /\ tail'.ops = {h}
      BY <1>5 DEF SaveFinalized, Executes, Then, Durability, TailSound
    <2>2. PendingRowsOpen'
      BY <1>0, <2>1 DEF Slots, PendingRowsOpen, Open, Due
    <2> QED
      BY <1>d, <1>m, <2>1, <2>2 DEF Slots
  <1>6. ASSUME NEW h \in Hashes, RemovePending(h)
        PROVE  Slots'
    <2>1. /\ UNCHANGED mem
          /\ tail.stmt = "removePending" /\ tail.ops = {h}
          /\ pendingDb'[h] = NoOperation
          /\ \A g \in Hashes \ {h} : pendingDb'[g] = pendingDb[g]
      BY <1>0, <1>6 DEF RemovePending, Executes, Durability, TailSound
    <2>2. PendingRowsOpen'
      BY <1>0, <2>1 DEF Slots, PendingRowsOpen, Open, Due
    <2> QED
      BY <1>d, <1>m, <2>1, <2>2 DEF Slots
  <1>7. ASSUME PruneFinalized
        PROVE  Slots'
    <2>1. /\ UNCHANGED pendingDb /\ tail.stmt = "prune"
          /\ \A h \in Hashes : mem'[h] = mem[h] \/ (Final(h) /\ mem'[h] = NoOperation)
      BY <1>0, <1>7 DEF PruneFinalized
    <2>2. \A h \in Hashes : Open(h)' <=> Open(h)
      BY <1>0, <2>1 DEF Open, Final, OpenStates, FinalStates
    <2> QED
      BY <1>0, <2>1, <2>2, KeptSlots DEF Due
  <1> QED
    BY <1>1, <1>3, <1>4, <1>5, <1>6, <1>7 DEF ExecuteStatement

\* A crash between handlers leaves only the rows of open operations.
LEMMA CrashSlots ==
  ASSUME CrashBetweenHandlers, TypeOK, Durability, Slots, Crash
  PROVE  Slots'
  <1>1. /\ Ready /\ ~up' /\ UNCHANGED <<pendingDb, finalizedDb>>
        /\ \A h \in Hashes : mem'[h].state = "none"
        /\ \A r \in Requests : request'[r] = NoHash
    BY DEF CrashBetweenHandlers, Crash, Ready, NoOperation
  <1>2. \A h \in Hashes : pendingDb[h] # NoOperation => Open(h)
    BY <1>1 DEF Slots, PendingRowsOpen, Ready, Due, Idle
  <1>3. \A h \in Hashes : Open(h) => finalizedDb[h] = NoOperation
    BY <1>1, Settled
  <1>4. DownRowsSound'
    BY <1>1, <1>2, <1>3 DEF DownRowsSound, Slots, OneOpenPerSlot, SameSlot
  <1>5. OneOpenPerSlot' /\ PendingRowsOpen' /\ SimulatedFree'
    BY <1>1 DEF OneOpenPerSlot, PendingRowsOpen, SimulatedFree, Open, OpenStates
  <1> QED
    BY <1>4, <1>5 DEF Slots

LEMMA RestartSlots ==
  ASSUME TypeOK, Durability, Slots, Restart
  PROVE  Slots'
  <1>1. /\ ~up /\ up' /\ UNCHANGED <<pendingDb, finalizedDb>>
        /\ \A h \in Hashes : mem'[h] = Durable(h)
        /\ \A r \in Requests : request'[r] = NoHash
        /\ NoOperation.state = "none"
    BY DEF Restart, Durability, DownIdle, NoOperation
  <1>2. \A h \in Hashes : /\ MayBe(pendingDb[h], OpenStates)
                          /\ MayBe(finalizedDb[h], FinalStates)
    BY DEF Durability, RowsSound
  <1>3. \A h \in Hashes : Open(h)' <=> pendingDb[h] # NoOperation
    BY <1>1, <1>2
    DEF Slots, DownRowsSound, Open, Durable, MayBe, OpenStates, FinalStates
  <1>4. OneOpenPerSlot'
    BY <1>1, <1>3 DEF OneOpenPerSlot, Slots, DownRowsSound, SameSlot
  <1>5. PendingRowsOpen' /\ DownRowsSound' /\ SimulatedFree'
    BY <1>1, <1>3 DEF PendingRowsOpen, DownRowsSound, SimulatedFree
  <1> QED
    BY <1>4, <1>5 DEF Slots

LEMMA UntouchedSlots ==
  ASSUME Slots, UNCHANGED <<up, mem, pendingDb, finalizedDb, request, tail>>
  PROVE  Slots'
  BY DEF Slots, OneOpenPerSlot, PendingRowsOpen, DownRowsSound, SimulatedFree, Conflict, Open,
         Due, SameSlot

-----------------------------------------------------------------------------
(* The theorems. *)

LEMMA NextSlots ==
  ASSUME SequentialAdmission, CrashBetweenHandlers, TypeOK, Durability, Slots,
         [MempoolNext]_mempoolVars
  PROVE  Slots'
  <1>1. CASE TimePasses \/ UNCHANGED mempoolVars
    BY <1>1, UntouchedSlots DEF TimePasses, mempoolVars
  <1> QED
    BY <1>1, SendSlots, CallerSlots, StatementSlots, CrashSlots, RestartSlots DEF MempoolNext

LEMMA SlotsInvariant ==
  ASSUME SequentialAdmission, CrashBetweenHandlers
  PROVE  MempoolSpec => [](TypeOK /\ Durability /\ Slots)
  <1>1. MempoolInit => TypeOK /\ Durability /\ Slots
    BY InitTypeOK, InitDurability, InitSlots
  <1>2. TypeOK /\ Durability /\ Slots /\ [MempoolNext]_mempoolVars =>
          TypeOK' /\ Durability' /\ Slots'
    BY NextTypeOK, NextDurability, NextSlots
  <1> QED
    BY <1>1, <1>2, PTL DEF MempoolSpec

\* The conflict check of eth_sendUserOperation keeps one open operation per
\* sender and nonce, although a simulation is awaited after it and restarts
\* load two tables.
THEOREM OneOpenOperation ==
  ASSUME SequentialAdmission, CrashBetweenHandlers
  PROVE  MempoolSpec => []OneOpenPerSlot
  <1>1. TypeOK /\ Durability /\ Slots => OneOpenPerSlot
    BY DEF Slots
  <1> QED
    BY <1>1, SlotsInvariant, PTL

LEMMA SlotsRestarts == TypeOK /\ Durability /\ Slots => RestartInventsNothing
  <1>1. ASSUME TypeOK, Durability, Slots, Ready, NEW h \in Hashes, mem[h].state = "none"
        PROVE  Durable(h) = NoOperation
    <2>1. ~Open(h)
      BY <1>1 DEF Open, OpenStates
    <2>2. pendingDb[h] = NoOperation
      BY <1>1, <2>1 DEF Slots, PendingRowsOpen, Ready, Due, Idle
    <2>3. finalizedDb[h] = NoOperation
      BY <1>1, Settled
    <2> QED
      BY <2>2, <2>3 DEF Durable
  <1> QED
    BY <1>1 DEF RestartInventsNothing

\* A restart brings back nothing the mempool has forgotten: no row outlives
\* the operation in memory.
THEOREM RestartsInventNothing ==
  ASSUME SequentialAdmission, CrashBetweenHandlers
  PROVE  MempoolSpec => []RestartInventsNothing
  BY SlotsRestarts, SlotsInvariant, PTL

-----------------------------------------------------------------------------
(* The mempool implements the ledger. *)

\* The status of the ledger that the mempool implements.
Shown == [h \in Hashes |-> StatusOf(h)]

Shift(S, new) == Shown' = [h \in Hashes |-> IF h \in S THEN new ELSE Shown[h]]

\* The parts of the ledger, spelled out.
LEMMA PromiseActions ==
  /\ \A h \in Hashes : Shown[h] = StatusOf(h)
  /\ \A S : Promise!InStatus(S) = {h \in Hashes : StatusOf(h) \in S}
  /\ \A S, new : Promise!Becomes(S, new) <=> Shift(S, new)
  BY DEF Shown, Shift, Promise!InStatus, Promise!Becomes

LEMMA SameStatus ==
  ASSUME \A h \in Hashes : StatusOf(h)' = StatusOf(h)
  PROVE  UNCHANGED Shown
  BY DEF Shown

\* While the process runs, memory is what is shown.
LEMMA ShiftUp ==
  ASSUME up, up', NEW S \in SUBSET Hashes, NEW new,
         \A h \in S : mem'[h].state = new,
         \A h \in Hashes \ S : mem'[h].state = mem[h].state
  PROVE  Shift(S, new)
  BY DEF Shift, Shown, StatusOf

LEMMA AcceptStep ==
  ASSUME up, up', NEW h \in Hashes, mem[h].state \in {"none", "failed"}, ~Conflict(h),
         mem'[h].state = "pending", \A g \in Hashes \ {h} : mem'[g] = mem[g]
  PROVE  Promise!LedgerNext
  <1>1. Shift({h}, "pending")
    BY ShiftUp
  <1>2. \A g \in Hashes : g # h /\ Shown[g] \in {"pending", "submitting"} =>
          ~SameSlot(g, h)
    BY DEF Conflict, Open, OpenStates, Shown, StatusOf
  <1>3. Promise!Free(h)
    BY <1>2 DEF Promise!Free, Promise!InStatus, Promise!OpenStatus, Promise!SameSlot, SameSlot, Shown
  <1>4. Promise!Accept(h)
    BY <1>1, <1>3, PromiseActions DEF Promise!Accept, StatusOf
  <1> QED
    BY <1>4 DEF Promise!LedgerNext

LEMMA SendImplements ==
  ASSUME TypeOK, Durability, Slots, NEW r \in Requests, SendUserOperation(r)
  PROVE  Promise!LedgerNext \/ UNCHANGED Shown
  <1>0. /\ mem \in [Hashes -> StoredUserOperation]
        /\ request \in [Requests -> Hashes \cup {NoHash}]
        /\ up
    BY DEF TypeOK, SendUserOperation, SendRefused, SendWithoutEffect, SendRequeue, Checked,
           SendAwaitSimulation, SendAdmit, SimulationPassed, SimulationFailed, Ready
  <1>1. ASSUME UNCHANGED <<up, mem>>
        PROVE  UNCHANGED Shown
    BY <1>0, <1>1, SameStatus DEF StatusOf
  <1>2. ASSUME NEW h \in Hashes, SendRefused(r, h) \/ SendWithoutEffect(r, h)
                                 \/ SendAwaitSimulation(r, h)
        PROVE  UNCHANGED Shown
    BY <1>1, <1>2 DEF SendRefused, SendWithoutEffect, SendAwaitSimulation, mempoolVars
  <1>3. CASE SimulationFailed(r)
    BY <1>1, <1>3 DEF SimulationFailed
  <1>4. ASSUME NEW h \in Hashes, NEW c \in BOOLEAN, SendRequeue(r, h, c)
        PROVE  Promise!LedgerNext
    <2>1. PendingOperation(c).state = "pending"
      BY PendingColumns
    <2> QED
      BY <1>0, <1>4, <2>1, AcceptStep DEF SendRequeue
  <1>5. PendingOperation(TRUE).state = "pending"
    BY PendingColumns
  <1>6. ASSUME NEW h \in Hashes, SendAdmit(r, h)
        PROVE  Promise!LedgerNext
    BY <1>0, <1>5, <1>6, AcceptStep DEF SendAdmit, Admit
  <1>7. ASSUME SimulationPassed(r)
        PROVE  Promise!LedgerNext
    <2>1. request[r] \in Hashes /\ mem[request[r]].state = "none" /\ ~Conflict(request[r])
      BY <1>0, <1>7 DEF SimulationPassed, Durability, SimulatedUnknown, Slots, SimulatedFree
    <2> QED
      BY <1>0, <1>5, <1>7, <2>1, AcceptStep DEF SimulationPassed, Admit
  <1> QED
    BY <1>2, <1>3, <1>4, <1>6, <1>7 DEF SendUserOperation

LEMMA TakeStep ==
  ASSUME TypeOK, Ready, NEW n, NEW S \in Claimable(n), Claim(S)
  PROVE  Promise!LedgerNext
  <1>0. /\ mem \in [Hashes -> StoredUserOperation] /\ now \in Nat
        /\ up /\ up'
        /\ S \in SUBSET Hashes /\ \A h \in S : mem[h].state = "pending"
        /\ \A g, h \in S : EntryPointOf[g] = EntryPointOf[h]
    BY DEF TypeOK, ReputationTypeOK, Ready, Claim, Claimable, Pending
  <1>1. /\ \A h \in S : mem'[h].state = "submitting"
        /\ \A h \in Hashes \ S : mem'[h] = mem[h]
    BY <1>0, SubmittingColumns DEF Claim
  <1>2. Shift(S, "submitting")
    BY <1>0, <1>1, ShiftUp
  <1>3. Promise!Take(S)
    BY <1>0, <1>2, PromiseActions DEF Promise!Take, StatusOf
  <1> QED
    BY <1>0, <1>3 DEF Promise!LedgerNext

LEMMA GiveBackStep ==
  ASSUME TypeOK, Ready, NEW S \in SUBSET Submitting, Release(S)
  PROVE  Promise!LedgerNext
  <1>0. /\ mem \in [Hashes -> StoredUserOperation]
        /\ up /\ up' /\ S \cap Submitting = S
        /\ S \in SUBSET Hashes /\ \A h \in S : mem[h].state = "submitting"
    BY DEF TypeOK, Ready, Release, Submitting
  <1>1. /\ \A h \in S : mem'[h].state = "pending"
        /\ \A h \in Hashes \ S : mem'[h] = mem[h]
    BY <1>0, ReleasedColumns DEF Release
  <1>2. Shift(S, "pending")
    BY <1>0, <1>1, ShiftUp
  <1>3. Promise!GiveBack(S)
    BY <1>0, <1>2, PromiseActions DEF Promise!GiveBack, StatusOf
  <1> QED
    BY <1>0, <1>3 DEF Promise!LedgerNext

LEMMA RecordStep ==
  ASSUME TypeOK, NEW S \in SUBSET Submitting, NEW t \in Txs, RecordTransactionHash(S, t)
  PROVE  UNCHANGED Shown
  <1>0. /\ mem \in [Hashes -> StoredUserOperation] /\ up /\ up'
        /\ S \in SUBSET Hashes /\ \A h \in S : mem[h].state = "submitting"
        /\ S \cap Submitting = S
    BY DEF TypeOK, Ready, RecordTransactionHash, Submitting
  <1>1. \A h \in Hashes : mem'[h].state = mem[h].state
    BY <1>0 DEF RecordTransactionHash, WithTx, StoredUserOperation
  <1> QED
    BY <1>0, <1>1, SameStatus DEF StatusOf

LEMMA ReportStep ==
  ASSUME TypeOK, NEW h \in Hashes, Open(h), NEW result \in FinalStates, NEW t \in Txs \cup {NoTx},
         up, up', mem' = [mem EXCEPT ![h] = AsFinal(@, result, t)]
  PROVE  Promise!LedgerNext
  <1>0. mem \in [Hashes -> StoredUserOperation]
    BY DEF TypeOK
  <1>1. mem'[h].state = result /\ \A g \in Hashes \ {h} : mem'[g] = mem[g]
    BY <1>0 DEF AsFinal, StoredUserOperation
  <1>2. Shift({h}, result)
    BY <1>1, ShiftUp
  <1>3. Promise!Report(h, result)
    BY <1>2, PromiseActions DEF Promise!Report, Promise!OpenStatus, Open, OpenStates, StatusOf
  <1> QED
    BY <1>3 DEF Promise!LedgerNext, Promise!FinalStatus, FinalStates

LEMMA CallerImplements ==
  ASSUME TypeOK, CallerStep
  PROVE  Promise!LedgerNext \/ UNCHANGED Shown
  <1>1. ASSUME NEW n, NEW S \in Claimable(n), Claim(S)
        PROVE  Promise!LedgerNext
    BY <1>1, TakeStep DEF Claim
  <1>2. ASSUME NEW S \in SUBSET Submitting, Release(S)
        PROVE  Promise!LedgerNext
    BY <1>2, GiveBackStep DEF Release
  <1>3. ASSUME NEW S \in SUBSET Submitting, NEW t \in Txs, RecordTransactionHash(S, t)
        PROVE  UNCHANGED Shown
    BY <1>3, RecordStep
  <1>4. ASSUME NEW h \in Hashes, Open(h), MarkUserOperationFailed(h)
        PROVE  Promise!LedgerNext
    BY <1>4, ReportStep DEF MarkUserOperationFailed, Ready, FinalStates
  <1>5. ASSUME NEW h \in Hashes, Open(h), NEW t \in Txs, NEW ok \in BOOLEAN,
               FinalizeUserOperation(h, t, ok)
        PROVE  Promise!LedgerNext
    <2> DEFINE result == IF ok THEN "included" ELSE "failed"
    <2>1. result \in FinalStates
      BY DEF FinalStates
    <2>2. up /\ up' /\ mem' = [mem EXCEPT ![h] = AsFinal(@, result, t)]
      BY <1>5 DEF FinalizeUserOperation, Ready
    <2> HIDE DEF result
    <2> QED
      BY <1>5, <2>1, <2>2, ReportStep
  <1> QED
    BY <1>1, <1>2, <1>3, <1>4, <1>5 DEF CallerStep

LEMMA StatementImplements ==
  ASSUME TypeOK, ExecuteStatement
  PROVE  Promise!LedgerNext \/ UNCHANGED Shown
  <1>0. mem \in [Hashes -> StoredUserOperation]
    BY DEF TypeOK
  <1>1. CASE ~PruneFinalized
    <2>1. up /\ UNCHANGED <<up, mem>>
      BY <1>1 DEF ExecuteStatement, Executes, SavePending, MarkSubmitting, MarkPending, RecordTx,
                  DeleteFinalized, SaveFinalized, RemovePending
    <2> QED
      BY <2>1, SameStatus DEF StatusOf
  <1>2. CASE PruneFinalized
    <2>1. PICK K \in Retained :
            mem' = [h \in Hashes |-> IF h \in FinalizedRows \ K /\ Final(h)
                                     THEN NoOperation ELSE mem[h]]
      BY <1>2 DEF PruneFinalized
    <2> DEFINE S == {h \in FinalizedRows \ K : Final(h)}
    <2>2. S \in SUBSET Hashes /\ up /\ up'
      BY <1>2 DEF PruneFinalized, FinalizedRows
    <2>3. /\ \A h \in S : mem'[h].state = "none" /\ mem[h].state \in {"included", "failed"}
          /\ \A h \in Hashes \ S : mem'[h] = mem[h]
      BY <2>1, <2>2 DEF NoOperation, Final, FinalStates
    <2> HIDE DEF S
    <2>4. Shift(S, "none")
      BY <2>2, <2>3, ShiftUp
    <2>5. Promise!Forget(S)
      BY <2>2, <2>3, <2>4, PromiseActions DEF Promise!Forget, Promise!FinalStatus, StatusOf
    <2> QED
      BY <2>2, <2>5 DEF Promise!LedgerNext
  <1> QED
    BY <1>1, <1>2

\* A restart finds what was shown; between handlers a crash takes nothing.
LEMMA ProcessImplements ==
  ASSUME CrashBetweenHandlers, TypeOK, Durability, Slots, Crash \/ Restart \/ TimePasses
  PROVE  UNCHANGED Shown
  <1>1. CASE Crash
    <2>1. Ready /\ ~up' /\ \A h \in Hashes : Durable(h)' = Durable(h)
      BY <1>1 DEF CrashBetweenHandlers, Crash, Ready, Durable
    <2>2. ASSUME NEW h \in Hashes
          PROVE  Durable(h).state = mem[h].state
      BY <2>1, <2>2, DurabilityRestarts, SlotsRestarts
      DEF RestartLosesNothing, RestartInventsNothing, NoOperation
    <2> QED
      BY <2>1, <2>2, SameStatus DEF StatusOf, Ready
  <1>2. CASE Restart
    <2>1. /\ ~up /\ up'
          /\ \A h \in Hashes : mem'[h] = Durable(h)
      BY <1>2 DEF Restart
    <2> QED
      BY <2>1, SameStatus DEF StatusOf
  <1>3. CASE TimePasses
    <2>1. UNCHANGED <<up, mem>> /\ up
      BY <1>3 DEF TimePasses, Ready
    <2> QED
      BY <2>1, SameStatus DEF StatusOf
  <1> QED
    BY <1>1, <1>2, <1>3

LEMMA NextImplements ==
  ASSUME CrashBetweenHandlers, TypeOK, Durability, Slots, [MempoolNext]_mempoolVars
  PROVE  [Promise!LedgerNext]_Shown
  <1>1. CASE UNCHANGED mempoolVars
    <2>1. \A h \in Hashes : StatusOf(h)' = StatusOf(h)
      BY <1>1 DEF mempoolVars, StatusOf, Durable
    <2> QED
      BY <2>1, SameStatus
  <1> QED
    BY <1>1, SendImplements, CallerImplements, StatementImplements, ProcessImplements
    DEF MempoolNext

LEMMA InitImplements == MempoolInit => Promise!LedgerInit
  BY DEF MempoolInit, Promise!LedgerInit, StatusOf, NoOperation

\* Everything the mempool shows its clients is a ledger: its handlers are
\* atomic although they await and write statement by statement, and crashes
\* between them are invisible (index.ts:368-416, 642-969, 1103-1190).
THEOREM MempoolImplementsLedger ==
  ASSUME SequentialAdmission, CrashBetweenHandlers
  PROVE  MempoolSpec => ImplementsLedger
  <1>1. TypeOK /\ Durability /\ Slots /\ [MempoolNext]_mempoolVars =>
          [Promise!LedgerNext]_Shown
    BY NextImplements
  <1>2. MempoolSpec => [][Promise!LedgerNext]_Shown
    BY <1>1, SlotsInvariant, PTL DEF MempoolSpec
  <1> QED
    BY <1>2, InitImplements, PTL
    DEF MempoolSpec, ImplementsLedger, Promise!LedgerSpec, Shown
=============================================================================
