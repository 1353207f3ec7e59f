----------------------------- MODULE Submitter -----------------------------
(***************************************************************************)
(* The bundler with its submitter: BundlerSubmitter                        *)
(* (packages/bundler/src/submitter.ts) working on the mempool and talking  *)
(* to the chain through an RPC node.                                       *)
(*                                                                         *)
(* One tick runs at a time.  `pc` is the await the tick is stopped at, or  *)
(* the loop it is in between two awaits; calls of eth_sendUserOperation    *)
(* get their turn only at an await.                                        *)
(***************************************************************************)
EXTENDS Mempool, Chain

CONSTANTS
  MaxOperationsPerBundle,
  MaxInflight,          \* maxInflightTransactions
  TxTimeout,            \* txTimeoutMs, in clock units
  AckMayBeLost          \* may submitHandleOps throw after the node took it?

ASSUME SubmitterAssumption ==
  /\ MaxOperationsPerBundle \in Nat \ {0} /\ MaxInflight \in Nat \ {0}
  /\ TxTimeout \in Nat /\ AckMayBeLost \in BOOLEAN

VARIABLES
  pc,
  snapshot,             \* tracked operations recovery has still to look at
  claim,                \* the operations the tick is handling
  rest,                 \* those of a failed bundle still to submit one by one
  current,              \* the transaction the tick is handling
  processStartedAt,
  recoveryError         \* the recoveryError of getHealth is set

tickVars == <<snapshot, claim, rest, current>>
submitterVars == <<pc, tickVars, processStartedAt, recoveryError>>
vars == <<mempoolVars, chainVars, submitterVars>>

Awaits == {"sleep", "recover", "lookup", "simulate", "send", "sent", "confirm", "next"}
Loops == {"packing", "finalizeRecovered", "finalizeConfirmed"}

AtAwait == pc \in Awaits

Untracked == {h \in Submitting : mem[h].submissionTxHash = NoTx}
Tracked == Submitting \ Untracked
InflightTransactions == {mem[h].submissionTxHash : h \in Tracked}
InflightFull == Cardinality(InflightTransactions) >= MaxInflight

-----------------------------------------------------------------------------
(* A tick begins: recoverSubmittedTransactions up to its first await.       *)

\* Claims of an earlier process may have been sent: they are left alone.
Orphaned ==
  {h \in Untracked : \/ mem[h].submissionStartedAt = NoTime
                     \/ mem[h].submissionStartedAt < processStartedAt}

\* Mutant: claims of an earlier process time out like those of this one.
StaleAnyUntracked == {h \in Untracked : now >= mem[h].submissionStartedAt + TxTimeout}

\* Mutant: claims without a transaction are never released.
NeverStale == {}

StaleUntracked ==
  {h \in Untracked \ Orphaned : now >= mem[h].submissionStartedAt + TxTimeout}

\* Mutant: recovery looks at claims that have no transaction.
StartTickAll ==
  /\ pc = "sleep"
  /\ Release(StaleUntracked)
  /\ recoveryError' = (Orphaned # {})
  /\ snapshot' = {[hash |-> h, tx |-> mem[h].submissionTxHash,
                   startedAt |-> mem[h].submissionStartedAt] : h \in Submitting}
  /\ pc' = "recover"
  /\ UNCHANGED <<chainVars, claim, rest, current, processStartedAt>>

StartTick ==
  /\ pc = "sleep"
  /\ Release(StaleUntracked)
  /\ recoveryError' = (Orphaned # {})
  /\ snapshot' = {[hash |-> h, tx |-> mem[h].submissionTxHash,
                   startedAt |-> mem[h].submissionStartedAt] : h \in Tracked}
  /\ pc' = "recover"
  /\ UNCHANGED <<chainVars, claim, rest, current, processStartedAt>>

Group(t) == {e \in snapshot : e.tx = t}
GroupOps(t) == {e.hash : e \in Group(t)}

\* getTransactionReceipt has an answer for one of the transactions.
RecoverReceipt(t) ==
  /\ pc = "recover" /\ Ready
  /\ Group(t) # {}
  /\ current' = t
  /\ IF HasReceipt(t)
     THEN /\ pc' = "finalizeRecovered"
          /\ claim' = GroupOps(t)
          /\ snapshot' = snapshot \ Group(t)
     ELSE /\ pc' = "lookup"
          /\ UNCHANGED <<claim, snapshot>>
  /\ UNCHANGED <<mempoolVars, chainVars, rest, processStartedAt, recoveryError>>

\* The oldest entry of the group has waited for TxTimeout.
TimedOut(t) ==
  \E e \in Group(t) : e.startedAt # NoTime /\ now >= e.startedAt + TxTimeout

\* Mutant: the timeout alone releases, also what the node still has.
RecoverLookupByTime ==
  /\ pc = "lookup"
  /\ Release(IF TimedOut(current) THEN GroupOps(current) ELSE {})
  /\ snapshot' = snapshot \ Group(current)
  /\ current' = NoTx
  /\ pc' = "recover"
  /\ UNCHANGED <<chainVars, claim, rest, processStartedAt, recoveryError>>

\* getTransaction: found, or not found for too short a time, or released.
RecoverLookup ==
  /\ pc = "lookup"
  /\ Release(IF ~Found(current) /\ TimedOut(current) THEN GroupOps(current) ELSE {})
  /\ snapshot' = snapshot \ Group(current)
  /\ current' = NoTx
  /\ pc' = "recover"
  /\ UNCHANGED <<chainVars, claim, rest, processStartedAt, recoveryError>>

\* Mutant: operations that were finalized are not taken off the list.
FinalizeAgain ==
  /\ pc \in {"finalizeRecovered", "finalizeConfirmed"}
  /\ \E h \in claim :
       FinalizeUserOperation(h, current, tx[current].state = "mined"
                                         /\ h \in tx[current].succeeded)
  /\ UNCHANGED <<chainVars, submitterVars>>

\* Mutant: the receipt of the transaction decides, not the operation's event.
FinalizeByReceipt ==
  /\ pc \in {"finalizeRecovered", "finalizeConfirmed"}
  /\ \E h \in claim :
       /\ NotLater({h}, claim)
       /\ FinalizeUserOperation(h, current, tx[current].state = "mined")
       /\ claim' = claim \ {h}
  /\ UNCHANGED <<chainVars, pc, snapshot, rest, current, processStartedAt, recoveryError>>

\* finalizeSubmittedTransaction: one operation after the other, no await.
FinalizeOne ==
  /\ pc \in {"finalizeRecovered", "finalizeConfirmed"}
  /\ \E h \in claim :
       /\ NotLater({h}, claim)
       /\ FinalizeUserOperation(h, current, tx[current].state = "mined"
                                            /\ h \in tx[current].succeeded)
       /\ claim' = claim \ {h}
  /\ UNCHANGED <<chainVars, pc, snapshot, rest, current, processStartedAt, recoveryError>>

FinalizeDone ==
  /\ pc \in {"finalizeRecovered", "finalizeConfirmed"} /\ Ready
  /\ claim = {}
  /\ pc' = IF pc = "finalizeRecovered" THEN "recover" ELSE "next"
  /\ current' = NoTx
  /\ UNCHANGED <<mempoolVars, chainVars, snapshot, claim, rest, processStartedAt, recoveryError>>

-----------------------------------------------------------------------------
(* runTick after recovery, and submitClaim.                                 *)

NothingToClaim ==
  /\ pc = "recover" /\ Ready
  /\ snapshot = {}
  /\ InflightFull \/ Pending = {}
  /\ pc' = "sleep"
  /\ UNCHANGED <<mempoolVars, chainVars, tickVars, processStartedAt, recoveryError>>

ClaimNext ==
  /\ pc = "recover"
  /\ snapshot = {}
  /\ ~InflightFull
  /\ \E S \in Claimable(MaxOperationsPerBundle) :
       /\ S # {}
       /\ Claim(S)
       /\ claim' = S
  /\ pc' = "packing"
  /\ UNCHANGED <<chainVars, snapshot, rest, current, processStartedAt, recoveryError>>

PackFails ==
  /\ pc = "packing"
  /\ \E h \in claim :
       /\ ~mem[h].packable
       /\ MarkUserOperationFailed(h)
       /\ claim' = claim \ {h}
  /\ UNCHANGED <<chainVars, pc, snapshot, rest, current, processStartedAt, recoveryError>>

PackDone ==
  /\ pc = "packing" /\ Ready
  /\ \A h \in claim : mem[h].packable
  /\ pc' = IF claim = {} THEN "next" ELSE "simulate"
  /\ UNCHANGED <<mempoolVars, chainVars, tickVars, processStartedAt, recoveryError>>

SimulationSucceeds ==
  /\ pc = "simulate" /\ Ready
  /\ Executable(claim)
  /\ pc' = "send"
  /\ UNCHANGED <<mempoolVars, chainVars, tickVars, processStartedAt, recoveryError>>

\* simulateHandleOps throws: an operation by itself fails for good, those of
\* a bundle are tried one by one.
SimulationThrows ==
  /\ pc = "simulate"
  /\ IF Cardinality(claim) = 1
     THEN /\ \E h \in claim : MarkUserOperationFailed(h)
          /\ UNCHANGED rest
     ELSE /\ Ready
          /\ rest' = claim
          /\ UNCHANGED mempoolVars
  /\ claim' = {}
  /\ pc' = "next"
  /\ UNCHANGED <<chainVars, snapshot, current, processStartedAt, recoveryError>>

BroadcastTx ==
  /\ pc = "send" /\ Ready
  /\ Broadcast(claim)
  /\ current' = FreshTx
  /\ pc' = "sent"
  /\ UNCHANGED <<mempoolVars, snapshot, claim, rest, processStartedAt, recoveryError>>

\* submitHandleOps throws, before or (if AckMayBeLost) after the broadcast.
SendThrows ==
  /\ pc = "send" \/ (pc = "sent" /\ AckMayBeLost)
  /\ Release(claim)
  /\ claim' = {}
  /\ current' = NoTx
  /\ pc' = "next"
  /\ UNCHANGED <<chainVars, snapshot, rest, processStartedAt, recoveryError>>

SendReturns ==
  /\ pc = "sent"
  /\ RecordTransactionHash(claim, current)
  /\ pc' = "confirm"
  /\ UNCHANGED <<chainVars, tickVars, processStartedAt, recoveryError>>

\* Mutant: a transaction without a receipt counts as one that reverted.
ConfirmUnmined ==
  /\ pc = "confirm" /\ Ready
  /\ pc' = "finalizeConfirmed"
  /\ UNCHANGED <<mempoolVars, chainVars, tickVars, processStartedAt, recoveryError>>

\* The receipt asked for right after the submission.
Confirm ==
  /\ pc = "confirm" /\ Ready
  /\ IF HasReceipt(current)
     THEN /\ pc' = "finalizeConfirmed"
          /\ UNCHANGED <<claim, current>>
     ELSE /\ pc' = "next"
          /\ claim' = {}
          /\ current' = NoTx
  /\ UNCHANGED <<mempoolVars, chainVars, snapshot, rest, processStartedAt, recoveryError>>

\* Mutant: the limit is not checked again between the operations of a bundle.
NextSingleUnlimited ==
  /\ pc = "next" /\ Ready
  /\ \E h \in rest : /\ NotLater({h}, rest)
                     /\ claim' = {h}
                     /\ rest' = rest \ {h}
  /\ pc' = "simulate"
  /\ UNCHANGED <<mempoolVars, chainVars, snapshot, current, processStartedAt, recoveryError>>

\* submitClaim returns: the tick ends, or the next operation of a failed
\* bundle is submitted, if a transaction may still be started.
NextSingle ==
  /\ pc = "next" /\ Ready
  /\ ~InflightFull
  /\ \E h \in rest : /\ NotLater({h}, rest)
                     /\ claim' = {h}
                     /\ rest' = rest \ {h}
  /\ pc' = "simulate"
  /\ UNCHANGED <<mempoolVars, chainVars, snapshot, current, processStartedAt, recoveryError>>

EndTick ==
  /\ pc = "next"
  /\ rest = {} \/ InflightFull
  /\ Release(rest)
  /\ rest' = {}
  /\ pc' = "sleep"
  /\ UNCHANGED <<chainVars, snapshot, claim, current, processStartedAt, recoveryError>>

\* An RPC call outside submitClaim's handlers throws: the tick is abandoned.
RpcThrows ==
  /\ Ready
  /\ pc \in {"lookup", "confirm"} \/ (pc = "recover" /\ snapshot # {})
  /\ pc' = "sleep"
  /\ snapshot' = {} /\ claim' = {} /\ rest' = {} /\ current' = NoTx
  /\ UNCHANGED <<mempoolVars, chainVars, processStartedAt, recoveryError>>

SubmitterStep ==
  \/ StartTick \/ \E t \in Txs : RecoverReceipt(t)
  \/ RecoverLookup \/ FinalizeOne \/ FinalizeDone
  \/ NothingToClaim \/ ClaimNext \/ PackFails \/ PackDone
  \/ SimulationSucceeds \/ SimulationThrows
  \/ BroadcastTx \/ SendThrows \/ SendReturns \/ Confirm
  \/ NextSingle \/ EndTick \/ RpcThrows

-----------------------------------------------------------------------------
(* The whole bundler process and its surroundings. *)

CrashProcess ==
  /\ Crash
  /\ pc' = "sleep"
  /\ snapshot' = {} /\ claim' = {} /\ rest' = {} /\ current' = NoTx
  /\ recoveryError' = FALSE
  /\ UNCHANGED <<chainVars, processStartedAt>>

RestartProcess ==
  /\ Restart
  /\ processStartedAt' = now'
  /\ UNCHANGED <<chainVars, pc, tickVars, recoveryError>>

Environment ==
  \/ /\ AtAwait
     /\ (\E r \in Requests : SendUserOperation(r)) \/ TimePasses
     /\ UNCHANGED <<chainVars, submitterVars>>
  \/ /\ ExecuteStatement
     /\ UNCHANGED <<chainVars, submitterVars>>
  \/ /\ AtAwait /\ tail = Idle
     /\ ChainStep
     /\ UNCHANGED <<mempoolVars, submitterVars>>

Init ==
  /\ MempoolInit /\ ChainInit
  /\ pc = "sleep"
  /\ snapshot = {} /\ claim = {} /\ rest = {} /\ current = NoTx
  /\ processStartedAt = 1
  /\ recoveryError = FALSE

Next == SubmitterStep \/ Environment \/ CrashProcess \/ RestartProcess

Spec == Init /\ [][Next]_vars

\* The tick reschedules itself whatever happens (submitter.ts:354-361), and
\* every call of the node ends: with an answer or with an error, and not for
\* ever with an error.  The chain decides on a transaction or forgets it.
Fairness ==
  /\ WF_vars(SubmitterStep)
  /\ WF_vars(ExecuteStatement /\ UNCHANGED <<chainVars, submitterVars>>)
  /\ SF_vars(AtAwait /\ TimePasses /\ UNCHANGED <<chainVars, submitterVars>>)
  /\ SF_vars(RecoverLookup)
  /\ \A t \in Txs : /\ SF_vars(RecoverReceipt(t))
                    /\ SF_vars(/\ AtAwait /\ tail = Idle
                               /\ Mine(t) \/ Revert(t) \/ Drop(t)
                               /\ UNCHANGED <<mempoolVars, submitterVars>>)

FairSpec == Spec /\ Fairness

-----------------------------------------------------------------------------
(* Properties. *)

\* The variables hold what the code's types say they hold.
SubmitterTypeOK ==
  /\ TypeOK /\ ChainTypeOK
  /\ pc \in Awaits \cup Loops
  /\ snapshot \subseteq [hash: Hashes, tx: Txs, startedAt: Nat]
  /\ claim \subseteq Hashes /\ rest \subseteq Hashes
  /\ current \in Txs \cup {NoTx}
  /\ processStartedAt \in Nat /\ recoveryError \in BOOLEAN

\* An operation reported as included did succeed on chain, in the very
\* transaction its receipt names (submitter.ts:639-668), after any crashes.
InclusionSound ==
  \A h \in Hashes : mem[h].state = "included" =>
    /\ mem[h].transactionHash \in InState({"mined"})
    /\ h \in tx[mem[h].transactionHash].succeeded

\* An operation reported as failed has not taken effect on chain, and no
\* transaction that could still make it take effect is waiting.
FailureSound ==
  \A h \in Hashes : mem[h].state = "failed" =>
    /\ h \notin Succeeded
    /\ \A t \in InState({"waiting"}) : h \notin tx[t].ops

\* An operation is never in two transactions that wait or went through: the
\* duplicate submission that recovery refuses to risk (submitter.ts:412-414).
NoDuplicateSubmission ==
  \A s, t \in InState({"waiting", "mined"}) : s # t => tx[s].ops \cap tx[t].ops = {}

\* At most MaxInflight transactions wait on chain (submitter.ts:370-375 and
\* 555-564; README.md:86).
InflightBounded == Cardinality(InState({"waiting"})) <= MaxInflight

\* A claim that an earlier process left without a transaction hash may be on
\* chain already: nothing changes it as long as the process runs
\* (submitter.ts:404-421, submitter.test.ts:595).
OrphansUntouched ==
  [][\A h \in Orphaned : up' => mem'[h] = mem[h]]_vars

\* No operation stays claimed for ever: it gets its result, or it is released
\* after the timeout (submitter.ts:423-439 and 464-486).
ClaimsEnd ==
  \A h \in Hashes :
    (mem[h].state = "submitting" /\ mem[h].submissionStartedAt + TxTimeout <= MaxTime)
      ~> mem[h].state # "submitting"

\* The submitter uses the mempool as its clients must: every step of the
\* whole is a step of the mempool by itself, so what is proved of it holds.
RefinesMempool == MempoolSpec
=============================================================================
