------------------------------- MODULE Chain -------------------------------
(***************************************************************************)
(* The chain as the submitter sees it through its node: one externally     *)
(* owned account whose transactions call handleOps on the EntryPoint.      *)
(* External to the repository; modelled from the calls of                  *)
(* ViemSubmissionClient (packages/bundler/src/submitter.ts:139-237).       *)
(***************************************************************************)
EXTENDS UserOps

CONSTANTS
  DroppedMayReturn    \* may a transaction the node forgot still be mined?

VARIABLES
  tx,                 \* every transaction the account has ever signed
  height              \* transactions of the account on chain: its nonce

chainVars == <<tx, height>>

TxStates == {"unsent", "waiting", "dropped", "mined", "reverted"}

\* `succeeded` are the operations whose UserOperationEvent says success.
Transactions == [state: TxStates, nonce: Nat, ops: SUBSET Hashes, succeeded: SUBSET Hashes]

Unsent == [state |-> "unsent", nonce |-> 0, ops |-> {}, succeeded |-> {}]

InState(S) == {t \in Txs : tx[t].state \in S}

\* Operations whose nonce the EntryPoint has consumed, and those that ran.
Executed == UNION {tx[t].ops : t \in InState({"mined"})}
Succeeded == UNION {tx[t].succeeded : t \in InState({"mined"})}

\* handleOps can go through: every account nonce is still unused.
Executable(S) ==
  \A g \in S : /\ \A h \in Executed : ~SameSlot(g, h)
               /\ \A h \in S \ {g} : ~SameSlot(g, h)

\* eth_getTransactionCount with the pending tag: the first gap.
NextNonce ==
  CHOOSE n \in height..(height + Cardinality(Txs)) :
    /\ \A t \in InState({"waiting"}) : tx[t].nonce # n
    /\ \A m \in height..(n - 1) : \E t \in InState({"waiting"}) : tx[t].nonce = m

FreshTx == CHOOSE t \in Txs : tx[t].state = "unsent"

\* eth_sendRawTransaction reaches the node's pool.
Broadcast(S) ==
  /\ InState({"unsent"}) # {}
  /\ tx' = [tx EXCEPT ![FreshTx] =
              [state |-> "waiting", nonce |-> NextNonce, ops |-> S, succeeded |-> {}]]
  /\ UNCHANGED height

Minable(t) ==
  /\ tx[t].state \in {"waiting"} \cup (IF DroppedMayReturn THEN {"dropped"} ELSE {})
  /\ tx[t].nonce = height

\* handleOps goes through; each operation succeeds or reverts by itself.
Mine(t) ==
  /\ Minable(t)
  /\ Executable(tx[t].ops)
  /\ \E ok \in SUBSET tx[t].ops :
       tx' = [tx EXCEPT ![t].state = "mined", ![t].succeeded = ok]
  /\ height' = height + 1

\* handleOps reverts: a nonce is used, a quote or a deposit has run out.
Revert(t) ==
  /\ Minable(t)
  /\ tx' = [tx EXCEPT ![t].state = "reverted"]
  /\ height' = height + 1

\* The node evicts a transaction from its pool.
Drop(t) ==
  /\ tx[t].state = "waiting"
  /\ tx' = [tx EXCEPT ![t].state = "dropped"]
  /\ UNCHANGED height

HasReceipt(t) == tx[t].state \in {"mined", "reverted"}
Found(t) == tx[t].state \in {"waiting", "mined", "reverted"}

ChainStep == \E t \in Txs : Mine(t) \/ Revert(t) \/ Drop(t)

ChainInit == tx = [t \in Txs |-> Unsent] /\ height = 0

ChainTypeOK == tx \in [Txs -> Transactions] /\ height \in Nat
=============================================================================
