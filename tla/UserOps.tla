------------------------------ MODULE UserOps ------------------------------
(***************************************************************************)
(* What the bundler, its submitter and the chain all know of a user        *)
(* operation: its hash, and the sender, nonce and entry point the hash     *)
(* covers (buildCanonicalUserOpHash, packages/bundler/src/entrypoint.ts).  *)
(***************************************************************************)
EXTENDS Naturals, FiniteSets

CONSTANTS
  Hashes,             \* user operation hashes
  SenderOf, NonceOf,  \* sender and nonce of the operation with a given hash
  EntryPointOf,       \* the entry point it is sent to
  Txs, NoTx           \* transaction hashes, and null

ASSUME NoTxAssumption == NoTx \notin Txs

\* Two operations compete for one account nonce.
SameSlot(g, h) == SenderOf[g] = SenderOf[h] /\ NonceOf[g] = NonceOf[h]
=============================================================================
