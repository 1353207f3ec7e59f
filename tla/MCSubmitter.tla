---------------------------- MODULE MCSubmitter ----------------------------
(* Instances of Submitter small enough for TLC. *)
EXTENDS Submitter

CONSTANTS h1, h2, h3, alice, entryPoint

\* h1 and h2 compete for one sender and nonce; h3 has the next nonce.
MCSenderOf == [h \in Hashes |-> alice]
MCNonceOf == [h \in Hashes |-> IF h = h3 THEN 2 ELSE 1]
MCEntryPointOf == [h \in Hashes |-> entryPoint]
=============================================================================
