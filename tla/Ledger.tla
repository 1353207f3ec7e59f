------------------------------- MODULE Ledger -------------------------------
(***************************************************************************)
(* What the mempool promises to its clients, and nothing of how: every     *)
(* operation has one status, each sender and nonce has one open operation, *)
(* and statuses change one handler at a time.  There is no memory and no   *)
(* table here, no simulation, no statement and no crash.                   *)
(***************************************************************************)
EXTENDS UserOps

VARIABLE status

OpenStatus == {"pending", "submitting"}
FinalStatus == {"included", "failed"}

InStatus(S) == {h \in Hashes : status[h] \in S}

\* No other operation of its sender and nonce is open.
Free(h) == \A g \in InStatus(OpenStatus) \ {h} : ~SameSlot(g, h)

Becomes(S, new) == status' = [h \in Hashes |-> IF h \in S THEN new ELSE status[h]]

-----------------------------------------------------------------------------
\* A new operation, or the retry of one that failed.
Accept(h) ==
  /\ status[h] \in {"none", "failed"}
  /\ Free(h)
  /\ Becomes({h}, "pending")

\* Operations are taken for a bundle, all of one entry point.
Take(S) ==
  /\ S \subseteq InStatus({"pending"})
  /\ \A g, h \in S : EntryPointOf[g] = EntryPointOf[h]
  /\ Becomes(S, "submitting")

GiveBack(S) == S \subseteq InStatus({"submitting"}) /\ Becomes(S, "pending")

\* Only an open operation gets a result.
Report(h, result) == status[h] \in OpenStatus /\ Becomes({h}, result)

\* Only results are forgotten.
Forget(S) == S \subseteq InStatus(FinalStatus) /\ Becomes(S, "none")

LedgerInit == status = [h \in Hashes |-> "none"]

LedgerNext ==
  \/ \E h \in Hashes : Accept(h) \/ \E result \in FinalStatus : Report(h, result)
  \/ \E S \in SUBSET Hashes : Take(S) \/ GiveBack(S) \/ Forget(S)

LedgerSpec == LedgerInit /\ [][LedgerNext]_status

-----------------------------------------------------------------------------
Statuses == [Hashes -> {"none"} \cup OpenStatus \cup FinalStatus]

\* One open operation per sender and nonce.
SlotsExclusive ==
  \A g, h \in InStatus(OpenStatus) : g # h => ~SameSlot(g, h)
=============================================================================
