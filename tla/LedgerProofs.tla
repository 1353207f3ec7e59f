---------------------------- MODULE LedgerProofs ----------------------------
(* What follows from the ledger's promise alone, for every set of          *)
(* operations.                                                             *)
EXTENDS Ledger, TLAPS

SlotsKept == status \in Statuses /\ SlotsExclusive

LEMMA LedgerStep ==
  ASSUME SlotsKept, [LedgerNext]_status
  PROVE  SlotsKept'
  <1> USE DEF SlotsKept, Statuses, OpenStatus, FinalStatus
  <1>1. CASE UNCHANGED status
    BY <1>1 DEF SlotsExclusive, InStatus, SameSlot
  <1>2. ASSUME NEW h \in Hashes, Accept(h)
        PROVE  SlotsKept'
    <2>1. status' = [g \in Hashes |-> IF g = h THEN "pending" ELSE status[g]]
      BY <1>2 DEF Accept, Becomes
    <2>2. \A g \in Hashes \ {h} : status[g] \in OpenStatus => ~SameSlot(g, h) /\ ~SameSlot(h, g)
      BY <1>2 DEF Accept, Free, InStatus, SameSlot
    <2> QED
      BY <2>1, <2>2 DEF SlotsExclusive, InStatus, SameSlot
  <1>3. ASSUME NEW h \in Hashes, NEW result \in FinalStatus, Report(h, result)
        PROVE  SlotsKept'
    BY <1>3 DEF Report, Becomes, SlotsExclusive, InStatus, SameSlot
  <1>4. ASSUME NEW S \in SUBSET Hashes, Take(S) \/ GiveBack(S) \/ Forget(S)
        PROVE  SlotsKept'
    BY <1>4 DEF Take, GiveBack, Forget, Becomes, SlotsExclusive, InStatus, SameSlot
  <1> QED
    BY <1>1, <1>2, <1>3, <1>4 DEF LedgerNext

\* A ledger has one open operation per sender and nonce at any time: what a
\* client of the bundler may rely on (index.test.ts:778).
THEOREM LedgerKeepsSlots == LedgerSpec => []SlotsExclusive
  <1>1. LedgerInit => SlotsKept
    BY DEF LedgerInit, SlotsKept, Statuses, SlotsExclusive, InStatus, OpenStatus
  <1>2. SlotsKept /\ [LedgerNext]_status => SlotsKept'
    BY LedgerStep
  <1>3. SlotsKept => SlotsExclusive
    BY DEF SlotsKept
  <1> QED
    BY <1>1, <1>2, <1>3, PTL DEF LedgerSpec
=============================================================================
