-------------------------- MODULE ArithmeticProofs --------------------------
(***************************************************************************)
(* Facts of arithmetic that the proofs about transactions' nonces and      *)
(* quotes' costs and encodings rest on.  Induction is over sets: the       *)
(* library's theorems on well-founded relations that take no operator for  *)
(* a parameter give the least element of a set, and so everything else.    *)
(***************************************************************************)
EXTENDS Integers, TLAPS, WellFoundedInduction, FiniteSetTheorems

LessThan == OpToRel(<, Nat)

LEMMA LeastNumber ==
  ASSUME NEW T \in SUBSET Nat, T # {}
  PROVE  \E m \in T : \A n \in T : m <= n
  <1>1. IsWellFoundedOn(LessThan, Nat)
    BY NatLessThanWellFounded DEF LessThan
  <1>2. PICK m \in T : \A n \in T : ~(<<n, m>> \in LessThan)
    BY <1>1, WFMin
  <1>3. ASSUME NEW n \in T
        PROVE  m <= n
    <2>1. n \in Nat /\ m \in Nat /\ ~(<<n, m>> \in LessThan)
      BY <1>2
    <2>2. LessThan = {p \in Nat \X Nat : p[1] < p[2]}
      BY DEF LessThan, OpToRel
    <2>3. ~(n < m)
      BY <2>1, <2>2
    <2> QED
      BY <2>1, <2>3
  <1> QED
    BY <1>3

LEMMA Induction ==
  ASSUME NEW T \in SUBSET Nat, 0 \in T, \A n \in T : n + 1 \in T
  PROVE  T = Nat
  <1> SUFFICES ASSUME Nat \ T # {}
               PROVE  FALSE
    OBVIOUS
  <1>1. PICK m \in Nat \ T : \A n \in Nat \ T : m <= n
    BY LeastNumber
  <1>2. m # 0 /\ m - 1 \in Nat
    BY <1>1
  <1>3. m - 1 \in T
    BY <1>1, <1>2
  <1>4. (m - 1) + 1 \in T
    BY <1>3
  <1> QED
    BY <1>1, <1>4

\* The first of the numbers from h on that is not taken, where at most c are.
LEMMA FirstGap ==
  ASSUME NEW h \in Nat, NEW c \in Nat, NEW W, IsFiniteSet(W), Cardinality(W) <= c
  PROVE  \E n \in h..(h + c) : n \notin W /\ \A m \in h..(n - 1) : m \in W
  <1> DEFINE I == h..(h + c)
  <1>1. IsFiniteSet(I) /\ Cardinality(I) = c + 1
    <2>1. h \in Int /\ h + c \in Int /\ ~(h > h + c) /\ (h + c) - h + 1 = c + 1
      OBVIOUS
    <2> QED
      BY <2>1, FS_Interval
  <1>2. Cardinality(W) \in Nat
    BY FS_CardinalityType
  <1>3. ~(I \subseteq W)
    <2>1. ASSUME I \subseteq W
          PROVE  FALSE
      <3>1. Cardinality(I) <= Cardinality(W)
        BY <2>1, FS_Subset
      <3> QED
        BY <1>1, <1>2, <3>1
    <2> QED
      BY <2>1
  <1>4. I \ W # {} /\ I \ W \in SUBSET Nat
    BY <1>3
  <1> HIDE DEF I
  <1>5. PICK n \in I \ W : \A m \in I \ W : n <= m
    BY <1>4, LeastNumber
  <1>6. \A m \in h..(n - 1) : m \in W
    BY <1>5 DEF I
  <1> QED
    BY <1>5, <1>6 DEF I

-----------------------------------------------------------------------------
(* Division. *)

LEMMA DivisionMonotone ==
  ASSUME NEW a \in Nat, NEW b \in Nat, NEW w \in Nat \ {0}, a <= b
  PROVE  a \div w <= b \div w /\ a \div w \in Nat
  OBVIOUS

LEMMA DivisionTwice ==
  ASSUME NEW a \in Nat, NEW b \in Nat \ {0}, NEW w \in Nat \ {0}
  PROVE (a \div b) \div w = a \div (b * w)
  OBVIOUS

LEMMA QuotientAndRest ==
  ASSUME NEW a \in Nat, NEW w \in Nat \ {0}
  PROVE  a = w * (a \div w) + (a % w) /\ a % w \in 0..(w-1) /\ a \div w \in Nat
  OBVIOUS

LEMMA SmallQuotient ==
  ASSUME NEW a \in Nat, NEW w \in Nat \ {0}, a < w
  PROVE  a \div w = 0
  OBVIOUS

LEMMA ProductMonotone ==
  ASSUME NEW a \in Nat, NEW b \in Nat, NEW c \in Nat, a <= b
  PROVE  a * c \in Nat /\ b * c \in Nat /\ a * c <= b * c
  <1>1. (b - a) \in Nat /\ a * c \in Nat /\ b * c \in Nat
    OBVIOUS
  <1>2. (b - a) * c \in Nat
    BY <1>1
  <1>3. (b - a) * c = b * c - a * c
    OBVIOUS
  <1> QED
    BY <1>1, <1>2, <1>3

-----------------------------------------------------------------------------
(* Powers.  A recursive function is the one that its equation describes when *)
(* there is one: it is put together from its values up to each number.      *)

\* The powers of b up to the n-th.
IsTable(b, f, n) ==
  /\ f \in [0..n -> Nat \ {0}]
  /\ f[0] = 1
  /\ \A i \in 1..n : f[i] = b * f[i - 1]

LEMMA TablesAgree ==
  ASSUME NEW b \in Nat \ {0}, NEW n \in Nat, NEW m \in Nat, NEW f, NEW g,
         IsTable(b, f, n), IsTable(b, g, m), NEW k \in Nat, k <= n, k <= m
  PROVE  f[k] = g[k]
  <1> DEFINE T == {i \in Nat : i <= n /\ i <= m => f[i] = g[i]}
  <1>1. T \in SUBSET Nat /\ 0 \in T
    BY DEF IsTable
  <1>2. ASSUME NEW i \in T
        PROVE  i + 1 \in T
    <2> SUFFICES ASSUME i + 1 <= n, i + 1 <= m
                 PROVE  f[i + 1] = g[i + 1]
      OBVIOUS
    <2>1. i + 1 \in 1..n /\ i + 1 \in 1..m /\ (i + 1) - 1 = i /\ f[i] = g[i]
      OBVIOUS
    <2> QED
      BY <2>1 DEF IsTable
  <1> HIDE DEF T
  <1>3. T = Nat
    BY <1>1, <1>2, Induction
  <1> QED
    BY <1>3 DEF T

LEMMA TableFound ==
  ASSUME NEW b \in Nat \ {0}, NEW n \in Nat
  PROVE  \E f : IsTable(b, f, n)
  <1> DEFINE T == {i \in Nat : \E f : IsTable(b, f, i)}
  <1>1. 0 \in T
    <2>1. IsTable(b, [i \in 0..0 |-> 1], 0)
      BY DEF IsTable
    <2> QED
      BY <2>1
  <1>2. ASSUME NEW i \in T
        PROVE  i + 1 \in T
    <2>1. PICK f : IsTable(b, f, i)
      OBVIOUS
    <2> DEFINE g == [j \in 0..(i + 1) |-> IF j = i + 1 THEN b * f[i] ELSE f[j]]
    <2>2. f[i] \in Nat \ {0} /\ b * f[i] \in Nat \ {0}
      BY <2>1 DEF IsTable
    <2>3. g \in [0..(i + 1) -> Nat \ {0}] /\ g[0] = 1
      BY <2>1, <2>2 DEF IsTable
    <2>4. ASSUME NEW j \in 1..(i + 1)
          PROVE  g[j] = b * g[j - 1]
      <3>1. j - 1 \in 0..i /\ j - 1 # i + 1 /\ j - 1 \in 0..(i + 1)
        OBVIOUS
      <3>2. g[j - 1] = f[j - 1]
        BY <3>1
      <3>3. CASE j = i + 1
        BY <3>2, <3>3
      <3>4. CASE j # i + 1
        BY <2>1, <3>2, <3>4 DEF IsTable
      <3> QED
        BY <3>3, <3>4
    <2> HIDE DEF g
    <2>5. IsTable(b, g, i + 1)
      BY <2>3, <2>4 DEF IsTable
    <2> QED
      BY <2>5
  <1>3. T \in SUBSET Nat
    OBVIOUS
  <1> HIDE DEF T
  <1>4. T = Nat
    BY <1>1, <1>2, <1>3, Induction
  <1> QED
    BY <1>4 DEF T

LEMMA PowersExist ==
  ASSUME NEW b \in Nat \ {0}
  PROVE  \E f : f = [n \in Nat |-> IF n = 0 THEN 1 ELSE b * f[n - 1]]
  <1> DEFINE table(n) == CHOOSE f : IsTable(b, f, n)
             f == [n \in Nat |-> table(n)[n]]
  <1>1. \A n \in Nat : IsTable(b, table(n), n)
    BY TableFound
  <1> HIDE DEF table
  <1>2. f[0] = 1
    BY <1>1 DEF IsTable
  <1>3. ASSUME NEW n \in Nat, n # 0
        PROVE  f[n] = b * f[n - 1]
    <2>1. n - 1 \in Nat /\ n \in 1..n /\ n - 1 <= n /\ n - 1 <= n - 1
      BY <1>3
    <2>2. table(n)[n] = b * table(n)[n - 1]
      BY <1>1, <2>1 DEF IsTable
    <2>3. table(n)[n - 1] = table(n - 1)[n - 1]
      BY <1>1, <2>1, TablesAgree
    <2> QED
      BY <2>1, <2>2, <2>3
  <1>4. f = [n \in Nat |-> IF n = 0 THEN 1 ELSE b * f[n - 1]]
    BY <1>2, <1>3
  <1> QED
    BY <1>4
=============================================================================
