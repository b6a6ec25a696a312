--------------------------- MODULE JudgementProofs ---------------------------
(***************************************************************************)
(* Theorems about Verdict and Alignment: for outputs of any length, for    *)
(* ledgers of any size, weights of any value, and any sequence of states.  *)
(*                                                                         *)
(* What a sum over a sequence and the first line of a text are is proved   *)
(* from the least counterexample.                                          *)
(***************************************************************************)
EXTENDS Verdict, Alignment, WellFoundedInduction, FiniteSetTheorems,
        SequenceTheorems, TLAPS

\* A set of numbers has a least one.
LEMMA Least ==
    ASSUME NEW S \in SUBSET Nat, S # {}
    PROVE  \E i \in S : \A j \in S : i <= j
<1>1. \E x \in S : \A y \in S : ~ (<<y, x>> \in OpToRel(<, Nat))
  BY WFMin, NatLessThanWellFounded
<1>2. PICK x \in S : \A y \in S : ~ (<<y, x>> \in OpToRel(<, Nat))
  BY <1>1
<1>3. \A y \in S : ~(y < x)
  BY <1>2 DEF OpToRel
<1>4. QED
  <2> HIDE <1>2
  <2>1. QED
    BY <1>3

-----------------------------------------------------------------------------
(* Sums.                                                                   *)

\* The sums of the first 0, 1, ..., k numbers of a sequence.
PartialSums(xs, k) ==
    {g \in [0..k -> Int] : \A i \in 0..k : g[i] = IF i = 0 THEN 0 ELSE g[i - 1] + xs[i]}

\* They exist.
LEMMA SumsExist ==
    ASSUME NEW xs \in Seq(Int), NEW n \in 0..Len(xs)
    PROVE  PartialSums(xs, n) # {}
<1> DEFINE Lacks == {k \in 0..Len(xs) : PartialSums(xs, k) = {}}
<1> SUFFICES ASSUME Lacks # {} PROVE FALSE
  OBVIOUS
<1>0. Lacks \in SUBSET Nat
  OBVIOUS
<1>1. PICK k \in Lacks : \A j \in Lacks : k <= j
  BY <1>0, Least
<1>2. k \in 0..Len(xs) /\ PartialSums(xs, k) = {}
  OBVIOUS
<1>3. k # 0
  <2>1. [i \in 0..0 |-> 0] \in PartialSums(xs, 0)
    BY DEF PartialSums
  <2>2. PartialSums(xs, 0) # {}
    BY <2>1
  <2> HIDE DEF Lacks
  <2>3. QED
    BY <1>2, <2>2
<1> HIDE DEF Lacks
<1>4. k - 1 \in 0..Len(xs) /\ k - 1 \notin Lacks
  BY <1>1, <1>2, <1>3
<1>5. PICK g : g \in PartialSums(xs, k - 1)
  BY <1>4 DEF Lacks
<1>6. /\ g \in [0..(k - 1) -> Int]
      /\ \A i \in 0..(k - 1) : g[i] = IF i = 0 THEN 0 ELSE g[i - 1] + xs[i]
  BY <1>5 DEF PartialSums
<1> DEFINE h == [i \in 0..k |-> IF i = k THEN g[k - 1] + xs[k] ELSE g[i]]
<1>7. h \in [0..k -> Int]
  BY <1>2, <1>3, <1>6
<1>8. ASSUME NEW i \in 0..k PROVE h[i] = IF i = 0 THEN 0 ELSE h[i - 1] + xs[i]
  <2>1. CASE i = k
    BY <1>2, <1>3, <2>1
  <2>2. CASE i # k
    BY <1>2, <1>3, <1>6, <2>2
  <2>3. QED
    BY <2>1, <2>2
<1> HIDE DEF h
<1>9. QED
  BY <1>2, <1>7, <1>8 DEF PartialSums

\* A total is the last of them.
LEMMA TotalFacts ==
    ASSUME NEW xs \in Seq(Int)
    PROVE  \E g \in PartialSums(xs, Len(xs)) : Total(xs) = g[Len(xs)]
<1> DEFINE F(f) == [i \in 0..Len(xs) |-> IF i = 0 THEN 0 ELSE f[i - 1] + xs[i]]
           upTo == CHOOSE f : f = F(f)
<1>1. Len(xs) \in 0..Len(xs)
  OBVIOUS
<1>2. PICK g : g \in PartialSums(xs, Len(xs))
  BY <1>1, SumsExist
<1>3. g = F(g)
  BY <1>2 DEF PartialSums
<1>4. upTo = F(upTo)
  BY <1>3
<1>5. Total(xs) = upTo[Len(xs)]
  BY DEF Total
<1>6. /\ g \in [0..Len(xs) -> Int] /\ Len(xs) \in Nat
      /\ \A i \in 0..Len(xs) : g[i] = IF i = 0 THEN 0 ELSE g[i - 1] + xs[i]
  BY <1>2 DEF PartialSums
<1>7. \A i \in 0..Len(xs) : upTo[i] = IF i = 0 THEN 0 ELSE upTo[i - 1] + xs[i]
  <2> HIDE DEF upTo
  <2>1. QED
    BY <1>4
<1> HIDE DEF F, upTo
<1>8. upTo[Len(xs)] = g[Len(xs)]
  <2> DEFINE Differ == {i \in 0..Len(xs) : upTo[i] # g[i]}
  <2>1. SUFFICES ASSUME Differ # {} PROVE FALSE
    BY <1>6
  <2>2. Differ \in SUBSET Nat
    OBVIOUS
  <2>3. PICK i \in Differ : \A j \in Differ : i <= j
    BY <2>1, <2>2, Least
  <2>4. i # 0 => i - 1 \in 0..Len(xs) /\ i - 1 \notin Differ
    BY <1>6, <2>3
  <2>5. QED
    BY <1>6, <1>7, <2>4
<1>9. QED
  BY <1>2, <1>5, <1>8

\* Numbers that are at most k times as large have a total that is at most k
\* times as large.
LEMMA TotalBounds ==
    ASSUME NEW xs \in Seq(Nat), NEW ys \in Seq(Int), NEW k \in Nat, Len(ys) = Len(xs),
           \A i \in 1..Len(xs) : 0 <= ys[i] /\ ys[i] <= k * xs[i]
    PROVE  /\ Total(xs) \in Nat /\ Total(ys) \in Int
           /\ 0 <= Total(ys) /\ Total(ys) <= k * Total(xs)
<1>0. xs \in Seq(Int) /\ Len(xs) \in Nat /\ \A i \in 1..Len(xs) : xs[i] \in Nat /\ ys[i] \in Int
  OBVIOUS
<1>1. PICK f \in PartialSums(xs, Len(xs)) : Total(xs) = f[Len(xs)]
  BY <1>0, TotalFacts
<1>2. PICK g \in PartialSums(ys, Len(xs)) : Total(ys) = g[Len(xs)]
  BY TotalFacts
<1>3. /\ f \in [0..Len(xs) -> Int] /\ g \in [0..Len(xs) -> Int]
      /\ \A i \in 0..Len(xs) : f[i] = IF i = 0 THEN 0 ELSE f[i - 1] + xs[i]
      /\ \A i \in 0..Len(xs) : g[i] = IF i = 0 THEN 0 ELSE g[i - 1] + ys[i]
  BY <1>1, <1>2 DEF PartialSums
<1>4. \A i \in 0..Len(xs) : 0 <= f[i] /\ 0 <= g[i] /\ g[i] <= k * f[i]
  <2> DEFINE Bad == {i \in 0..Len(xs) : ~(0 <= f[i] /\ 0 <= g[i] /\ g[i] <= k * f[i])}
  <2>1. SUFFICES ASSUME Bad # {} PROVE FALSE
    OBVIOUS
  <2>2. Bad \in SUBSET Nat
    OBVIOUS
  <2>3. PICK i \in Bad : \A j \in Bad : i <= j
    BY <2>1, <2>2, Least
  <2>4. i # 0
    <3>1. f[0] = 0 /\ g[0] = 0
      BY <1>0, <1>3
    <3>2. k * 0 = 0
      OBVIOUS
    <3>3. 0 \notin Bad
      BY <3>1, <3>2
    <3> HIDE DEF Bad
    <3>4. QED
      BY <2>3, <3>3
  <2>5. i \in 1..Len(xs) /\ i - 1 \in 0..Len(xs) /\ i - 1 \notin Bad
    BY <1>0, <2>3, <2>4
  <2>6. 0 <= f[i - 1] /\ 0 <= g[i - 1] /\ g[i - 1] <= k * f[i - 1]
    BY <2>5
  <2>7. /\ f[i] = f[i - 1] + xs[i] /\ g[i] = g[i - 1] + ys[i]
        /\ f[i - 1] \in Int /\ g[i - 1] \in Int /\ xs[i] \in Nat /\ ys[i] \in Int
        /\ 0 <= ys[i] /\ ys[i] <= k * xs[i]
    BY <1>0, <1>3, <2>4, <2>5
  <2>8. \A p, q \in Int : k * (p + q) = k * p + k * q
    OBVIOUS
  <2>9. k * f[i] = k * f[i - 1] + k * xs[i]
    BY <2>7, <2>8
  <2>10. k * f[i - 1] \in Int /\ k * xs[i] \in Int
    <3>1. \A a \in Int : k * a \in Int
      OBVIOUS
    <3>2. f[i - 1] \in Int /\ xs[i] \in Int
      BY <2>7
    <3>3. QED
      BY <3>1, <3>2
  <2>11. 0 <= f[i] /\ 0 <= g[i]
    <3>1. \A a, b \in Int : 0 <= a /\ 0 <= b => 0 <= a + b
      OBVIOUS
    <3>2. xs[i] \in Int /\ 0 <= xs[i]
      BY <2>7
    <3>3. 0 <= f[i - 1] + xs[i]
      BY <2>6, <2>7, <3>1, <3>2, Zenon
    <3>4. 0 <= g[i - 1] + ys[i]
      BY <2>6, <2>7, <3>1, Zenon
    <3>5. QED
      BY <2>7, <3>3, <3>4, Zenon
  <2>12. g[i - 1] + ys[i] <= k * f[i - 1] + k * xs[i]
    <3>1. \A a, b, p, q \in Int : a <= p /\ b <= q => a + b <= p + q
      OBVIOUS
    <3>2. QED
      BY <2>6, <2>7, <2>10, <3>1, Zenon
  <2>13. g[i] <= k * f[i]
    BY <2>7, <2>9, <2>12
  <2>14. QED
    BY <2>3, <2>11, <2>13
<1>5. QED
  BY <1>0, <1>1, <1>2, <1>3, <1>4

-----------------------------------------------------------------------------
(* The gate.                                                               *)

\* With weights that make a mean, a score is between 0 and 1, and one at the
\* threshold or above owes at least half to the objective.
LEMMA ScoreFacts ==
    ASSUME vectors \in Seq(Nat), NEW b \in Similarity,
           NEW sims \in [1..Len(vectors) -> Similarity], NEW s, s = Score(b, sims)
    PROVE  /\ s.n \in Int /\ s.d \in Nat \ {0}
           /\ 0 <= s.n /\ s.n <= Scale * s.d
           /\ s.n >= Threshold * s.d => b + Scale >= 2 * Threshold
<1> DEFINE total == Total(vectors)
           weighted == Total(Weighted(sims))
<1>0. /\ Scale \in Nat /\ Threshold \in Nat /\ Threshold <= Scale
      /\ b \in Nat /\ b <= Scale /\ Huge \in Nat
  BY ScaleAssumption, GateBoundsAssumption DEF Similarity
<1>1. /\ Weighted(sims) \in Seq(Int) /\ Len(Weighted(sims)) = Len(vectors)
      /\ \A i \in 1..Len(vectors) :
            0 <= Weighted(sims)[i] /\ Weighted(sims)[i] <= Scale * vectors[i]
  <2>1. ASSUME NEW i \in 1..Len(vectors)
        PROVE  sims[i] * vectors[i] \in Int /\ 0 <= sims[i] * vectors[i]
               /\ sims[i] * vectors[i] <= Scale * vectors[i]
    <3>1. sims[i] \in Nat /\ sims[i] <= Scale /\ vectors[i] \in Nat
      BY <1>0 DEF Similarity
    <3>2. \A p, q, r \in Nat : p <= q => p * r \in Nat /\ p * r <= q * r
      BY SMTT(30)
    <3>3. QED
      BY <1>0, <3>1, <3>2
  <2>2. QED
    BY <2>1 DEF Weighted
<1>2. /\ total \in Nat /\ weighted \in Int
      /\ 0 <= weighted /\ weighted <= Scale * total
  BY <1>0, <1>1, TotalBounds
<1> HIDE DEF total, weighted
<1>3. CASE vectors = <<>>
  <2>1. s.n = b /\ s.d = 1
    BY <1>3 DEF Score
  <2>2. QED
    BY <1>0, <2>1
<1>4. CASE vectors # <<>> /\ total > 0
  <2>1. s.n = b * total + weighted /\ s.d = 2 * total
    BY <1>4 DEF Score, total, weighted
  <2>2. b * total \in Nat /\ b * total <= Scale * total /\ Scale * total \in Nat
    BY <1>0, <1>2, SMTT(30)
  <2>3. Scale * (2 * total) = Scale * total + Scale * total
    BY <1>0, <1>2
  <2>4. ASSUME b * total + weighted >= Threshold * (2 * total)
        PROVE  b + Scale >= 2 * Threshold
    <3>1. Threshold * (2 * total) = (2 * Threshold) * total
      BY <1>0, <1>2
    <3>2. b * total + Scale * total = (b + Scale) * total
      BY <1>0, <1>2
    <3>3. (b + Scale) * total >= (2 * Threshold) * total
      BY <1>0, <1>2, <2>2, <2>4, <3>1, <3>2
    <3>4. \A p, q \in Nat : p * total >= q * total => p >= q
      BY <1>2, <1>4, SMTT(30)
    <3>5. QED
      BY <1>0, <3>3, <3>4
  <2>5. s.n \in Int /\ 0 <= s.n /\ s.d \in Nat \ {0}
    BY <1>2, <1>4, <2>1, <2>2
  <2>6. s.n <= Scale * s.d
    BY <1>2, <2>1, <2>2, <2>3
  <2>7. QED
    BY <2>1, <2>4, <2>5, <2>6
<1>5. CASE vectors # <<>> /\ ~(total > 0)
  <2>1. s.n = b + weighted * Huge /\ s.d = 2
    BY <1>5 DEF Score, total, weighted
  <2>2. total = 0 /\ Scale * 0 = 0
    BY <1>0, <1>2, <1>5
  <2>3. weighted = 0
    BY <1>2, <2>2
  <2>4. s.n = b
    BY <1>0, <2>1, <2>3
  <2>5. QED
    BY <1>0, <2>1, <2>4
<1>6. QED
  BY <1>3, <1>4, <1>5

\* What holds of a gate on a ledger of such weights, after any states.
GateInv ==
    /\ Cardinality(Active(entries)) \in Nat
    /\ Proper => vectors \in Seq(Nat)
    /\ ObjectiveKeepsHalf /\ VectorsStayProper

\* A gate starts with the active vectors of a ledger, whatever their order.
LEMMA GateInvInit == GateInit => GateInv
<1> SUFFICES ASSUME GateInit PROVE GateInv
  OBVIOUS
<1> DEFINE c == Cardinality(Active(entries))
<1>1. PICK n \in Nat : entries \in [1..n -> [weight : Weights, neutralized : BOOLEAN]]
  BY GateBoundsAssumption DEF GateInit
<1>2. Len(entries) = n /\ Active(entries) \subseteq 1..n
  BY <1>1 DEF Active
<1>3. c \in Nat
  <2>1. IsFiniteSet(1..n)
    BY FS_Interval
  <2>2. IsFiniteSet(Active(entries))
    BY <1>2, <2>1, FS_Subset
  <2>3. QED
    BY <2>2, FS_CardinalityType
<1>4. PICK order \in Bijection(1..c, Active(entries)) :
          vectors = [k \in 1..c |-> entries[order[k]].weight]
  BY DEF GateInit, ActiveVectors
<1>5. order \in [1..c -> Active(entries)]
  BY <1>4 DEF Bijection, Injection
<1> HIDE DEF c
<1>6. Len(vectors) = c
  BY <1>3, <1>4
<1>7. Proper => vectors \in Seq(Nat)
  <2> SUFFICES ASSUME Proper PROVE vectors \in Seq(Nat)
    OBVIOUS
  <2>1. \A i \in Active(entries) : entries[i].weight \in Nat
    BY <1>2 DEF Proper, Active
  <2>2. \A k \in 1..c : entries[order[k]].weight \in Nat
    BY <1>5, <2>1
  <2>3. vectors \in [1..c -> Nat]
    BY <1>4, <2>2
  <2>4. QED
    BY <1>3, <2>3
<1>8. QED
  BY <1>3, <1>6, <1>7 DEF GateInit, GateInv, ObjectiveKeepsHalf, VectorsStayProper, c

\* A quotient of what is at most m times the denominator.
LEMMA Quotient ==
    ASSUME NEW n \in Nat, NEW d \in Nat \ {0}, NEW m \in Nat, n <= m * d
    PROVE  n \div d \in 0..m
BY SMTT(60)

\* A state goes through the gate.
LEMMA GateInvStep == GateInv /\ [Gate]_gateVars => GateInv'
<1> SUFFICES ASSUME GateInv, [Gate]_gateVars PROVE GateInv'
  OBVIOUS
<1> DEFINE c == Cardinality(Active(entries))
<1>1. CASE UNCHANGED gateVars
  BY <1>1 DEF gateVars, GateInv, ObjectiveKeepsHalf, VectorsStayProper, Proper, Active
<1>2. CASE Gate
  <2>1. c' = c /\ c \in Nat /\ (Proper' <=> Proper)
    BY <1>2 DEF Gate, GateInv, Proper, Active
  <2>2. CASE ~Proper
    BY <2>1, <2>2 DEF GateInv, ObjectiveKeepsHalf, VectorsStayProper
  <2>3. CASE Proper
    <3>0. /\ vectors \in Seq(Nat) /\ Scale \in Nat
          /\ \A i \in (c + 1)..Len(vectors) : vectors[i] \in Similarity
      BY <2>3, ScaleAssumption DEF GateInv, VectorsStayProper
    <3>1. NaN \notin Range(vectors)
      BY <3>0, WeightAssumption DEF Range
    <3>2. PICK sims \in [1..Len(vectors) -> Similarity] : score' = Score(base', sims)
      BY <1>2, <3>1 DEF Gate, GateNaN, GatePasses, GateRejects
    <3>3. base' \in Similarity
      BY <1>2, <3>1 DEF Gate, GateNaN, GatePasses, GateRejects
    <3>4. /\ score'.n \in Int /\ score'.d \in Nat \ {0}
          /\ 0 <= score'.n /\ score'.n <= Scale * score'.d
          /\ score'.n >= Threshold * score'.d => base' + Scale >= 2 * Threshold
      BY <3>0, <3>2, <3>3, ScoreFacts
    <3>5. CASE GateRejects
      BY <2>1, <3>0, <3>5 DEF GateRejects, GateInv, ObjectiveKeepsHalf, VectorsStayProper
    <3>6. CASE GatePasses
      <4>1. /\ vectors' = Append(vectors, score'.n \div score'.d)
            /\ score'.n >= Threshold * score'.d
        BY <3>6 DEF GatePasses
      <4>2. score'.n \div score'.d \in Similarity
        <5>1. score'.n \in Nat
          BY <3>4
        <5>2. score'.n \div score'.d \in 0..Scale
          BY <3>0, <3>4, <5>1, Quotient
        <5>3. QED
          BY <5>2 DEF Similarity
      <4>3. score'.n \div score'.d \in Nat
        BY <3>0, <4>2 DEF Similarity
      <4> DEFINE new == score'.n \div score'.d
      <4> HIDE DEF new
      <4>4. vectors' = Append(vectors, new) /\ new \in Nat /\ new \in Similarity
        BY <4>1, <4>2, <4>3 DEF new
      <4>5. /\ vectors' \in Seq(Nat) /\ Len(vectors') = Len(vectors) + 1
            /\ \A i \in 1..Len(vectors) : vectors'[i] = vectors[i]
            /\ vectors'[Len(vectors) + 1] = new
        BY <3>0, <4>4
      <4>6. \A i \in (c + 1)..Len(vectors') : vectors'[i] \in Similarity
        BY <2>1, <3>0, <4>4, <4>5
      <4>7. base' + Scale >= 2 * Threshold
        BY <3>4, <4>1
      <4>8. QED
        BY <2>1, <4>5, <4>6, <4>7 DEF GateInv, ObjectiveKeepsHalf, VectorsStayProper
    <3>7. QED
      BY <1>2, <3>1, <3>5, <3>6 DEF Gate, GateNaN
  <2>4. QED
    BY <2>2, <2>3
<1>3. QED
  BY <1>1, <1>2

\* The invariant of the gate.
LEMMA GateInvariant == GateSpec => []GateInv
<1>1. QED
  BY GateInvInit, GateInvStep, PTL DEF GateSpec

\* Whatever passed before, a state that passes is as close to the objective as
\* the threshold asks of one that agrees with every vector (run_alignment_gate).
THEOREM HalfKept == GateSpec => []ObjectiveKeepsHalf
<1>1. GateInv => ObjectiveKeepsHalf
  BY DEF GateInv
<1>2. QED
  BY <1>1, GateInvariant, PTL

\* What passes leave behind weighs between 0 and 1 (compute_alignment_score).
THEOREM VectorsProper == GateSpec => []VectorsStayProper
<1>1. GateInv => VectorsStayProper
  BY DEF GateInv
<1>2. QED
  BY <1>1, GateInvariant, PTL

-----------------------------------------------------------------------------
(* Texts.                                                                  *)

AnyLine == {"sat", "unsat", "unknown", "no core", "blank", "x", "y"}
Texts == Seq(AnyLine)

\* The lines of a text that are not blank.
KeptLines(s) == {i \in 1..Len(s) : s[i] # "blank"}

\* A text that is not blank has a first and a last line that are not, and
\* str::trim keeps what is from the one to the other.
LEMMA TrimFacts ==
    ASSUME NEW s \in Texts
    PROVE  /\ KeptLines(s) = {} => Trim(s) = <<>>
           /\ KeptLines(s) # {} =>
                 \E f, l \in KeptLines(s) :
                     /\ \A i \in KeptLines(s) : f <= i /\ i <= l
                     /\ Trim(s) = SubSeq(s, f, l)
<1>1. Len(s) \in Nat
  BY DEF Texts
<1>2. CASE KeptLines(s) = {}
  BY <1>2 DEF KeptLines, Trim
<1>3. CASE KeptLines(s) # {}
  <2>1. KeptLines(s) \in SUBSET Nat
    BY DEF KeptLines
  <2>2. \E f \in KeptLines(s) : \A i \in KeptLines(s) : f <= i
    BY <1>3, <2>1, Least
  <2>3. \E l \in KeptLines(s) : \A i \in KeptLines(s) : l >= i
    <3> DEFINE FromEnd == {k \in 0..Len(s) : Len(s) - k \in KeptLines(s)}
    <3>1. FromEnd \in SUBSET Nat
      OBVIOUS
    <3>2. ASSUME NEW i \in KeptLines(s) PROVE Len(s) - i \in FromEnd
      BY <1>1 DEF KeptLines
    <3>3. FromEnd # {}
      BY <1>3, <3>2
    <3>4. PICK k \in FromEnd : \A j \in FromEnd : k <= j
      BY <3>1, <3>3, Least
    <3>5. Len(s) - k \in KeptLines(s) /\ k \in Nat
      BY <3>4
    <3> HIDE DEF FromEnd
    <3>6. ASSUME NEW i \in KeptLines(s) PROVE Len(s) - k >= i
      <4>1. k <= Len(s) - i
        BY <3>2, <3>4
      <4>2. QED
        BY <1>1, <2>1, <3>5, <4>1
    <3>7. QED
      BY <3>5, <3>6
  <2> DEFINE f == CHOOSE i \in KeptLines(s) : \A j \in KeptLines(s) : i <= j
             l == CHOOSE i \in KeptLines(s) : \A j \in KeptLines(s) : i >= j
  <2>4. f \in KeptLines(s) /\ \A i \in KeptLines(s) : f <= i
    BY <2>2
  <2>5. l \in KeptLines(s) /\ \A i \in KeptLines(s) : l >= i
    BY <2>3
  <2>6. Trim(s) = SubSeq(s, f, l)
    BY <1>3 DEF Trim, KeptLines
  <2> HIDE DEF f, l
  <2>7. \A i \in KeptLines(s) : i <= l
    BY <2>1, <2>5
  <2>8. QED
    BY <1>3, <2>4, <2>5, <2>6, <2>7
<1>4. QED
  BY <1>2, <1>3

\* The length and the lines of a part of a text.
LEMMA PartFacts ==
    ASSUME NEW s \in Texts, NEW m \in Nat, NEW n \in Nat, 1 <= m, n <= Len(s)
    PROVE  /\ Len(SubSeq(s, m, n)) = IF m <= n THEN n - m + 1 ELSE 0
           /\ \A i \in 1..(n - m + 1) : SubSeq(s, m, n)[i] = s[m + i - 1]
           /\ SubSeq(s, m, n) \in Texts
<1>1. \A i \in m..n : s[i] \in AnyLine
  BY DEF Texts
<1>2. QED
  BY <1>1, SubSeqProperties DEF Texts

\* Two texts that are the same once trimmed are the same but for their margins.
LEMMA TrimmedSame ==
    ASSUME NEW s \in Texts, NEW t \in Texts, Trim(s) = Trim(t)
    PROVE  SameButForMargins(s, t)
<1>0. Len(s) \in Nat /\ Len(t) \in Nat
  BY DEF Texts
<1>1. CASE KeptLines(s) = {} /\ KeptLines(t) = {}
  <2>1. /\ \A i \in (1..Len(s)) \cup ((Len(s) + 1)..Len(s)) : s[i] = "blank"
        /\ \A i \in (1..Len(t)) \cup ((Len(t) + 1)..Len(t)) : t[i] = "blank"
    BY <1>0, <1>1 DEF KeptLines
  <2>2. SubSeq(s, Len(s) + 1, Len(s)) = SubSeq(t, Len(t) + 1, Len(t))
    BY <1>0, SubSeqEmpty
  <2>3. Len(s) \in 0..Len(s) /\ Len(t) \in 0..Len(t)
    BY <1>0
  <2>4. QED
    BY <2>1, <2>2, <2>3 DEF SameButForMargins
<1>2. ASSUME NEW u \in Texts, KeptLines(u) # {} PROVE Trim(u) # <<>>
  <2>1. PICK f, l \in KeptLines(u) : f <= l /\ Trim(u) = SubSeq(u, f, l)
    BY <1>2, TrimFacts
  <2>2. /\ f \in Nat /\ l \in Nat /\ 1 <= f /\ l <= Len(u)
    BY DEF KeptLines
  <2>3. Len(Trim(u)) = l - f + 1
    BY <2>1, <2>2, PartFacts
  <2>4. Len(<<>>) = 0
    OBVIOUS
  <2>5. Trim(u) = <<>> => Len(Trim(u)) = 0
    BY <2>4
  <2>6. QED
    BY <2>1, <2>2, <2>3, <2>5
<1>3. CASE KeptLines(s) # {} /\ KeptLines(t) # {}
  <2>1. PICK f, l \in KeptLines(s) : /\ \A i \in KeptLines(s) : f <= i /\ i <= l
                                     /\ Trim(s) = SubSeq(s, f, l)
    BY <1>3, TrimFacts
  <2>2. PICK p, q \in KeptLines(t) : /\ \A i \in KeptLines(t) : p <= i /\ i <= q
                                     /\ Trim(t) = SubSeq(t, p, q)
    BY <1>3, TrimFacts
  <2>3. /\ f \in 1..Len(s) /\ l \in 1..Len(s) /\ p \in 1..Len(t) /\ q \in 1..Len(t)
    BY DEF KeptLines
  <2>4. /\ f - 1 \in 0..Len(s) /\ l \in 0..Len(s) /\ (f - 1) + 1 = f
        /\ p - 1 \in 0..Len(t) /\ q \in 0..Len(t) /\ (p - 1) + 1 = p
    BY <1>0, <2>3
  <2>5. \A i \in (1..(f - 1)) \cup ((l + 1)..Len(s)) : s[i] = "blank"
    BY <1>0, <2>1, <2>3 DEF KeptLines
  <2>6. \A i \in (1..(p - 1)) \cup ((q + 1)..Len(t)) : t[i] = "blank"
    BY <1>0, <2>2, <2>3 DEF KeptLines
  <2>7. SubSeq(s, (f - 1) + 1, l) = SubSeq(t, (p - 1) + 1, q)
    BY <2>1, <2>2, <2>4
  <2>8. QED
    BY <2>4, <2>5, <2>6, <2>7 DEF SameButForMargins
<1>4. QED
  BY <1>1, <1>2, <1>3, TrimFacts

\* Two texts that are the same but for their margins are the same once trimmed.
LEMMA SameTrimmed ==
    ASSUME NEW s \in Texts, NEW t \in Texts, SameButForMargins(s, t)
    PROVE  Trim(s) = Trim(t)
<1>0. Len(s) \in Nat /\ Len(t) \in Nat
  BY DEF Texts
<1>1. PICK a \in 0..Len(s), b \in 0..Len(s), c \in 0..Len(t), d \in 0..Len(t) :
          /\ \A i \in (1..a) \cup ((b + 1)..Len(s)) : s[i] = "blank"
          /\ \A i \in (1..c) \cup ((d + 1)..Len(t)) : t[i] = "blank"
          /\ SubSeq(s, a + 1, b) = SubSeq(t, c + 1, d)
  BY DEF SameButForMargins
<1>2. /\ a \in Nat /\ b \in Nat /\ c \in Nat /\ d \in Nat
      /\ a <= Len(s) /\ b <= Len(s) /\ c <= Len(t) /\ d <= Len(t)
  BY <1>0
<1>3. /\ Len(SubSeq(s, a + 1, b)) = IF a + 1 <= b THEN b - a ELSE 0
      /\ \A i \in 1..(b - a) : SubSeq(s, a + 1, b)[i] = s[a + i]
  <2>1. b - (a + 1) + 1 = b - a /\ \A i \in 1..(b - a) : (a + 1) + i - 1 = a + i
    BY <1>2
  <2>2. QED
    BY <1>2, <2>1, PartFacts
<1>4. /\ Len(SubSeq(t, c + 1, d)) = IF c + 1 <= d THEN d - c ELSE 0
      /\ \A i \in 1..(d - c) : SubSeq(t, c + 1, d)[i] = t[c + i]
  <2>1. d - (c + 1) + 1 = d - c /\ \A i \in 1..(d - c) : (c + 1) + i - 1 = c + i
    BY <1>2
  <2>2. QED
    BY <1>2, <2>1, PartFacts
<1>5. \A i \in KeptLines(s) : i \in Nat /\ a + 1 <= i /\ i <= b
  BY <1>0, <1>1, <1>2 DEF KeptLines
<1>6. \A i \in KeptLines(t) : i \in Nat /\ c + 1 <= i /\ i <= d
  BY <1>0, <1>1, <1>2 DEF KeptLines
<1>7. CASE ~(a + 1 <= b)
  <2>1. ~(c + 1 <= d)
    BY <1>1, <1>2, <1>3, <1>4, <1>7
  <2>2. KeptLines(s) = {} /\ KeptLines(t) = {}
    BY <1>2, <1>5, <1>6, <1>7, <2>1
  <2>3. QED
    BY <2>2, TrimFacts
<1>8. CASE a + 1 <= b
  <2>1. b - a = d - c
    BY <1>1, <1>2, <1>3, <1>4, <1>8
  <2>2. \A i \in 1..(b - a) : s[a + i] = t[c + i]
    BY <1>1, <1>3, <1>4, <2>1
  <2>3. ASSUME NEW i \in KeptLines(s) PROVE (i - a) + c \in KeptLines(t)
    <3>1. /\ i - a \in 1..(b - a) /\ a + (i - a) = i /\ i \in 1..Len(s) /\ s[i] # "blank"
          /\ c + (i - a) = (i - a) + c
      BY <1>2, <1>5 DEF KeptLines
    <3>2. t[(i - a) + c] # "blank"
      BY <2>2, <3>1
    <3>3. (i - a) + c \in 1..Len(t)
      BY <1>2, <1>5, <2>1
    <3>4. QED
      BY <3>2, <3>3 DEF KeptLines
  <2>4. ASSUME NEW i \in KeptLines(t) PROVE (i - c) + a \in KeptLines(s)
    <3>1. /\ i - c \in 1..(b - a) /\ c + (i - c) = i /\ i \in 1..Len(t) /\ t[i] # "blank"
          /\ a + (i - c) = (i - c) + a
      BY <1>2, <1>6, <2>1 DEF KeptLines
    <3>2. s[(i - c) + a] # "blank"
      BY <2>2, <3>1
    <3>3. (i - c) + a \in 1..Len(s)
      BY <1>2, <1>6, <2>1
    <3>4. QED
      BY <3>2, <3>3 DEF KeptLines
  <2>5. CASE KeptLines(s) = {}
    <3>1. KeptLines(t) = {}
      BY <2>4, <2>5
    <3>2. QED
      BY <2>5, <3>1, TrimFacts
  <2>6. CASE KeptLines(s) # {}
    <3>0. KeptLines(t) # {}
      BY <2>3, <2>6
    <3>1. PICK f, l \in KeptLines(s) : /\ \A i \in KeptLines(s) : f <= i /\ i <= l
                                       /\ Trim(s) = SubSeq(s, f, l)
      BY <2>6, TrimFacts
    <3>2. PICK p, q \in KeptLines(t) : /\ \A i \in KeptLines(t) : p <= i /\ i <= q
                                       /\ Trim(t) = SubSeq(t, p, q)
      BY <3>0, TrimFacts
    <3>3. /\ f \in 1..Len(s) /\ l \in 1..Len(s) /\ p \in 1..Len(t) /\ q \in 1..Len(t)
          /\ f \in Nat /\ l \in Nat /\ p \in Nat /\ q \in Nat
          /\ 1 <= f /\ l <= Len(s) /\ 1 <= p /\ q <= Len(t)
          /\ f <= l /\ a + 1 <= f /\ l <= b /\ c + 1 <= p /\ q <= d
      BY <1>5, <1>6, <3>1, <3>2, SMTT(30) DEF KeptLines
    <3>4. p <= (f - a) + c /\ (l - a) + c <= q
      BY <2>3, <3>2
    <3>5. f <= (p - c) + a /\ (q - c) + a <= l
      BY <2>4, <3>1
    <3>6. p = (f - a) + c /\ q = (l - a) + c
      BY <1>2, <3>3, <3>4, <3>5
    <3>7. /\ SubSeq(s, f, l) \in Texts /\ SubSeq(t, p, q) \in Texts
          /\ Len(SubSeq(s, f, l)) = l - f + 1
          /\ Len(SubSeq(t, p, q)) = q - p + 1
          /\ \A i \in 1..(l - f + 1) : SubSeq(s, f, l)[i] = s[f + i - 1]
          /\ \A i \in 1..(q - p + 1) : SubSeq(t, p, q)[i] = t[p + i - 1]
      <4>1. p <= q
        BY <3>2
      <4>2. QED
        BY <3>3, <4>1, PartFacts
    <3>8. q - p + 1 = l - f + 1
      BY <1>2, <3>3, <3>6
    <3>9. ASSUME NEW i \in 1..(l - f + 1) PROVE s[f + i - 1] = t[p + i - 1]
      <4>1. /\ (f - a) + i - 1 \in 1..(b - a)
            /\ a + ((f - a) + i - 1) = f + i - 1
            /\ c + ((f - a) + i - 1) = p + i - 1
        BY <1>2, <3>3, <3>6
      <4>2. QED
        BY <2>2, <4>1
    <3>10. SubSeq(s, f, l) = SubSeq(t, p, q)
      <4>1. Len(SubSeq(s, f, l)) = Len(SubSeq(t, p, q))
        BY <3>7, <3>8
      <4>2. \A i \in 1..Len(SubSeq(s, f, l)) : SubSeq(s, f, l)[i] = SubSeq(t, p, q)[i]
        BY <3>7, <3>8, <3>9
      <4>3. QED
        BY <3>7, <4>1, <4>2, SeqEqual DEF Texts
    <3>11. QED
      BY <3>1, <3>2, <3>10
  <2>7. QED
    BY <2>5, <2>6
<1>9. QED
  BY <1>7, <1>8

-----------------------------------------------------------------------------
(* Verdicts.                                                               *)

\* A verdict is the one of the judgement on what the process printed.
VerdictInv ==
    /\ backend \in {"lean4", "z3", "sandbox"}
    /\ stdout \in Texts /\ expected \in Texts
    /\ verdict = "success" /\ backend = "sandbox" => Trim(stdout) = Trim(expected)

\* It is, with any number of lines.
LEMMA VerdictInvariant == Spec => []VerdictInv
<1>1. Init => VerdictInv
  <2>1. /\ <<>> \in Texts /\ <<"x">> \in Texts
        /\ <<"x", "blank", "y", "blank">> \in Texts
    BY DEF Texts, AnyLine
  <2>2. QED
    BY <2>1 DEF Init, VerdictInv, Lines
<1>2. VerdictInv /\ [Next]_vars => VerdictInv'
  <2> SUFFICES ASSUME VerdictInv, [Next]_vars PROVE VerdictInv'
    OBVIOUS
  <2>1. CASE Output
    <3>1. PICK l \in Lines[backend] : stdout' = Append(stdout, l)
      BY <2>1 DEF Output
    <3>2. stdout' \in Texts
      <4>1. l \in AnyLine
        <5>1. /\ Lines["lean4"] \subseteq AnyLine /\ Lines["z3"] \subseteq AnyLine
              /\ Lines["sandbox"] \subseteq AnyLine
          BY DEF Lines, AnyLine
        <5>2. QED
          BY <3>1, <5>1 DEF VerdictInv
      <4>2. QED
        BY <3>1, <4>1, AppendProperties DEF VerdictInv, Texts
    <3>3. QED
      BY <2>1, <3>2 DEF Output, VerdictInv
  <2>2. CASE Complain
    BY <2>2 DEF Complain, VerdictInv
  <2>3. CASE Exit
    <3>1. /\ UNCHANGED <<backend, expected, stdout, stderr>>
          /\ verdict' = "success" => \E exitOk \in BOOLEAN, cut \in SUBSET {"stdout", "stderr"} :
                                       Judge(exitOk, cut)
      BY <2>3 DEF Exit
    <3>2. ASSUME NEW exitOk \in BOOLEAN, NEW cut, Judge(exitOk, cut), backend = "sandbox"
          PROVE  Trim(stdout) = Trim(expected)
      BY <3>2 DEF Judge, JudgeSandbox
    <3>3. (Trim(stdout) = Trim(expected))' = (Trim(stdout) = Trim(expected))
      BY <3>1 DEF Trim
    <3>4. QED
      BY <3>1, <3>2, <3>3 DEF VerdictInv
  <2>4. CASE UNCHANGED vars
    BY <2>4 DEF vars, VerdictInv
  <2>5. QED
    BY <2>1, <2>2, <2>3, <2>4 DEF Next
<1>3. QED
  BY <1>1, <1>2, PTL DEF Spec

\* The sandbox accepts exactly the expected text, but for white space around it
\* (run_sandbox trims both).
THEOREM SandboxCompares == Spec => []SandboxComparesText
<1>1. VerdictInv => SandboxComparesText
  <2> SUFFICES ASSUME VerdictInv, backend = "sandbox" PROVE SandboxComparesText
    BY DEF SandboxComparesText
  <2>1. verdict = "success" => SameButForMargins(stdout, expected)
    BY TrimmedSame DEF VerdictInv
  <2>2. SameButForMargins(stdout, expected) => JudgeSandbox(TRUE)
    BY SameTrimmed DEF VerdictInv, JudgeSandbox
  <2>3. QED
    BY <2>1, <2>2 DEF SandboxComparesText
<1>2. QED
  BY <1>1, VerdictInvariant, PTL
=============================================================================
