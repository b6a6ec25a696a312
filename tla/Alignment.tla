------------------------------ MODULE Alignment ------------------------------
(***************************************************************************)
(* The alignment gate, src/src/alignment.rs.  The code calls it from its   *)
(* tests only; here several states go through one gate, as in them.  A new *)
(* gate has no vectors.  The field is public, and meant for the active     *)
(* vectors of the ledger (src/src/ledger.rs), so a gate here starts with   *)
(* those of some ledger, an empty one among them.                          *)
(*                                                                         *)
(* Numbers are multiples of 1/Scale.  An embedding is a hash, so that the  *)
(* similarity of a state to the objective and to each vector is any number *)
(* from 0 to 1.  A score is the exact quotient of two integers; it is      *)
(* rounded down only as the weight of the vector a pass leaves behind.     *)
(***************************************************************************)
EXTENDS Integers, Sequences, FiniteSets, Functions

CONSTANTS
    Scale,
    Threshold,   \* AlignmentGate::threshold
    Weights,     \* weights users give to vectors, NaN among them
    NaN,         \* and what comes of a weight that is not finite
    Huge,        \* bound: stands for 1/1e-9
    MaxVectors,  \* bound: vectors of the ledger
    MaxGates     \* bound: states that go through the gate

ASSUME ScaleAssumption == Scale \in Nat \ {0} /\ Threshold \in 0..Scale
ASSUME WeightAssumption == Weights \subseteq Int \cup {NaN} /\ NaN \notin Int
ASSUME GateBoundsAssumption ==
    Huge \in Nat /\ MaxVectors \in Nat /\ MaxGates \in Nat

VARIABLES
    entries,  \* the ledger: a weight, and whether it was neutralised
    vectors,  \* AlignmentGate::ground_vectors, by weight
    base,     \* the last state's similarity to the objective,
    score,    \* its score, as numerator and denominator,
    passed    \* and whether it passed
gateVars == <<entries, vectors, base, score, passed>>

Similarity == 0..Scale

\* active_ground_vectors: the order of a HashMap is any order.
Active(es) == {i \in 1..Len(es) : ~es[i].neutralized}
ActiveVectors(es) ==
    LET n == Cardinality(Active(es))
    IN  {[k \in 1..n |-> es[order[k]].weight] : order \in Bijection(1..n, Active(es))}

\* Iterator::sum.
Total(xs) ==
    LET upTo[i \in 0..Len(xs)] == IF i = 0 THEN 0 ELSE upTo[i - 1] + xs[i]
    IN  upTo[Len(xs)]

\* The weights, each times the similarity to its vector.
Weighted(sims) == [i \in 1..Len(vectors) |-> sims[i] * vectors[i]]

\* Defect: the sum of the weights is not kept from zero, nor the mean from it.
ScoreUnguarded(b, sims) ==
    IF vectors = <<>> \/ Total(vectors) = 0 THEN [n |-> 2 * b, d |-> 1]
    ELSE [n |-> b + Total(Weighted(sims)), d |-> 2]

\* compute_alignment_score.
Score(b, sims) ==
    LET total == Total(vectors)
        weighted == Total(Weighted(sims))
    IN  IF vectors = <<>> THEN [n |-> b, d |-> 1]
        ELSE IF total > 0 THEN [n |-> b * total + weighted, d |-> 2 * total]
        ELSE [n |-> b + weighted * Huge, d |-> 2]

GateInit ==
    /\ \E n \in 0..MaxVectors :
          entries \in [1..n -> [weight : Weights, neutralized : BOOLEAN]]
    /\ vectors \in ActiveVectors(entries)
    /\ base = 0 /\ score = [n |-> 0, d |-> 1] /\ passed = FALSE

\* A score that is not a number is below no threshold.
GateNaN ==
    /\ NaN \in Range(vectors)
    /\ base' \in Similarity
    /\ score' = [n |-> NaN, d |-> 1]
    /\ passed' = TRUE
    /\ vectors' = Append(vectors, NaN)

\* Defect: the new vector has the similarity to the objective, doubled.
GatePassesDouble ==
    /\ NaN \notin Range(vectors)
    /\ base' \in Similarity
    /\ \E sims \in [1..Len(vectors) -> Similarity] : score' = Score(base', sims)
    /\ score'.n >= Threshold * score'.d
    /\ passed' = TRUE
    /\ vectors' = Append(vectors, 2 * base')

\* run_alignment_gate: a pass adds the state as a vector, with its score.
GatePasses ==
    /\ NaN \notin Range(vectors)
    /\ base' \in Similarity
    /\ \E sims \in [1..Len(vectors) -> Similarity] : score' = Score(base', sims)
    /\ score'.n >= Threshold * score'.d
    /\ passed' = TRUE
    /\ vectors' = Append(vectors, score'.n \div score'.d)

GateRejects ==
    /\ NaN \notin Range(vectors)
    /\ base' \in Similarity
    /\ \E sims \in [1..Len(vectors) -> Similarity] : score' = Score(base', sims)
    /\ score'.n < Threshold * score'.d
    /\ passed' = FALSE
    /\ UNCHANGED vectors

Gate ==
    /\ Len(vectors) < Cardinality(Active(entries)) + MaxGates
    /\ GateNaN \/ GatePasses \/ GateRejects
    /\ UNCHANGED entries

GateSpec == GateInit /\ [][Gate]_gateVars

-----------------------------------------------------------------------------
(* Properties.                                                             *)

\* The active vectors of the ledger have weights that make a mean.
Proper == \A i \in 1..Len(entries) :
              ~entries[i].neutralized => entries[i].weight \in Nat

\* Whatever passed before and left its vector, the objective keeps half of the
\* say: no state passes that is further from it than the threshold allows a
\* state that agrees with every vector.  Neutralised entries have no say, not
\* even with a weight that is negative or not a number.
ObjectiveKeepsHalf == Proper /\ passed => base + Scale >= 2 * Threshold

\* The vectors that passes leave behind weigh between 0 and 1, however long the
\* sequence and whatever the weights of the ledger.
VectorsStayProper ==
    Proper => \A i \in (Cardinality(Active(entries)) + 1)..Len(vectors) :
                  vectors[i] \in Similarity
=============================================================================
