---------------------------- MODULE MCJudgements ----------------------------
(***************************************************************************)
(* The two judgements of the controller in one model for TLC: a verdict on *)
(* a process, or the gate on a sequence of states.  They share nothing,    *)
(* and a behaviour is about one of them.                                   *)
(***************************************************************************)
EXTENDS Verdict, Alignment

\* Weights a user may give: negative, zero, the scale, more than that, not a number.
MCWeights == {-1, 0, 3, 5, NaN}

MCInit ==
    \/ /\ Init
       /\ entries = <<>> /\ vectors = <<>> /\ base = 0
       /\ score = [n |-> 0, d |-> 1] /\ passed = FALSE
    \/ /\ GateInit
       /\ backend = "none" /\ expected = <<>> /\ stdout = <<>> /\ stderr = <<>>
       /\ verdict = "none"

MCNext ==
    \/ Next /\ UNCHANGED gateVars
    \/ verdict = "none" /\ Gate /\ UNCHANGED vars

MCSpec == MCInit /\ [][MCNext]_<<vars, gateVars>>
=============================================================================
