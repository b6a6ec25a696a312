----------------------------- MODULE MCRotation -----------------------------
(***************************************************************************)
(* Small instances of Rotation for TLC.                                    *)
(***************************************************************************)
EXTENDS Rotation, TLC

\* The rotation treats all pod names alike (safety runs only).
PodSymmetry == Permutations(Pods)

\* Without is what retain does to a list of distinct names.
ASSUME RetainAssumption ==
    \A n \in 0..3 : \A s \in [1..n -> 1..4] : \A x \in 1..4 :
        (\A i, j \in 1..n : s[i] = s[j] => i = j)
            => Retain(s, x) = SelectSeq(s, LAMBDA y : y # x)
=============================================================================
