---------------------------- MODULE MCFactStore ----------------------------
(***************************************************************************)
(* Small instances of FactStore for TLC: two requests for one payload and  *)
(* a third for another.                                                    *)
(***************************************************************************)
EXTENDS FactStore, TLC

CONSTANTS r1, r2, r3, p, q

MCRequests == {r1, r2, r3}
MCPayloads == {p, q}
MCPayloadOf == [r \in MCRequests |-> IF r = r3 THEN q ELSE p]

\* The two requests for p can be exchanged (safety runs only).
SamePayload == Permutations({r1, r2})
=============================================================================
