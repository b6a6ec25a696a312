---------------------------- MODULE LedgerPromise ----------------------------
(***************************************************************************)
(* What the ledger of ground vectors promises, with none of its mechanism: *)
(* a set of changes that is only ever added to.  A change that was         *)
(* acknowledged stays; one that was not may be lost.  The promise holds    *)
(* until it is void, and LedgerStore says what makes it so.                *)
(***************************************************************************)
CONSTANT Changes
VARIABLES
    entries,    \* the changes the ledger holds
    promised,   \* those that were acknowledged
    void

PromiseInit == entries = {} /\ promised = {} /\ void = FALSE

Change == /\ \E x \in Changes \ entries : entries' = entries \cup {x}
          /\ UNCHANGED <<promised, void>>

Acknowledge == /\ \E x \in entries : promised' = promised \cup {x}
               /\ UNCHANGED <<entries, void>>

Lose == /\ entries' \subseteq entries /\ promised \subseteq entries'
        /\ UNCHANGED <<promised, void>>

GiveUp == void' /\ entries' = {} /\ promised' = {}

PromiseNext == ~void /\ (Change \/ Acknowledge \/ Lose \/ GiveUp)

PromiseSpec == PromiseInit /\ [][PromiseNext]_<<entries, promised, void>>
=============================================================================
