------------------------------ MODULE PodSlot ------------------------------
(***************************************************************************)
(* What a rotation promises to the agents, with none of its mechanism: the *)
(* role "active" is a slot.  A pod that holds it gives it up before        *)
(* another one takes it, and the slot never has two holders.               *)
(*                                                                         *)
(* The controller of src/src/controller.rs implements it (Rotation.tla):   *)
(* rotate_active_pod deletes the active pod before it promotes another.    *)
(***************************************************************************)
CONSTANT Pods
VARIABLE holders

SlotInit == holders = {}

Take == /\ holders = {}
        /\ \E p \in Pods : holders' = {p}

Release == /\ holders # {}
           /\ holders' = {}

SlotNext == Take \/ Release

SlotSpec == SlotInit /\ [][SlotNext]_holders
=============================================================================
