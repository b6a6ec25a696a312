------------------------------ MODULE Handoff ------------------------------
(***************************************************************************)
(* The controller's rotation and the agents composed: Rotation says when a *)
(* pod is created and deleted, Agent what the process in it does, and      *)
(* POST /state/ingest leads back to the daemon.                            *)
(*                                                                         *)
(* What connects them is the kubelet: it starts the process of a pod that  *)
(* was created, delivers SIGTERM to one that is being deleted, and lets    *)
(* the pod go once its process has ended.  And what does not: the daemon   *)
(* stores the state it ingests in AppState::pending_state (ingested), and  *)
(* a rotation reads ControllerState::pending_state (pending), which no     *)
(* code of the daemon writes: Captures is empty here.                      *)
(*                                                                         *)
(* The two share the restarts of the daemon.  The name of a pod whose      *)
(* process has started is not used again.                                  *)
(***************************************************************************)
EXTENDS Rotation

CONSTANTS
    Keys, DaemonKey, MaxLoops,
    MaxLostPosts   \* bound: transmissions that fail, handlers that raise

VARIABLES
    process,       \* Agent's pc
    key, nodes, findings, signal, payload, request, ingested, lostPosts

A == INSTANCE Agent WITH
    pc <- process, faults <- lostPosts, MaxFaults <- MaxLostPosts

ASSUME AgentAssumption ==
    /\ DaemonKey \in Keys /\ None \notin A!State
    /\ MaxLoops \in Nat /\ MaxLostPosts \in Nat
ASSUME NoCaptureAssumption == Captures = {}

agentVars == <<process, key, nodes, findings, signal, payload, request,
               ingested, lostPosts>>
handoffVars == <<vars, agentVars>>

Ended(p) == process[p] \in {"absent", "gone"}

HandoffInit == Init /\ A!Init

-----------------------------------------------------------------------------
(* The controller and the cluster.                                         *)

\* A pod that is created gets a name under which no process has run.
NewProcesses ==
    \A p \in Pods : status[p] = "absent" /\ status'[p] = "live" => process[p] = "absent"

\* Injections are left out, because to the agents a rotation is the same whatever
\* woke the loop, and so are captures, of which the daemon has none.
ControllerStep ==
    /\ \/ RotationStep \/ WarmUpStep
       \/ Tick
       \/ \E p \in Pods : Evict(p)
    /\ NewProcesses
    /\ UNCHANGED agentVars

\* Both pending states are in the memory of the daemon.
RestartDaemon == Restart /\ A!RestartController

-----------------------------------------------------------------------------
(* The kubelet.                                                            *)

StartProcess(p) ==
    /\ Live(p)
    /\ A!Start(p)
    /\ UNCHANGED vars

\* Defect: a pod is terminated when it is created already.
SignalAny(p) ==
    /\ A!Terminate(p)
    /\ UNCHANGED vars

Signal(p) ==
    /\ status[p] = "terminating"
    /\ A!Terminate(p)
    /\ UNCHANGED vars

Kill(p) ==
    /\ A!Kill(p)
    /\ UNCHANGED vars

RemovePod(p) ==
    /\ Ended(p)
    /\ PodGone(p)
    /\ UNCHANGED agentVars

-----------------------------------------------------------------------------
(* The agents.                                                             *)

Work(p) ==
    /\ \/ A!Initialize(p)
       \/ A!EnterDag(p) \/ A!UpdateDag(p)
       \/ A!EnterSemantic(p) \/ A!UpdateSemantic(p)
    /\ UNCHANGED vars

Handle(p) == A!Handler(p) /\ UNCHANGED vars

Ingest(p) == A!Ingest(p) /\ UNCHANGED vars

HandoffNext ==
    \/ ControllerStep \/ RestartDaemon
    \/ \E p \in Pods :
          \/ StartProcess(p) \/ Signal(p) \/ Kill(p) \/ RemovePod(p)
          \/ Work(p) \/ Handle(p) \/ Ingest(p)

HandoffSpec == HandoffInit /\ [][HandoffNext]_handoffVars

-----------------------------------------------------------------------------
(* Properties.                                                             *)

\* The state the daemon holds comes from a pod that was told to end, never from
\* one that serves or stands by.
IngestedHasEnded == ingested # None => ~Live(ingested.from)

\* SIGTERM only comes to a pod that is no longer live, and it never becomes live
\* again: together with what Agent promises, this gives IngestedHasEnded.
SignalledHasEnded ==
    \A p \in Pods : signal[p] # "none" => ~Live(p) /\ process[p] # "absent"

\* The rotation deletes by name, and an agent that is told to end sends its state
\* and is gone.  As long as no call fails and nobody else deletes a pod, no agent
\* the controller counts on is told to: those of the pool stand by, and the active
\* one works, until the rotation that replaces it has begun.
ReliedServe ==
    faults = 0 =>
        \A p \in Relied :
            /\ Live(p) /\ signal[p] = "none"
            /\ process[p] \in A!Looping \cup {"absent", "boot"}

-----------------------------------------------------------------------------
(* What the documentation says and the code does not do.                   *)

\* README.md:64, "The warm pod is immediately promoted to active status with the
\* aligned state injected as `INITIAL_STATE`": a rotation that ends when the
\* daemon holds the state of the pod it replaces has injected that state.
PromotedWithState ==
    [][pc = "commit" /\ pc' = "replenish" /\ ingested # None
          /\ ingested.from = snapActive
       => injected[promoted] = ingested]_handoffVars
=============================================================================
