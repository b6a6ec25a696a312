---------------------------- MODULE HandoffProofs ----------------------------
(***************************************************************************)
(* Theorems about Handoff: the composition leaves each of its two parts    *)
(* what it is alone, so that what is proved of Rotation and of Agent holds *)
(* of both together; and what only both together promise.                  *)
(***************************************************************************)
EXTENDS Handoff, RotationProofs

\* Agent with its theorems, under the same substitution as A.
P == INSTANCE AgentProofs WITH
    pc <- process, faults <- lostPosts, MaxFaults <- MaxLostPosts

\* What Agent assumes of its constants.
LEMMA AgentAssumptions ==
    P!KeyAssumption /\ P!NoneAssumption /\ P!BoundsAssumption
BY AgentAssumption, BoundsAssumption
   DEF P!KeyAssumption, P!NoneAssumption, P!BoundsAssumption,
       P!State, P!Recorded, A!State, A!Recorded

-----------------------------------------------------------------------------
(* The two parts.                                                          *)

\* Every step of the composition is one of the controller or of the cluster, or
\* leaves both alone: the kubelet, and the agents, do nothing to a pod's status
\* that Rotation does not allow.
THEOREM RotationImplemented == HandoffSpec => Spec
<1>1. HandoffInit => Init
  BY DEF HandoffInit
<1>2. [HandoffNext]_handoffVars => [Next]_vars
  BY DEF HandoffNext, handoffVars, ControllerStep, RestartDaemon, StartProcess,
     Signal, Kill, RemovePod, Work, Handle, Ingest, Next, Environment
<1>3. QED
  BY <1>1, <1>2, PTL DEF HandoffSpec, Spec

\* The restarts of the daemon are nobody else's.
LEMMA RestartsKept ==
    ASSUME ControllerStep \/ \E p \in Pods : RemovePod(p)
    PROVE  UNCHANGED restarts
BY DEF ControllerStep, RemovePod, RotationStep, WarmUpStep, budget, Fault, NoFault,
   RotateExhausted, RotateBegin, DeleteActive, DeleteFails, ReadPending,
   CreateActive, CreateActiveFails, PatchWarm, PatchFails, DropWarm, Commit,
   Replenish, ReplenishFails, Push, WarmUpCreate, WarmUpFails, WarmUpPush,
   CreateFails, Tick, Evict, PodGone

\* Every step of the composition is one of the pods' processes, of the kubelet
\* that signals them, or of the daemon that ingests, or leaves them all alone.
THEOREM AgentImplemented == HandoffSpec => P!Spec
<1>1. HandoffInit => P!Init
  BY DEF HandoffInit, A!Init, P!Init
<1>2. [HandoffNext]_handoffVars => [P!Next]_P!vars
  <2> SUFFICES ASSUME [HandoffNext]_handoffVars PROVE [P!Next]_P!vars
    OBVIOUS
  <2> USE DEF P!Next, P!Handler, A!process, A!post, A!budget, P!process, P!post,
          P!budget
  <2>1. CASE ControllerStep
    BY <2>1, RestartsKept DEF ControllerStep, agentVars, P!vars
  <2>2. CASE RestartDaemon
    BY <2>2 DEF RestartDaemon, A!RestartController, P!RestartController
  <2>3. ASSUME NEW p \in Pods, StartProcess(p) PROVE P!Next
    BY <2>3 DEF StartProcess, A!Start, P!Start
  <2>4. ASSUME NEW p \in Pods, Signal(p) PROVE P!Next
    BY <2>4 DEF Signal, A!Terminate, P!Terminate, A!Alive, P!Alive, A!Looping,
       P!Looping
  <2>5. ASSUME NEW p \in Pods, Kill(p) PROVE P!Next
    BY <2>5 DEF Kill, A!Kill, P!Kill, A!Alive, P!Alive, A!Looping, P!Looping
  <2>6. ASSUME NEW p \in Pods, RemovePod(p) PROVE UNCHANGED P!vars
    BY <2>6, RestartsKept DEF RemovePod, agentVars, P!vars
  <2>7. ASSUME NEW p \in Pods, Work(p) PROVE P!Next
    BY <2>7 DEF Work, A!Initialize, P!Initialize, A!EnterDag, P!EnterDag,
       A!UpdateDag, P!UpdateDag, A!EnterSemantic, P!EnterSemantic,
       A!UpdateSemantic, P!UpdateSemantic, A!Recorded, P!Recorded
  <2>8. ASSUME NEW p \in Pods, Handle(p) PROVE P!Next
    BY <2>8 DEF Handle, A!Handler, A!TakeSignal, P!TakeSignal,
       A!HandlerRaises, P!HandlerRaises, A!Answered, P!Answered, A!TransmitFails, P!TransmitFails, A!Holding, P!Holding,
       A!Snapshot, P!Snapshot
  <2>9. ASSUME NEW p \in Pods, Ingest(p) PROVE P!Next
    BY <2>9 DEF Ingest, A!Ingest, P!Ingest, A!Decodes, P!Decodes,
       A!DagNodeStatus, P!DagNodeStatus, A!SignatureMatches, P!SignatureMatches
  <2>10. CASE UNCHANGED handoffVars
    BY <2>10 DEF handoffVars, agentVars, vars, budget, P!vars
  <2>11. QED
    BY <2>1, <2>2, <2>3, <2>4, <2>5, <2>6, <2>7, <2>8, <2>9, <2>10 DEF HandoffNext
<1>3. QED
  BY <1>1, <1>2, PTL DEF HandoffSpec, P!Spec

-----------------------------------------------------------------------------
(* What both together promise.                                             *)

\* A pod only becomes live when it is created, under a name nobody has.
LEMMA LiveIsNew ==
    ASSUME TypeOK, [Next]_vars, NEW p \in Pods, Live(p)'
    PROVE  status[p] \in {"live", "absent"}
<1> USE DEF TypeOK, Live, cluster
<1>1. \/ UNCHANGED status
      \/ \E q : Terminate(q)
      \/ \E q \in FreshNames, r \in {"warm", "active"} : \E s : Created(q, r, s)
      \/ \E q \in Pods : PodGone(q)
  BY DEF Next, RotationStep, WarmUpStep, Environment, vars,
     RotateExhausted, RotateBegin, DeleteActive, DeleteFails, ReadPending,
     CreateActive, CreateActiveFails, PatchWarm, PatchFails, DropWarm, Commit,
     Replenish, ReplenishFails, Push, WarmUpCreate, WarmUpFails, WarmUpPush,
     CreateFails, Relabelled, Tick, InjectImmediate, CaptureState, Restart, Evict
<1>2. QED
  BY <1>1 DEF Terminate, Created, FreshNames, PodGone

\* The signal comes to a pod that is being deleted, and no process of its name
\* starts after that.
LEMMA SignalledStep ==
    TypeOK /\ P!TypeOK /\ P!EndAgrees /\ SignalledHasEnded /\ [HandoffNext]_handoffVars
        => SignalledHasEnded'
<1> SUFFICES ASSUME TypeOK, P!TypeOK, P!EndAgrees, SignalledHasEnded,
                    [HandoffNext]_handoffVars
             PROVE  SignalledHasEnded'
  OBVIOUS
<1>0. /\ process \in [Pods -> P!PCs]
      /\ signal \in [Pods -> {"none", "pending", "dropped", "caught"}]
  BY DEF P!TypeOK
<1> USE <1>0 DEF SignalledHasEnded
<1>1. CASE ControllerStep
  <2>1. [Next]_vars
    BY <1>1 DEF ControllerStep, Next, Environment
  <2>2. ASSUME NEW p \in Pods, signal[p] # "none" PROVE ~Live(p)'
    BY <1>1, <2>1, <2>2, LiveIsNew DEF ControllerStep, NewProcesses, Live
  <2>3. QED
    BY <1>1, <2>2 DEF ControllerStep, agentVars
<1>2. CASE RestartDaemon
  BY <1>2 DEF RestartDaemon, Restart, A!RestartController, A!process, Live
<1>3. ASSUME NEW p \in Pods, StartProcess(p) PROVE SignalledHasEnded'
  BY <1>3 DEF StartProcess, A!Start, vars, cluster, Live
<1>4. ASSUME NEW p \in Pods, Signal(p) PROVE SignalledHasEnded'
  BY <1>4 DEF Signal, A!Terminate, A!Alive, A!Looping, A!process, vars, cluster, Live
<1>5. ASSUME NEW p \in Pods, Kill(p) PROVE SignalledHasEnded'
  BY <1>5 DEF Kill, A!Kill, vars, cluster, Live
<1>6. ASSUME NEW p \in Pods, RemovePod(p) PROVE SignalledHasEnded'
  BY <1>6 DEF RemovePod, PodGone, agentVars, Live, TypeOK
<1>7. ASSUME NEW p \in Pods, Work(p) PROVE SignalledHasEnded'
  BY <1>7 DEF Work, A!Initialize, A!EnterDag, A!UpdateDag, A!EnterSemantic,
     A!UpdateSemantic, vars, cluster, Live
<1>8. ASSUME NEW p \in Pods, Handle(p) PROVE SignalledHasEnded'
  BY <1>8 DEF Handle, A!Handler, A!TakeSignal, A!HandlerRaises, A!Answered,
     A!TransmitFails, vars, cluster, Live
<1>9. ASSUME NEW p \in Pods, Ingest(p) PROVE SignalledHasEnded'
  BY <1>9 DEF Ingest, A!Ingest, A!process, vars, cluster, Live
<1>10. CASE UNCHANGED handoffVars
  BY <1>10 DEF handoffVars, agentVars, vars, cluster, Live
<1>11. QED
  BY <1>1, <1>2, <1>3, <1>4, <1>5, <1>6, <1>7, <1>8, <1>9, <1>10 DEF HandoffNext

\* SIGTERM never reaches a live pod, and no signalled pod becomes live again.
THEOREM SignalledEnded == HandoffSpec => []SignalledHasEnded
<1>1. HandoffInit => SignalledHasEnded
  BY DEF HandoffInit, A!Init, SignalledHasEnded
<1>2. P!Inductive => P!TypeOK /\ P!EndAgrees
  BY DEF P!Inductive
<1>3. HandoffSpec => [](TypeOK /\ P!Inductive)
  BY RotationImplemented, AgentImplemented, AgentAssumptions, TypeCorrect,
     P!InductiveInvariant, PTL
<1>4. QED
  BY <1>1, <1>2, <1>3, SignalledStep, PTL DEF HandoffSpec

\* The state the daemon holds was sent by a pod that is live no longer: a pod
\* sends when it has caught its signal.
THEOREM IngestedEnded == HandoffSpec => []IngestedHasEnded
<1>1. P!Inductive /\ SignalledHasEnded => IngestedHasEnded
  <2> SUFFICES ASSUME P!Inductive, SignalledHasEnded, ingested # None
               PROVE  ~Live(ingested.from)
    BY DEF IngestedHasEnded
  <2>1. ingested.from \in Pods
    BY DEF P!Inductive, P!TypeOK, P!State
  <2>2. P!Sent(ingested.from)
    BY DEF P!Inductive, P!IngestedIsGenuine, P!Sent
  <2>3. signal[ingested.from] # "none"
    BY <2>1, <2>2 DEF P!Inductive, P!EndAgrees, P!Looping
  <2>4. QED
    BY <2>1, <2>3 DEF SignalledHasEnded
<1>2. QED
  BY <1>1, AgentImplemented, AgentAssumptions, P!InductiveInvariant,
     SignalledEnded, PTL

\* None of the pods the controller counts on is told to end, as long as no call
\* fails and nobody else deletes a pod: they run (ReliedLive), a signalled pod
\* does not (SignalledHasEnded), and the process of a pod that was not signalled
\* is starting or in its loop (EndAgrees).
THEOREM ReliedServing == HandoffSpec => []ReliedServe
<1>1. TypeOK /\ LocalsAgree /\ ReliedLive /\ P!Inductive /\ SignalledHasEnded
         => ReliedServe
  <2> SUFFICES ASSUME TypeOK, LocalsAgree, ReliedLive, P!Inductive,
                      SignalledHasEnded, faults = 0, NEW p \in Relied
               PROVE  /\ Live(p) /\ signal[p] = "none"
                      /\ process[p] \in A!Looping \cup {"absent", "boot"}
    BY DEF ReliedServe
  <2>1. Live(p)
    BY NoCaptureAssumption, SignedAssumption DEF ReliedLive
  <2>2. p \in Pods
    BY HeadEntry DEF TypeOK, LocalsAgree, Relied, MaybePod
  <2>3. signal[p] = "none"
    BY <2>1, <2>2 DEF SignalledHasEnded
  <2>4. process[p] \in A!Looping \cup {"absent", "boot"}
    BY <2>2, <2>3 DEF P!Inductive, P!EndAgrees, P!Looping, A!Looping
  <2>5. QED
    BY <2>1, <2>3, <2>4
<1>2. Spec => [](TypeOK /\ LocalsAgree /\ ReliedLive)
  <2>1. Common => TypeOK /\ LocalsAgree
    BY DEF Common
  <2>2. QED
    BY <2>1, CommonInvariant, ReliedInvariant, PTL
<1>3. QED
  BY <1>1, <1>2, RotationImplemented, AgentImplemented, AgentAssumptions,
     P!InductiveInvariant, SignalledEnded, PTL
=============================================================================
